----------------------------- MODULE Scheduler -----------------------------
(****************************************************************************)
(* The beginning of a block: app.beginBlocker with increaseMinute and       *)
(* executeTimeEvents, and the registration of events in x/global.           *)
(*                                                                          *)
(* A block first catches up with the minutes since the last one, which      *)
(* opens the statistics of new days, and then goes through the seconds from *)
(* the last block's to its own, exclusive, executes the events of each and  *)
(* removes their list.  What a step of either loop does for its own module  *)
(* is modelled there; here, an event may register another event.            *)
(****************************************************************************)
EXTENDS Integers, Sequences

CONSTANTS
  Events,      \* RewardEvent, ReturnCoinEvent, DecideProposalEvent, ...
  FollowUps,   \* events an event may register: DecideProposalEvent does
  Delays,      \* intervals of events
  Times,       \* seconds
  Minute,      \* seconds of a minute
  Day,         \* types.MinutesPerDay
  ListBound    \* bound: events of one second

ASSUME SchedulerAssumption ==
  /\ FollowUps \in [Events -> SUBSET Events]
  /\ Delays \subseteq Nat
  /\ Times \subseteq Nat /\ 0 \in Times /\ \A t \in Times : 0 .. t \subseteq Times
  /\ Minute \in Nat \ {0} /\ Day \in Nat \ {0} /\ ListBound \in Nat

VARIABLES
  phase,          \* where the block is
  now,            \* time of the block header
  chainStart,     \* GlobalTime.ChainStartTime, 0 before the first block
  lastBlockTime,  \* GlobalTime.LastBlockTime
  pastMinutes,    \* GlobalTime.PastMinutes
  lastStat,       \* the latest day that has a LinoStakeStat
  timeEvents,     \* TimeEventList of every second
  cursor,         \* i of the loop in executeTimeEvents
  position        \* events of the cursor's list executed so far

vars == <<phase, now, chainStart, lastBlockTime, pastMinutes, lastStat,
          timeEvents, cursor, position>>

Phases == {"genesis", "minutes", "events", "txs"}
-----------------------------------------------------------------------------
(* The first block starts the chain.                                        *)
BeginBlock(time) ==
  /\ phase \in {"genesis", "txs"}
  /\ time >= now /\ time > 0
  /\ phase' = "minutes" /\ now' = time
  /\ IF chainStart = 0
     THEN chainStart' = time /\ lastBlockTime' = time
     ELSE UNCHANGED <<chainStart, lastBlockTime>>
  /\ UNCHANGED <<pastMinutes, lastStat, timeEvents, cursor, position>>

MinutesBehind == (now - chainStart) \div Minute > pastMinutes

(* Mutant: the new value is not stored.                                     *)
IncreaseMinuteUnsaved ==
  /\ phase = "minutes" /\ MinutesBehind
  /\ lastStat' = IF (pastMinutes + 1) % Day = 0 THEN (pastMinutes + 1) \div Day ELSE lastStat
  /\ UNCHANGED <<phase, now, chainStart, lastBlockTime, pastMinutes, timeEvents,
                 cursor, position>>

(* Mutant: the daily event looks at the minute before.                      *)
IncreaseMinuteLate ==
  /\ phase = "minutes" /\ MinutesBehind
  /\ pastMinutes' = pastMinutes + 1
  /\ lastStat' = IF pastMinutes > 0 /\ pastMinutes % Day = 0 THEN pastMinutes \div Day ELSE lastStat
  /\ UNCHANGED <<phase, now, chainStart, lastBlockTime, timeEvents, cursor, position>>

(* The daily event writes the statistic of the day that begins.             *)
IncreaseMinute ==
  /\ phase = "minutes" /\ MinutesBehind
  /\ pastMinutes' = pastMinutes + 1
  /\ lastStat' = IF pastMinutes' % Day = 0 THEN pastMinutes' \div Day ELSE lastStat
  /\ UNCHANGED <<phase, now, chainStart, lastBlockTime, timeEvents, cursor, position>>

(* Mutant: the second of the last block is not looked at again.             *)
MinutesDoneAfterLast ==
  /\ phase = "minutes" /\ ~MinutesBehind
  /\ phase' = "events" /\ cursor' = lastBlockTime + 1 /\ position' = 0
  /\ UNCHANGED <<now, chainStart, lastBlockTime, pastMinutes, lastStat, timeEvents>>

MinutesDone ==
  /\ phase = "minutes" /\ ~MinutesBehind
  /\ phase' = "events" /\ cursor' = lastBlockTime /\ position' = 0
  /\ UNCHANGED <<now, chainStart, lastBlockTime, pastMinutes, lastStat, timeEvents>>

(* registerEventAtTime appends to the list of a second.                     *)
Register(event, delay) ==
  /\ now + delay \in Times
  /\ Len(timeEvents[now + delay]) < ListBound
  /\ timeEvents' = [timeEvents EXCEPT ![now + delay] = Append(@, event)]

ExecuteEvent ==
  /\ phase = "events" /\ cursor < now
  /\ position < Len(timeEvents[cursor])
  /\ position' = position + 1
  /\ \/ UNCHANGED timeEvents
     \/ \E next \in FollowUps[timeEvents[cursor][position + 1]], delay \in Delays :
          Register(next, delay)
  /\ UNCHANGED <<phase, now, chainStart, lastBlockTime, pastMinutes, lastStat, cursor>>

(* RemoveTimeEventList.                                                     *)
NextSecond ==
  /\ phase = "events" /\ cursor < now
  /\ position = Len(timeEvents[cursor])
  /\ timeEvents' = [timeEvents EXCEPT ![cursor] = <<>>]
  /\ cursor' = cursor + 1 /\ position' = 0
  /\ UNCHANGED <<phase, now, chainStart, lastBlockTime, pastMinutes, lastStat>>

EventsDone ==
  /\ phase = "events" /\ ~(cursor < now)
  /\ phase' = "txs" /\ lastBlockTime' = now
  /\ UNCHANGED <<now, chainStart, pastMinutes, lastStat, timeEvents, cursor, position>>

(* The message handlers register their events.                              *)
RegisterByTx(event, delay) ==
  /\ phase = "txs"
  /\ Register(event, delay)
  /\ UNCHANGED <<phase, now, chainStart, lastBlockTime, pastMinutes, lastStat,
                 cursor, position>>
-----------------------------------------------------------------------------
(* Genesis registers nothing, and opens the statistic of day 0.             *)
Init ==
  /\ phase = "genesis" /\ now = 0 /\ chainStart = 0 /\ lastBlockTime = 0
  /\ pastMinutes = 0 /\ lastStat = 0
  /\ timeEvents = [t \in Times |-> <<>>]
  /\ cursor = 0 /\ position = 0

(* The steps of a block that nobody outside can hold up.                    *)
BlockStep ==
  IncreaseMinute \/ MinutesDone \/ ExecuteEvent \/ NextSecond \/ EventsDone

Next ==
  \/ \E time \in Times : BeginBlock(time)
  \/ BlockStep
  \/ \E event \in Events, delay \in Delays : RegisterByTx(event, delay)

Spec == Init /\ [][Next]_vars

FairSpec == Spec /\ WF_vars(BlockStep)
-----------------------------------------------------------------------------
(****************************************************************************)
(* Properties.                                                              *)
(****************************************************************************)
(* What is left of every list: the events of the cursor's list that have    *)
(* been executed are still in the store, but nobody executes them again.    *)
Left(t) ==
  IF phase = "events" /\ t = cursor
  THEN SubSeq(timeEvents[t], position + 1, Len(timeEvents[t]))
  ELSE timeEvents[t]

Queue == [t \in Times |-> Left(t)]

D == INSTANCE Delivery WITH clock <- now, queue <- Queue

TypeOK ==
  /\ phase \in Phases
  /\ now \in Times /\ chainStart \in Nat /\ lastBlockTime \in Nat
  /\ pastMinutes \in Nat /\ lastStat \in Nat
  /\ timeEvents \in [Times -> Seq(Events)]
  /\ cursor \in Nat /\ position \in Nat
  /\ phase = "events" =>
       /\ cursor \in lastBlockTime .. now
       /\ position <= Len(timeEvents[cursor])

(* Exactly once, in order, by the first block past the second.              *)
DeliversOnce == D!DeliverySpec

(* The two clocks of the chain agree when transactions and events use them: *)
(* GetPastDay counts from the block time, the statistics are opened by the  *)
(* minutes, and AddStake in an event panics if today's is missing.          *)
StatOfToday ==
  phase \in {"events", "txs"} => lastStat = (now - chainStart) \div (Minute * Day)

(* A block gets through with both loops, whatever it has to catch up with,  *)
(* and leaves nothing overdue.                                              *)
BlocksEnd == phase = "minutes" ~> phase = "txs" /\ D!Overdue = {}
=============================================================================
