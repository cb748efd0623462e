----------------------------- MODULE GlobalProofs -----------------------------
(****************************************************************************)
(* The two halves of x/global: its time, in Scheduler, and the statistics   *)
(* of stake and friction that x/vote settles with, in Vote.                 *)
(****************************************************************************)
EXTENDS Scheduler, Vote, CoinsProofs, SequenceTheorems

(****************************************************************************)
(* TIME.  Scheduler implements Delivery, for every set of events and delays *)
(* and without a bound on time.                                             *)
(*                                                                          *)
(* The argument: behind the frontier, the second the block has got to,      *)
(* every list is empty, because lists are emptied as the cursor passes and  *)
(* an event is registered at the block time or later, which the cursor has  *)
(* not passed.  So the cursor's list holds the earliest events, and nothing *)
(* is overdue when the loop is over.  Nor does the list grow while the loop *)
(* goes through it, so the loop is over some time.                          *)
(****************************************************************************)
Frontier ==
  IF phase = "minutes" THEN lastBlockTime
  ELSE IF phase = "events" THEN cursor ELSE now

(* Where the block is in its time.                                          *)
Clocks ==
  /\ lastBlockTime <= now
  /\ phase = "txs" => lastBlockTime = now
  /\ phase # "genesis" => chainStart > 0
  /\ chainStart <= now
  /\ phase = "genesis" => now = 0 /\ chainStart = 0
  /\ phase = "events" /\ cursor = now => position = 0

(* Genesis registers nothing.                                               *)
Waiting ==
  \A t \in Times : timeEvents[t] # <<>> => phase # "genesis" /\ t >= Frontier

Inv == TypeOK /\ Clocks /\ Waiting
------------------------------------------------------------------------------
(* The sequence facts the loop rests on: what is left of a list before the  *)
(* first of its events is executed, after the last, and after one of them.  *)
LEMMA LeftWhole ==
  ASSUME NEW S, NEW s \in Seq(S)
  PROVE  SubSeq(s, 1, Len(s)) = s
PROOF BY SMT

LEMMA LeftNone ==
  ASSUME NEW S, NEW s \in Seq(S)
  PROVE  SubSeq(s, Len(s) + 1, Len(s)) = <<>>
PROOF BY SMT

LEMMA LeftOfOne ==
  ASSUME NEW S, NEW s \in Seq(S), NEW i \in Nat, i < Len(s)
  PROVE  /\ SubSeq(s, i + 1, Len(s)) # <<>>
         /\ Head(SubSeq(s, i + 1, Len(s))) = s[i + 1]
         /\ Tail(SubSeq(s, i + 1, Len(s))) = SubSeq(s, i + 2, Len(s))
PROOF
<1> DEFINE r == SubSeq(s, i + 1, Len(s))
<1>1. r \in Seq(S) /\ Len(r) = Len(s) - i /\ \A j \in 1 .. Len(s) - i : r[j] = s[i + j]
  BY SMT
<1>2. r # <<>> /\ Head(r) = s[i + 1]
  BY <1>1, SMT
<1>3. Tail(r) = SubSeq(s, i + 2, Len(s))
  BY <1>1, <1>2, SMT
<1>4. QED BY <1>2, <1>3

(* What has been executed of a list was there before.                       *)
LEMMA LeftOfNone ==
  ASSUME NEW S, NEW s \in Seq(S), NEW i \in Nat, SubSeq(s, i + 1, Len(s)) # <<>>
  PROVE  s # <<>>
PROOF BY SMT
------------------------------------------------------------------------------
LEMMA InitInv == Init => Inv
PROOF
  BY SchedulerAssumption, EmptySeq DEF Init, Inv, TypeOK, Phases, Clocks, Waiting, Frontier

(* Registering an event: the lists stay lists, and the only one that        *)
(* changes, by one event at its end, is not behind the block time.          *)
LEMMA RegisterLists ==
  ASSUME Inv, NEW event \in Events, NEW delay \in Delays, Register(event, delay)
  PROVE  /\ now + delay \in Times
         /\ timeEvents' \in [Times -> Seq(Events)]
         /\ timeEvents'[now + delay] = Append(timeEvents[now + delay], event)
         /\ \A t \in Times : t # now + delay => timeEvents'[t] = timeEvents[t]
PROOF
<1>1. timeEvents \in [Times -> Seq(Events)] /\ now + delay \in Times
  BY DEF Inv, TypeOK, Register
<1>2. Append(timeEvents[now + delay], event) \in Seq(Events)
  BY <1>1
<1>3. QED
  BY <1>1, <1>2 DEF Register

LEMMA BeginBlockInv ==
  ASSUME Inv, NEW time \in Times, BeginBlock(time)
  PROVE  Inv'
PROOF
<1> USE SchedulerAssumption DEF Inv
<1>1. TypeOK'
  BY DEF TypeOK, Phases, BeginBlock
<1>2. Clocks'
  BY DEF TypeOK, Clocks, BeginBlock
<1>3. Waiting'
  BY DEF TypeOK, Clocks, Waiting, Frontier, BeginBlock
<1>4. QED BY <1>1, <1>2, <1>3

LEMMA MinutesInv ==
  ASSUME Inv, IncreaseMinute \/ MinutesDone
  PROVE  Inv'
PROOF
<1> USE SchedulerAssumption DEF Inv, Clocks, Waiting, Frontier
<1>1. CASE IncreaseMinute
  <2>1. pastMinutes' \in Nat /\ lastStat' \in Nat
    <3>1. pastMinutes + 1 \in Nat /\ (pastMinutes + 1) \div Day \in Nat
      BY DEF TypeOK
    <3>2. QED BY <1>1, <3>1 DEF IncreaseMinute, TypeOK
  <2>2. QED BY <1>1, <2>1 DEF IncreaseMinute, TypeOK, Phases
<1>2. CASE MinutesDone
  <2>1. lastBlockTime \in Times
    BY DEF TypeOK
  <2>2. timeEvents[lastBlockTime] \in Seq(Events)
    BY <2>1 DEF TypeOK
  <2>3. QED BY <1>2, <2>2 DEF MinutesDone, TypeOK, Phases
<1>3. QED BY <1>1, <1>2

LEMMA ExecuteInv ==
  ASSUME Inv, ExecuteEvent
  PROVE  Inv'
PROOF
<1> USE SchedulerAssumption
<1>1. cursor \in Times /\ cursor < now /\ timeEvents[cursor] \in Seq(Events)
  BY DEF Inv, TypeOK, ExecuteEvent
<1>2. CASE UNCHANGED timeEvents
  BY <1>1, <1>2 DEF Inv, TypeOK, Phases, Clocks, Waiting, Frontier, ExecuteEvent
<1>3. CASE \E next \in FollowUps[timeEvents[cursor][position + 1]], delay \in Delays :
             Register(next, delay)
  <2>1. timeEvents[cursor][position + 1] \in Events
    BY <1>1 DEF ExecuteEvent, Inv, TypeOK
  <2>2. PICK next \in Events, delay \in Delays : Register(next, delay)
    BY <1>3, <2>1
  <2>3. now + delay > cursor /\ now + delay \in Times /\ delay \in Nat
    BY <1>1, <2>2, RegisterLists DEF Inv, TypeOK
  <2>4. /\ timeEvents' \in [Times -> Seq(Events)]
        /\ \A t \in Times : t # now + delay => timeEvents'[t] = timeEvents[t]
    BY <2>2, RegisterLists
  <2>5. TypeOK'
    BY <1>1, <2>3, <2>4 DEF Inv, TypeOK, Phases, ExecuteEvent
  <2>6. Clocks'
    BY <1>1 DEF Inv, TypeOK, Clocks, ExecuteEvent
  <2>7. Waiting'
    <3>1. Frontier = cursor /\ Frontier' = cursor /\ phase = "events" /\ phase' = "events"
      BY DEF Frontier, ExecuteEvent
    <3>2. ASSUME NEW t \in Times, timeEvents'[t] # <<>>
          PROVE  t >= cursor
      <4>1. CASE t = now + delay
        BY <2>3, <4>1, <1>1 DEF Inv, TypeOK
      <4>2. CASE t # now + delay
        BY <2>4, <3>1, <3>2, <4>2 DEF Inv, Waiting
      <4>3. QED BY <4>1, <4>2
    <3>3. QED BY <3>1, <3>2 DEF Waiting
  <2>8. QED BY <2>5, <2>6, <2>7 DEF Inv
<1>4. QED BY <1>2, <1>3 DEF ExecuteEvent

LEMMA NextSecondInv ==
  ASSUME Inv, NextSecond
  PROVE  Inv'
PROOF
<1> USE SchedulerAssumption
<1>1. cursor \in Times /\ cursor < now /\ cursor + 1 \in Times
  BY DEF Inv, TypeOK, NextSecond
<1>2. /\ timeEvents' \in [Times -> Seq(Events)]
      /\ timeEvents'[cursor] = <<>>
      /\ \A t \in Times : t # cursor => timeEvents'[t] = timeEvents[t]
  BY <1>1 DEF Inv, TypeOK, NextSecond
<1>3. timeEvents'[cursor + 1] \in Seq(Events) /\ Len(timeEvents'[cursor + 1]) >= 0
  BY <1>1, <1>2
<1>4. TypeOK'
  BY <1>1, <1>2, <1>3 DEF Inv, TypeOK, Phases, NextSecond
<1>5. Clocks'
  BY <1>1 DEF Inv, Clocks, NextSecond
<1>6. Waiting'
  BY <1>1, <1>2 DEF Inv, Waiting, Frontier, NextSecond, TypeOK
<1>7. QED BY <1>4, <1>5, <1>6 DEF Inv

LEMMA EventsDoneInv ==
  ASSUME Inv, EventsDone
  PROVE  Inv'
PROOF
  BY SchedulerAssumption
  DEF Inv, TypeOK, Phases, Clocks, Waiting, Frontier, EventsDone

LEMMA RegisterByTxInv ==
  ASSUME Inv, NEW event \in Events, NEW delay \in Delays, RegisterByTx(event, delay)
  PROVE  Inv'
PROOF
<1> USE SchedulerAssumption
<1>1. Register(event, delay)
  BY DEF RegisterByTx
<1>2. /\ timeEvents' \in [Times -> Seq(Events)]
      /\ \A t \in Times : t # now + delay => timeEvents'[t] = timeEvents[t]
  BY <1>1, RegisterLists
<1>3. TypeOK'
  BY <1>2 DEF Inv, TypeOK, Phases, RegisterByTx
<1>4. Clocks'
  BY DEF Inv, Clocks, RegisterByTx
<1>5. Waiting'
  BY <1>2 DEF Inv, TypeOK, Waiting, Frontier, RegisterByTx
<1>6. QED BY <1>3, <1>4, <1>5 DEF Inv

LEMMA NextInv == Inv /\ [Next]_vars => Inv'
PROOF
<1> SUFFICES ASSUME Inv, [Next]_vars PROVE Inv'
  OBVIOUS
<1>1. CASE \E time \in Times : BeginBlock(time)
  BY <1>1, BeginBlockInv
<1>2. CASE IncreaseMinute \/ MinutesDone
  BY <1>2, MinutesInv
<1>3. CASE ExecuteEvent
  BY <1>3, ExecuteInv
<1>4. CASE NextSecond
  BY <1>4, NextSecondInv
<1>5. CASE EventsDone
  BY <1>5, EventsDoneInv
<1>6. CASE \E event \in Events, delay \in Delays : RegisterByTx(event, delay)
  BY <1>6, RegisterByTxInv
<1>7. CASE UNCHANGED vars
  BY <1>7 DEF vars, Inv, TypeOK, Clocks, Waiting, Frontier
<1>8. QED
  BY <1>1, <1>2, <1>3, <1>4, <1>5, <1>6, <1>7 DEF Next, BlockStep

(* The state of a block is well-formed whatever is registered: no list is   *)
(* read past its end.                                                       *)
THEOREM Invariance == Spec => []Inv
PROOF
  BY InitInv, NextInv, PTL DEF Spec

(* The queue, the clocks and the two loop counters of beginBlocker keep     *)
(* their types and bounds.                                                  *)
THEOREM TypeCorrect == Spec => []TypeOK
PROOF
<1>1. Inv => TypeOK
  BY DEF Inv
<1>2. QED BY Invariance, <1>1, PTL
------------------------------------------------------------------------------
(****************************************************************************)
(* Refinement: what is left of the lists is Delivery's queue, and the block *)
(* time its clock.                                                          *)
(****************************************************************************)
LEMMA SameQueue ==
  ASSUME \A t \in Times : Queue'[t] = Queue[t]
  PROVE  Queue' = Queue
PROOF
<1>1. /\ Queue = [t \in Times |-> Queue[t]]
      /\ Queue' = [t \in Times |-> Queue'[t]]
  BY DEF Queue
<1>2. QED BY <1>1

(* Nothing is overdue outside the loop of executeTimeEvents.                *)
LEMMA NothingOverdue ==
  ASSUME Inv, phase \in {"genesis", "txs"}
  PROVE  D!Overdue = {}
PROOF
<1>1. \A t \in Times : Queue[t] = timeEvents[t]
  BY DEF Queue, Left
<1>2. \A t \in Times : t < now => timeEvents[t] = <<>>
  BY SchedulerAssumption DEF Inv, TypeOK, Waiting, Frontier
<1>3. QED BY <1>1, <1>2 DEF D!Overdue

LEMMA BeginBlockRefines ==
  ASSUME Inv, NEW time \in Times, BeginBlock(time)
  PROVE  D!Advance(time)
PROOF
<1>1. D!Overdue = {}
  BY NothingOverdue DEF BeginBlock
<1>2. Queue' = Queue
  BY DEF BeginBlock, Queue, Left
<1>3. QED BY <1>1, <1>2 DEF BeginBlock, D!Advance

LEMMA MinutesRefine ==
  ASSUME Inv, IncreaseMinute \/ MinutesDone
  PROVE  UNCHANGED <<now, Queue>>
PROOF
<1>1. CASE IncreaseMinute
  BY <1>1 DEF IncreaseMinute, Queue, Left
<1>2. CASE MinutesDone
  <2>1. \A t \in Times : timeEvents[t] \in Seq(Events)
    BY DEF Inv, TypeOK
  <2>2. \A t \in Times : SubSeq(timeEvents[t], 1, Len(timeEvents[t])) = timeEvents[t]
    BY <2>1, LeftWhole
  <2>3. \A t \in Times : Queue[t] = timeEvents[t]
    BY <1>2 DEF MinutesDone, Queue, Left
  <2>4. \A t \in Times : Queue'[t] = timeEvents[t]
    <3>1. /\ phase' = "events" /\ position' = 0
          /\ timeEvents' = timeEvents
      BY <1>2 DEF MinutesDone
    <3>2. position' + 1 = 1
      BY <3>1
    <3>3. \A t \in Times : \/ Queue'[t] = SubSeq(timeEvents'[t], position' + 1, Len(timeEvents'[t]))
                           \/ Queue'[t] = timeEvents'[t]
      BY DEF Queue, Left
    <3>4. QED BY <2>2, <3>1, <3>2, <3>3
  <2>5. QED BY <1>2, <2>3, <2>4, SameQueue DEF MinutesDone
<1>3. QED BY <1>1, <1>2

LEMMA ExecuteRefines ==
  ASSUME Inv, ExecuteEvent
  PROVE  D!Execute
PROOF
<1> USE SchedulerAssumption
<1>1. /\ cursor \in Times /\ cursor < now /\ phase = "events"
      /\ timeEvents[cursor] \in Seq(Events)
      /\ position \in Nat /\ position < Len(timeEvents[cursor])
      /\ phase' = phase /\ now' = now /\ cursor' = cursor /\ position' = position + 1
  BY DEF Inv, TypeOK, ExecuteEvent
<1>2. /\ Queue[cursor] # <<>>
      /\ Head(Queue[cursor]) = timeEvents[cursor][position + 1]
      /\ Tail(Queue[cursor]) = SubSeq(timeEvents[cursor], position + 2, Len(timeEvents[cursor]))
  BY <1>1, LeftOfOne DEF Queue, Left
<1>3. cursor \in D!Overdue
  BY <1>1, <1>2 DEF D!Overdue
<1>4. \A s \in D!Overdue : cursor <= s
  <2> SUFFICES ASSUME NEW s \in D!Overdue, s < cursor PROVE FALSE
    BY <1>1 DEF D!Overdue
  <2>1. s \in Times /\ Queue[s] = timeEvents[s] /\ timeEvents[s] # <<>>
    BY <1>1 DEF D!Overdue, Queue, Left
  <2>2. s >= cursor
    BY <1>1, <2>1 DEF Inv, Waiting, Frontier
  <2>3. s \in Nat /\ cursor \in Nat
    BY <1>1, <2>1
  <2>4. QED BY <2>2, <2>3
(* The events of the other seconds are left as they are.                    *)
<1>5. \A t \in Times : t # cursor => Queue[t] = timeEvents[t] /\ Queue'[t] = timeEvents'[t]
  BY <1>1 DEF Queue, Left
<1>6. ASSUME timeEvents'[cursor] = timeEvents[cursor]
      PROVE  Queue'[cursor] = Tail(Queue[cursor])
  <2>1. Queue'[cursor] = SubSeq(timeEvents[cursor], (position + 1) + 1, Len(timeEvents[cursor]))
    BY <1>1, <1>6 DEF Queue, Left
  <2>2. (position + 1) + 1 = position + 2
    BY <1>1
  <2>3. QED BY <1>2, <2>1, <2>2
<1>7. /\ Queue = [t \in Times |-> Queue[t]] /\ Queue' = [t \in Times |-> Queue'[t]]
  BY DEF Queue
<1>8. CASE UNCHANGED timeEvents
  <2>1. Queue' = D!Without(cursor)
    BY <1>1, <1>5, <1>6, <1>7, <1>8 DEF D!Without
  <2>2. QED BY <1>1, <1>3, <1>4, <2>1 DEF D!Execute
<1>9. CASE \E next \in FollowUps[timeEvents[cursor][position + 1]], delay \in Delays :
             Register(next, delay)
  <2>1. PICK next \in FollowUps[timeEvents[cursor][position + 1]], delay \in Delays :
          Register(next, delay)
    BY <1>9
  <2>2. next \in Events
    BY <1>1, <2>1
  <2>3. /\ now + delay \in Times
        /\ timeEvents'[now + delay] = Append(timeEvents[now + delay], next)
        /\ \A t \in Times : t # now + delay => timeEvents'[t] = timeEvents[t]
    BY <2>1, <2>2, RegisterLists
  <2>4. now + delay # cursor
    BY <1>1 DEF Inv, TypeOK
  <2>5. Queue'[cursor] = Tail(Queue[cursor])
    BY <1>1, <1>6, <2>3, <2>4
  <2>6. Queue'[now + delay] = Append(Queue[now + delay], next)
    BY <1>5, <2>3, <2>4
  <2>7. Queue' = D!With(D!Without(cursor), next, delay)
    BY <1>1, <1>5, <1>7, <2>3, <2>4, <2>5, <2>6 DEF D!With, D!Without
  <2>8. QED BY <1>1, <1>2, <1>3, <1>4, <2>1, <2>3, <2>7 DEF D!Execute
<1>10. QED BY <1>8, <1>9 DEF ExecuteEvent

LEMMA NextSecondRefines ==
  ASSUME Inv, NextSecond
  PROVE  UNCHANGED <<now, Queue>>
PROOF
<1> USE SchedulerAssumption
<1>1. /\ cursor \in Times /\ cursor + 1 \in Times /\ cursor + 1 # cursor
      /\ phase = "events" /\ phase' = "events"
      /\ cursor' = cursor + 1 /\ position' = 0
      /\ timeEvents \in [Times -> Seq(Events)]
      /\ position = Len(timeEvents[cursor])
      /\ timeEvents' = [timeEvents EXCEPT ![cursor] = <<>>]
  BY DEF Inv, TypeOK, NextSecond
<1>2. Queue[cursor] = <<>> /\ Queue'[cursor] = <<>>
  <2>1. Queue[cursor] = SubSeq(timeEvents[cursor], position + 1, Len(timeEvents[cursor]))
    BY <1>1 DEF Queue, Left
  <2>2. Queue'[cursor] = timeEvents'[cursor]
    BY <1>1 DEF Queue, Left
  <2>3. QED BY <1>1, <2>1, <2>2, LeftNone
<1>3. Queue[cursor + 1] = timeEvents[cursor + 1] /\ Queue'[cursor + 1] = timeEvents[cursor + 1]
  <2>1. Queue'[cursor + 1] = SubSeq(timeEvents'[cursor + 1], position' + 1, Len(timeEvents'[cursor + 1]))
    BY <1>1 DEF Queue, Left
  <2>2. timeEvents'[cursor + 1] = timeEvents[cursor + 1] /\ position' + 1 = 1
    BY <1>1
  <2>3. Queue'[cursor + 1] = timeEvents[cursor + 1]
    BY <1>1, <2>1, <2>2, LeftWhole
  <2>4. QED BY <1>1, <2>3 DEF Queue, Left
<1>4. ASSUME NEW t \in Times, t # cursor, t # cursor + 1
      PROVE  Queue'[t] = Queue[t]
  <2>1. Queue[t] = timeEvents[t] /\ Queue'[t] = timeEvents'[t]
    BY <1>1, <1>4 DEF Queue, Left
  <2>2. QED BY <1>1, <1>4, <2>1
<1>5. Queue' = Queue
  BY <1>2, <1>3, <1>4, SameQueue
<1>6. QED BY <1>5 DEF NextSecond

LEMMA EventsDoneRefines ==
  ASSUME Inv, EventsDone
  PROVE  UNCHANGED <<now, Queue>>
PROOF
<1>1. phase = "events" /\ phase' = "txs" /\ timeEvents' = timeEvents
  BY DEF EventsDone
<1>2. position = 0 /\ position + 1 = 1
  BY SchedulerAssumption DEF Inv, TypeOK, Clocks, EventsDone
<1>3. \A t \in Times : SubSeq(timeEvents[t], 1, Len(timeEvents[t])) = timeEvents[t]
  BY LeftWhole DEF Inv, TypeOK
<1>4. \A t \in Times : \/ Queue[t] = SubSeq(timeEvents[t], position + 1, Len(timeEvents[t]))
                        \/ Queue[t] = timeEvents[t]
  BY DEF Queue, Left
<1>5. \A t \in Times : Queue'[t] = timeEvents[t]
  BY <1>1 DEF Queue, Left
<1>6. Queue' = Queue
  BY <1>2, <1>3, <1>4, <1>5, SameQueue
<1>7. QED BY <1>6 DEF EventsDone

LEMMA RegisterByTxRefines ==
  ASSUME Inv, NEW event \in Events, NEW delay \in Delays, RegisterByTx(event, delay)
  PROVE  D!Register(event, delay)
PROOF
<1>1. D!Overdue = {}
  BY NothingOverdue DEF RegisterByTx
<1>2. Queue = timeEvents /\ Queue' = timeEvents' /\ now' = now
  BY DEF RegisterByTx, Queue, Left, Inv, TypeOK, Register
<1>3. QED BY <1>1, <1>2 DEF RegisterByTx, Register, D!Register, D!With

LEMMA NextRefines == Inv /\ [Next]_vars => [D!DeliveryNext]_<<now, Queue>>
PROOF
<1> SUFFICES ASSUME Inv, [Next]_vars PROVE [D!DeliveryNext]_<<now, Queue>>
  OBVIOUS
<1>1. CASE \E time \in Times : BeginBlock(time)
  BY <1>1, BeginBlockRefines DEF D!DeliveryNext
<1>2. CASE IncreaseMinute \/ MinutesDone
  BY <1>2, MinutesRefine
<1>3. CASE ExecuteEvent
  BY <1>3, ExecuteRefines DEF D!DeliveryNext
<1>4. CASE NextSecond
  BY <1>4, NextSecondRefines
<1>5. CASE EventsDone
  BY <1>5, EventsDoneRefines
<1>6. CASE \E event \in Events, delay \in Delays : RegisterByTx(event, delay)
  BY <1>6, RegisterByTxRefines DEF D!DeliveryNext
<1>7. CASE UNCHANGED vars
  BY <1>7 DEF vars, Queue, Left
<1>8. QED
  BY <1>1, <1>2, <1>3, <1>4, <1>5, <1>6, <1>7 DEF Next, BlockStep

(* beginBlocker and registerEventAtTime deliver: every registered event is  *)
(* executed exactly once, in the order of the seconds and of registration,  *)
(* by the first block past its second.                                      *)
THEOREM Delivers == Spec => DeliversOnce
PROOF
<1>1. Init => D!DeliveryInit
  BY SchedulerAssumption DEF Init, D!DeliveryInit, Queue, Left
<1>2. [D!DeliveryNext]_<<now, Queue>> => [D!DeliveryNext]_(D!deliveryVars)
  BY DEF D!deliveryVars
<1>3. Inv /\ [Next]_vars => [D!DeliveryNext]_(D!deliveryVars)
  BY <1>2, NextRefines
<1>4. QED
  BY <1>1, <1>3, Invariance, PTL DEF Spec, DeliversOnce, D!DeliverySpec
------------------------------------------------------------------------------
(****************************************************************************)
(* That blocks end.  A block has minutes to catch up with, then seconds to  *)
(* go through, and in each second events to execute; every step of the      *)
(* loops has less of them left, because an event that registers another     *)
(* one does so at the block time or later and never in the list the loop is *)
(* going through.                                                           *)
(****************************************************************************)
MinutesLeft ==
  IF MinutesBehind THEN (now - chainStart) \div Minute - pastMinutes ELSE 0

(* Stage, and what is left to do in the outer and the inner loop.           *)
Work ==
  CASE phase = "minutes" -> <<2, MinutesLeft, 0>>
    [] phase = "events" -> <<1, now - cursor, Len(timeEvents[cursor]) - position>>
    [] OTHER -> <<0, 0, 0>>

LessWork(v, w) ==
  \/ v[1] < w[1]
  \/ v[1] = w[1] /\ v[2] < w[2]
  \/ v[1] = w[1] /\ v[2] = w[2] /\ v[3] < w[3]

BlockAdvances ==
  /\ [](Work \in Nat \X Nat \X Nat)
  /\ [][BlockStep => LessWork(Work', Work)]_vars
  /\ [](phase = "txs" => D!Overdue = {})

LEMMA MinutesFew ==
  ASSUME Inv, phase # "genesis"
  PROVE  /\ (now - chainStart) \div Minute \in Nat
         /\ MinutesLeft \in Nat /\ (MinutesBehind <=> MinutesLeft > 0)
PROOF
<1>1. now - chainStart \in Nat /\ Minute \in Nat \ {0} /\ pastMinutes \in Nat
  BY SchedulerAssumption DEF Inv, TypeOK, Clocks
<1>2. (now - chainStart) \div Minute \in Nat
  BY <1>1
<1>3. QED BY <1>1, <1>2 DEF MinutesLeft, MinutesBehind

LEMMA WorkIs == Inv => Work \in Nat \X Nat \X Nat
PROOF
<1> SUFFICES ASSUME Inv PROVE Work \in Nat \X Nat \X Nat
  OBVIOUS
<1>1. CASE phase = "minutes"
  BY <1>1, MinutesFew DEF Work
<1>2. CASE phase = "events"
  <2>1. now - cursor \in Nat
    BY <1>2, SchedulerAssumption DEF Inv, TypeOK
  <2>2. cursor \in Times
    BY <1>2, SchedulerAssumption DEF Inv, TypeOK
  <2>3. timeEvents[cursor] \in Seq(Events)
    BY <2>2 DEF Inv, TypeOK
  <2>4. Len(timeEvents[cursor]) - position \in Nat
    BY <1>2, <2>3 DEF Inv, TypeOK
  <2>5. QED BY <1>2, <2>1, <2>4 DEF Work
<1>3. CASE phase \notin {"minutes", "events"}
  BY <1>3 DEF Work
<1>4. QED BY <1>1, <1>2, <1>3

LEMMA MinuteAdvances ==
  ASSUME Inv, IncreaseMinute
  PROVE  LessWork(Work', Work)
PROOF
<1>1. /\ phase = "minutes" /\ phase' = "minutes" /\ now' = now /\ chainStart' = chainStart
      /\ pastMinutes' = pastMinutes + 1 /\ MinutesBehind
  BY DEF IncreaseMinute
<1>2. PICK all \in Nat : all = (now - chainStart) \div Minute
  BY <1>1, MinutesFew
<1>3. pastMinutes \in Nat /\ pastMinutes < all
  BY <1>1, <1>2 DEF Inv, TypeOK, MinutesBehind
<1>4. MinutesLeft = all - pastMinutes
  BY <1>1, <1>2 DEF MinutesLeft
<1>5. MinutesLeft' = IF all > pastMinutes + 1 THEN all - (pastMinutes + 1) ELSE 0
  BY <1>1, <1>2 DEF MinutesLeft, MinutesBehind
<1>6. MinutesLeft' < MinutesLeft
  BY <1>3, <1>4, <1>5
<1>7. Work = <<2, MinutesLeft, 0>> /\ Work' = <<2, MinutesLeft', 0>>
  BY <1>1 DEF Work
<1>8. QED BY <1>6, <1>7 DEF LessWork

LEMMA ExecuteAdvances ==
  ASSUME Inv, ExecuteEvent
  PROVE  LessWork(Work', Work)
PROOF
<1>1. /\ phase = "events" /\ phase' = "events" /\ now' = now /\ cursor' = cursor
      /\ position' = position + 1 /\ cursor < now /\ position < Len(timeEvents[cursor])
  BY DEF ExecuteEvent
<1>2. cursor \in Times /\ cursor \in Nat /\ now \in Nat /\ position \in Nat
      /\ timeEvents[cursor] \in Seq(Events)
  BY <1>1, SchedulerAssumption DEF Inv, TypeOK
<1>3. timeEvents'[cursor] = timeEvents[cursor]
  <2>1. CASE UNCHANGED timeEvents
    BY <2>1
  <2>2. CASE \E next \in FollowUps[timeEvents[cursor][position + 1]], delay \in Delays :
               Register(next, delay)
    <3>1. timeEvents[cursor][position + 1] \in Events
      BY <1>1, <1>2
    <3>2. PICK next \in Events, delay \in Delays : Register(next, delay)
      BY <2>2, <3>1, SchedulerAssumption
    <3>3. delay \in Nat /\ now + delay # cursor
      BY <1>1, <1>2, SchedulerAssumption
    <3>4. QED BY <1>2, <3>2, <3>3, RegisterLists
  <2>3. QED BY <2>1, <2>2 DEF ExecuteEvent
<1>4. PICK n \in Nat : n = Len(timeEvents[cursor])
  BY <1>2
<1>5. Work = <<1, now - cursor, n - position>> /\ Work' = <<1, now - cursor, n - (position + 1)>>
  BY <1>1, <1>3, <1>4 DEF Work
<1>6. QED BY <1>2, <1>4, <1>5 DEF LessWork

LEMMA SecondAdvances ==
  ASSUME Inv, NextSecond
  PROVE  LessWork(Work', Work)
PROOF
<1>1. phase = "events" /\ phase' = "events" /\ now' = now /\ cursor' = cursor + 1
  BY DEF NextSecond
<1>2. cursor \in Nat /\ now \in Nat
  BY SchedulerAssumption DEF Inv, TypeOK
<1>3. Work[1] = 1 /\ Work'[1] = 1 /\ Work[2] = now - cursor /\ Work'[2] = now - (cursor + 1)
  BY <1>1 DEF Work
<1>4. QED BY <1>2, <1>3 DEF LessWork

(* Every step of the loops of beginBlocker and executeTimeEvents leaves     *)
(* less to do, whatever is executed and registered, so a block goes through *)
(* both after finitely many; and when it has, no event is overdue.          *)
THEOREM BlocksAdvance == Spec => BlockAdvances
PROOF
<1>1. ASSUME Inv, BlockStep
      PROVE  LessWork(Work', Work)
  <2>1. CASE MinutesDone
    <3>1. Work[1] = 2 /\ Work'[1] = 1
      BY <2>1 DEF MinutesDone, Work
    <3>2. QED BY <3>1 DEF LessWork
  <2>2. CASE EventsDone
    <3>1. Work[1] = 1 /\ Work'[1] = 0
      BY <2>2 DEF EventsDone, Work
    <3>2. QED BY <3>1 DEF LessWork
  <2>3. QED
    BY <1>1, <2>1, <2>2, MinuteAdvances, ExecuteAdvances, SecondAdvances DEF BlockStep
<1>2. Inv => (phase = "txs" => D!Overdue = {})
  BY NothingOverdue
<1>3. QED BY <1>1, <1>2, WorkIs, Invariance, PTL DEF BlockAdvances
-----------------------------------------------------------------------------
(****************************************************************************)
(* The two clocks.  Division is only known to the provers by name, so that  *)
(* what it does is derived from n = d * q + r first.                        *)
(****************************************************************************)
LEMMA DivUnique ==
  ASSUME NEW n \in Nat, NEW d \in Nat \ {0}, NEW q \in Nat, d * q <= n, n < d * (q + 1)
  PROVE  n \div d = q
PROOF
<1>1. PICK p \in Nat, r \in 0 .. d - 1 : p = n \div d /\ n = d * p + r
  BY DivDef
<1>2. d * p <= n /\ n < d * (p + 1)
  BY <1>1, SMT
<1>3. ~(p < q)
  <2> SUFFICES ASSUME p < q PROVE FALSE OBVIOUS
  <2>1. d * (p + 1) <= d * q BY <1>1, SMT
  <2>2. QED BY <1>2, <2>1, SMT
<1>4. ~(q < p)
  <2> SUFFICES ASSUME q < p PROVE FALSE OBVIOUS
  <2>1. d * (q + 1) <= d * p BY <1>1, SMT
  <2>2. QED BY <1>2, <2>1, SMT
<1>5. QED BY <1>1, <1>3, <1>4, SMT

LEMMA DivStep ==
  ASSUME NEW n \in Nat, NEW d \in Nat \ {0}, (n + 1) % d # 0
  PROVE  (n + 1) \div d = n \div d
PROOF
<1>1. PICK q \in Nat, r \in 0 .. d - 1 :
        q = (n + 1) \div d /\ r = (n + 1) % d /\ n + 1 = d * q + r
  BY DivDef, n + 1 \in Nat
<1>2. d * (q + 1) = d * q + d BY <1>1, SMT
<1>3. d * q <= n /\ n < d * (q + 1)
  BY <1>1, <1>2, SMT
<1>4. n \div d = q BY <1>1, <1>3, DivUnique
<1>5. QED BY <1>1, <1>4

LEMMA DivDiv ==
  ASSUME NEW n \in Nat, NEW c \in Nat \ {0}, NEW d \in Nat \ {0}
  PROVE  (n \div c) \div d = n \div (c * d)
PROOF
<1>1. PICK m \in Nat, r \in 0 .. c - 1 : m = n \div c /\ n = c * m + r
  BY DivDef
<1>2. PICK q \in Nat, t \in 0 .. d - 1 : q = m \div d /\ m = d * q + t
  BY DivDef
<1>3. c * m <= n /\ n < c * (m + 1)
  BY <1>1, SMT
<1>4. d * q <= m /\ m + 1 <= d * (q + 1)
  BY <1>2, SMT
<1>5. c * (d * q) <= c * m /\ c * (m + 1) <= c * (d * (q + 1))
  BY <1>4, SMT
<1>6. c * (d * q) = (c * d) * q /\ c * (d * (q + 1)) = (c * d) * (q + 1) /\ c * d \in Nat \ {0}
  BY <1>1, <1>2, SMT
<1>7. (c * d) * q <= n /\ n < (c * d) * (q + 1)
  BY <1>3, <1>5, <1>6, SMT
<1>8. n \div (c * d) = q
  BY <1>2, <1>6, <1>7, DivUnique
<1>9. QED BY <1>1, <1>2, <1>8

(* The minutes have been counted as far as the block time, at least when    *)
(* the loop is over, and every day they completed has been opened.          *)
MInv ==
  /\ Inv
  /\ lastStat = pastMinutes \div Day
  /\ Minute * pastMinutes <= now - chainStart
  /\ phase \in {"events", "txs"} => now - chainStart < Minute * (pastMinutes + 1)
  /\ phase = "genesis" => pastMinutes = 0

LEMMA MinutesReached ==
  ASSUME Inv
  PROVE  /\ MinutesBehind => Minute * (pastMinutes + 1) <= now - chainStart
         /\ ~MinutesBehind => now - chainStart < Minute * (pastMinutes + 1)
PROOF
<1>1. /\ now - chainStart \in Nat /\ Minute \in Nat \ {0} /\ pastMinutes \in Nat
  BY SchedulerAssumption DEF Inv, TypeOK, Clocks
<1>2. PICK q \in Nat, r \in 0 .. Minute - 1 :
        q = (now - chainStart) \div Minute /\ now - chainStart = Minute * q + r
  BY <1>1, DivDef
<1>3. CASE MinutesBehind
  <2>1. q >= pastMinutes + 1
    BY <1>1, <1>2, <1>3 DEF MinutesBehind
  <2>2. Minute * (pastMinutes + 1) <= Minute * q
    BY <1>1, <2>1, SMT
  <2>3. QED BY <1>1, <1>2, <1>3, <2>2, SMT
<1>4. CASE ~MinutesBehind
  <2>1. q + 1 <= pastMinutes + 1
    BY <1>1, <1>2, <1>4 DEF MinutesBehind
  <2>2. Minute * (q + 1) <= Minute * (pastMinutes + 1)
    BY <1>1, <2>1, SMT
  <2>3. Minute * q + r < Minute * (q + 1)
    BY <1>1, SMT
  <2>4. QED BY <1>1, <1>2, <1>4, <2>2, <2>3, SMT
<1>5. QED BY <1>3, <1>4

LEMMA MInvInit == Init => MInv
PROOF
<1> SUFFICES ASSUME Init PROVE MInv
  OBVIOUS
<1>1. Inv
  BY InitInv
<1>2. 0 \div Day = 0
  BY SchedulerAssumption, DivUnique
<1>3. QED BY <1>1, <1>2, SchedulerAssumption DEF Init, MInv

LEMMA MInvNext == MInv /\ [Next]_vars => MInv'
PROOF
<1> SUFFICES ASSUME MInv, [Next]_vars PROVE MInv'
  OBVIOUS
<1>1. Inv /\ Inv'
  BY NextInv DEF MInv
<1>2. /\ now \in Nat /\ chainStart \in Nat /\ pastMinutes \in Nat
      /\ Minute \in Nat \ {0} /\ Day \in Nat \ {0}
  BY <1>1, SchedulerAssumption DEF Inv, TypeOK
<1>3. CASE \E time \in Times : BeginBlock(time)
  <2>1. PICK time \in Times : BeginBlock(time)
    BY <1>3
  <2>2. CASE chainStart = 0
    <3>1. pastMinutes = 0
      BY <1>1, <2>1, <2>2 DEF MInv, Inv, Clocks, BeginBlock
    <3>2. QED BY <1>1, <1>2, <2>1, <2>2, <3>1, SchedulerAssumption DEF MInv, BeginBlock
  <2>3. CASE chainStart # 0
    BY <1>1, <1>2, <2>1, <2>3, SchedulerAssumption DEF MInv, BeginBlock
  <2>4. QED BY <2>2, <2>3
<1>4. CASE IncreaseMinute
  <2>1. Minute * (pastMinutes + 1) <= now - chainStart
    BY <1>1, <1>4, MinutesReached DEF IncreaseMinute
  <2>2. lastStat' = pastMinutes' \div Day
    <3>1. CASE (pastMinutes + 1) % Day = 0
      BY <1>4, <3>1 DEF IncreaseMinute
    <3>2. CASE (pastMinutes + 1) % Day # 0
      BY <1>2, <1>4, <3>2, DivStep DEF IncreaseMinute, MInv
    <3>3. QED BY <3>1, <3>2
  <2>3. QED BY <1>1, <1>4, <2>1, <2>2 DEF IncreaseMinute, MInv
<1>5. CASE MinutesDone
  BY <1>1, <1>5, MinutesReached DEF MinutesDone, MInv
<1>6. CASE ExecuteEvent \/ NextSecond \/ EventsDone
  BY <1>1, <1>6 DEF ExecuteEvent, NextSecond, EventsDone, MInv
<1>7. CASE \E event \in Events, delay \in Delays : RegisterByTx(event, delay)
  BY <1>1, <1>7 DEF RegisterByTx, MInv
<1>8. CASE UNCHANGED vars
  BY <1>1, <1>8 DEF vars, MInv
<1>9. QED
  BY <1>3, <1>4, <1>5, <1>6, <1>7, <1>8 DEF Next, BlockStep

(* The statistic that AddStake and MinusStake read with GetPastDay has been *)
(* opened by increaseMinute whenever an event or a transaction runs.        *)
THEOREM StatReady == Spec => []StatOfToday
PROOF
<1>1. MInv => StatOfToday
  <2> SUFFICES ASSUME MInv, phase \in {"events", "txs"}
               PROVE  lastStat = (now - chainStart) \div (Minute * Day)
    BY DEF StatOfToday
  <2>1. /\ now - chainStart \in Nat /\ pastMinutes \in Nat
        /\ Minute \in Nat \ {0} /\ Day \in Nat \ {0}
    BY SchedulerAssumption DEF MInv, Inv, TypeOK, Clocks
  <2>2. (now - chainStart) \div Minute = pastMinutes
    BY <2>1, DivUnique DEF MInv
  <2>3. (now - chainStart) \div (Minute * Day) = ((now - chainStart) \div Minute) \div Day
    BY <2>1, DivDiv
  <2>4. QED BY <2>2, <2>3 DEF MInv
<1>2. QED BY MInvInit, MInvNext, <1>1, PTL DEF Spec
------------------------------------------------------------------------------
(****************************************************************************)
(* STAKE.  The books of stake, friction and interest agree for any number   *)
(* of users, days and coins.                                                *)
(*                                                                          *)
(* The argument: what a finished day still owes belongs to those who have   *)
(* not settled it, so a claim takes a part of at most the whole, the last   *)
(* one all of it, and no subtraction goes below zero.  A claim rounds by    *)
(* half a coin at most; what is left departs from the pro rata share by no  *)
(* more than that for every claim made, since a user settles a day once.    *)
(****************************************************************************)
Books ==
  /\ voters \subseteq Users
  /\ stake \in [Users -> Nat] /\ delegated \in [Users -> Int]
  /\ toOthers \in [Users -> Int] /\ interest \in [Users -> Nat]
  /\ changedAt \in [Users -> 0 .. today]
  /\ delegation \in [Users \X Users -> Nat]
  /\ today \in Nat /\ stat \in [0 .. today -> Stats]
  /\ wallet \in [Users -> Nat] /\ donated \in Nat

NoRecord == \A u \in Users \ voters : stake[u] = 0

(* What the unsettled of a day hold, as a sum over all users.               *)
Weight(d) == [u \in Users |-> IF changedAt[u] <= d THEN stake[u] ELSE 0]

PastStake == \A d \in 0 .. today - 1 : stat[d].unclaimedStake = SumFunction(Weight(d))

TodayStake ==
  /\ stat[today].unclaimedStake = SumFunction(stake)
  /\ stat[today].totalStake = SumFunction(stake)

TodayFriction == stat[today].unclaimedFriction = stat[today].totalFriction

To(u) == [v \in Users |-> delegation[<<v, u>>]]
From(v) == [u \in Users |-> delegation[<<v, u>>]]

Backed == \A u \in Users : toOthers[u] = SumFunction(To(u)) /\ toOthers[u] <= stake[u]

(* What is left of the friction of a day departs from what is left of its   *)
(* stake, both against their totals, by half a coin for every claim.        *)
Near(s, n) ==
  LET off == s.unclaimedFriction * s.totalStake - s.totalFriction * s.unclaimedStake
  IN  2 * off <= n * s.totalStake /\ -(2 * off) <= n * s.totalStake

Settlers(d) == {u \in Users : changedAt[u] > d}

Drift == \A d \in 0 .. today - 1 : Near(stat[d], Cardinality(Settlers(d)))

VoteInv ==
  /\ Books /\ NoRecord /\ PastStake /\ TodayStake /\ TodayFriction /\ Backed /\ Drift
  /\ CoinsConserved
------------------------------------------------------------------------------
(****************************************************************************)
(* One claim of one day.                                                    *)
(****************************************************************************)
(* g is a part w of d, rounded in units of t.                               *)
LEMMA HalfMore ==
  ASSUME NEW U \in Nat \ {0}, NEW w \in 0 .. U, NEW d \in Int, NEW e \in Int,
         NEW t \in Nat, NEW m \in Nat, NEW g \in Int,
         2 * d <= m, -(2 * d) <= m, 2 * e <= U, -(2 * e) <= U,
         U * g = w * d + e * t
  PROVE  2 * g <= m + t /\ -(2 * g) <= m + t
PROOF
<1> DEFINE wd == w * d
           wm == w * m
           et == e * t
           Um == U * m
           Ut == U * t
           Ug == U * g
<1>1. wd \in Int /\ wm \in Int /\ et \in Int /\ Um \in Int /\ Ut \in Int /\ Ug \in Int
  OBVIOUS
<1>2. 2 * wd <= wm /\ -(2 * wd) <= wm
  <2>1. w * (2 * d) <= w * m /\ w * (-(2 * d)) <= w * m
    BY SMT
  <2>2. w * (2 * d) = 2 * (w * d) /\ w * (-(2 * d)) = -(2 * (w * d))
    BY SMT
  <2>3. QED BY <2>1, <2>2
<1>3. wm <= Um
  BY SMT
<1>4. 2 * et <= Ut /\ -(2 * et) <= Ut
  <2>1. (2 * e) * t <= U * t /\ (-(2 * e)) * t <= U * t
    BY SMT
  <2>2. (2 * e) * t = 2 * (e * t) /\ (-(2 * e)) * t = -(2 * (e * t))
    BY SMT
  <2>3. QED BY <2>1, <2>2
<1>5. Ug = wd + et
  OBVIOUS
<1>6. 2 * Ug <= Um + Ut /\ -(2 * Ug) <= Um + Ut
  <2> HIDE DEF wd, wm, et, Um, Ut, Ug
  <2>1. QED BY <1>1, <1>2, <1>3, <1>4, <1>5
<1>7. Um + Ut = U * (m + t) /\ 2 * Ug = U * (2 * g) /\ -(2 * Ug) = U * (-(2 * g))
  BY SMT
<1>8. U * (2 * g) <= U * (m + t) /\ U * (-(2 * g)) <= U * (m + t)
  <2> HIDE DEF wd, wm, et, Um, Ut, Ug
  <2>1. QED BY <1>6, <1>7
<1>9. QED BY <1>8, SMT

Claimed(s, k) ==
  [s EXCEPT !.unclaimedFriction = @ - Round(s.unclaimedFriction * k, s.unclaimedStake),
            !.unclaimedStake = @ - k]

LEMMA ClaimIdentities ==
  ASSUME NEW x \in Int, NEW U \in Int, NEW T \in Int, NEW F \in Int, NEW k \in Int,
         NEW r \in Int, NEW n \in Int
  PROVE  /\ U * (r * T - F * k) = k * (x * T - F * U) + (U * r - x * k) * T
         /\ U * ((x - r) * T - F * (U - k))
              = (U - k) * (x * T - F * U) + (x * k - U * r) * T
         /\ (n + 1) * T = n * T + T
         /\ 2 * (F * k - r * T) = -(2 * (r * T - F * k))
PROOF BY SMT

LEMMA ClaimNear ==
  ASSUME NEW s \in Stats, s.unclaimedStake # 0, NEW k \in 0 .. s.unclaimedStake,
         NEW n \in Nat, Near(s, n),
         NEW r, r = Round(s.unclaimedFriction * k, s.unclaimedStake)
  PROVE  /\ r \in 0 .. s.unclaimedFriction
         /\ k = s.unclaimedStake => r = s.unclaimedFriction
         /\ Claimed(s, k) \in Stats
         /\ Near(Claimed(s, k), n + 1)
         /\ 2 * (r * s.totalStake - s.totalFriction * k) <= (n + 1) * s.totalStake
         /\ 2 * (s.totalFriction * k - r * s.totalStake) <= (n + 1) * s.totalStake
PROOF
<1>1. PICK x \in Nat, U \in Nat \ {0}, T \in Nat, F \in Nat :
        x = s.unclaimedFriction /\ U = s.unclaimedStake /\ T = s.totalStake /\ F = s.totalFriction
  BY DEF Stats
<1>2. /\ r \in 0 .. x /\ (k = U => r = x)
      /\ 2 * (U * r - x * k) <= U /\ 2 * (x * k - U * r) <= U
  BY <1>1, x * k \in Nat, RoundNear, RoundShare
<1>3. Claimed(s, k) = [totalFriction |-> F, unclaimedFriction |-> x - r,
                       totalStake |-> T, unclaimedStake |-> U - k]
  <2>1. s = [totalFriction |-> F, unclaimedFriction |-> x,
             totalStake |-> T, unclaimedStake |-> U]
    BY <1>1 DEF Stats
  <2>2. Claimed(s, k) = [s EXCEPT !.unclaimedFriction = x - r, !.unclaimedStake = U - k]
    BY <1>1 DEF Claimed
  <2>3. QED BY <2>1, <2>2
<1>4. x - r \in Nat /\ U - k \in Nat
  BY <1>1, <1>2
<1> DEFINE m == n * T
           d == x * T - F * U
           e == U * r - x * k
           f == x * k - U * r
           g == r * T - F * k
           h == (x - r) * T - F * (U - k)
<1>5. /\ m \in Nat /\ d \in Int /\ e \in Int /\ f \in Int /\ g \in Int /\ h \in Int
      /\ x \in Int /\ U \in Int /\ T \in Int /\ F \in Int /\ k \in Int /\ r \in Int /\ n \in Int
  BY <1>1, <1>2, SMT
<1>6. 2 * d <= m /\ -(2 * d) <= m
  BY <1>1 DEF Near
<1>7. 2 * e <= U /\ -(2 * e) <= U /\ 2 * f <= U /\ -(2 * f) <= U
  <2> DEFINE a == U * r
             b == x * k
  <2>1. a \in Int /\ b \in Int /\ e = a - b /\ f = b - a /\ 2 * (a - b) <= U /\ 2 * (b - a) <= U
    BY <1>2, <1>5
  <2> HIDE DEF a, b, e, f
  <2>2. QED BY <2>1, <1>1
<1>8. U * g = k * d + e * T
  BY <1>5, ClaimIdentities
<1>9. U * h = (U - k) * d + f * T
  BY <1>5, ClaimIdentities
<1>10. k \in 0 .. U /\ U - k \in 0 .. U
  BY <1>1, <1>4, <1>5
<1>11. (n + 1) * T = m + T
  BY <1>5, ClaimIdentities
<1>12. /\ 2 * g <= m + T /\ -(2 * g) <= m + T
       /\ 2 * h <= m + T /\ -(2 * h) <= m + T
  <2> HIDE DEF m, d, e, f, g, h
  <2>1. 2 * g <= m + T /\ -(2 * g) <= m + T
    BY <1>1, <1>5, <1>6, <1>7, <1>8, <1>10, HalfMore
  <2>2. PICK w \in 0 .. U : w = U - k
    BY <1>10
  <2>3. U * h = w * d + f * T
    BY <1>9, <2>2
  <2>4. /\ m \in Nat /\ d \in Int /\ f \in Int /\ h \in Int /\ T \in Nat /\ U \in Nat \ {0}
        /\ 2 * d <= m /\ -(2 * d) <= m /\ 2 * f <= U /\ -(2 * f) <= U
    BY <1>1, <1>5, <1>6, <1>7
  <2>5. 2 * h <= m + T /\ -(2 * h) <= m + T
    BY <2>2, <2>3, <2>4, HalfMore
  <2>6. QED BY <2>1, <2>5
<1>13. Near(Claimed(s, k), n + 1)
  BY <1>3, <1>11, <1>12 DEF Near
<1>14. 2 * (F * k - r * T) = -(2 * g)
  BY <1>5, ClaimIdentities
<1>15. Claimed(s, k) \in Stats
  BY <1>1, <1>3, <1>4 DEF Stats
<1>16. QED BY <1>1, <1>2, <1>11, <1>12, <1>13, <1>14, <1>15

LEMMA NearGrows ==
  ASSUME NEW s \in Stats, NEW m \in Nat, NEW n \in Nat, m <= n, Near(s, m)
  PROVE  Near(s, n)
PROOF
<1>1. s.totalStake \in Nat /\ m * s.totalStake <= n * s.totalStake
  <2>1. s.totalStake \in Nat
    BY DEF Stats
  <2>2. QED BY <2>1, SMT
<1>2. QED BY <1>1 DEF Near, Stats
------------------------------------------------------------------------------
(****************************************************************************)
(* The sums over some users, or some days, as sums over all of them.        *)
(****************************************************************************)
LEMMA WeightIs ==
  ASSUME Books, NEW d \in Int
  PROVE  /\ Weight(d) \in [Users -> Nat]
         /\ SumFunction(Weight(d)) = UnsettledStake(d)
         /\ SumFunction(Weight(d)) \in Nat
         /\ \A u \in Users : changedAt[u] <= d => stake[u] <= SumFunction(Weight(d))
PROOF
<1> DEFINE T == {u \in Users : changedAt[u] <= d}
           g == [u \in T |-> stake[u]]
           w == Weight(d)
<1>0. IsFiniteSet(Users) /\ IsFiniteSet(T) /\ T \in SUBSET Users
  BY VoteAssumption, FS_Subset
<1>1. /\ w \in [Users -> Nat] /\ w \in [Users -> Int] /\ g \in [T -> Int]
      /\ \A u \in T : w[u] = stake[u] /\ g[u] = w[u] /\ w[u] \in Int
      /\ \A u \in Users \ T : w[u] = 0
      /\ \A u \in Users : w[u] \in Nat
  BY DEF Books, Weight
<1>2. UnsettledStake(d) = SumFunction(g)
  BY DEF UnsettledStake
<1> HIDE DEF w, g
<1>3. SumFunction(w) = SumFunctionOnSet(w, Users) /\ SumFunction(g) = SumFunctionOnSet(g, T)
  BY <1>0, <1>1, SumTotal
<1>4. SumFunctionOnSet(w, T) = SumFunctionOnSet(w, Users)
  BY <1>0, <1>1, SumRestricts
<1>5. SumFunctionOnSet(g, T) = SumFunctionOnSet(w, T)
  BY <1>0, <1>1, SumSame
<1>6. /\ SumFunctionOnSet(w, Users) \in Nat
      /\ \A u \in Users : w[u] <= SumFunctionOnSet(w, Users)
  BY <1>0, <1>1, SumNat
<1>7. /\ SumFunction(w) = UnsettledStake(d) /\ SumFunction(w) \in Nat
      /\ \A u \in Users : changedAt[u] <= d => stake[u] <= SumFunction(w)
  BY <1>1, <1>2, <1>3, <1>4, <1>5, <1>6
<1>8. QED BY <1>1, <1>7 DEF w

(* What a day still has to pay, and what a claim takes from it.             *)
Owed(d) == IF d = today \/ stat[d].unclaimedStake # 0 THEN stat[d].unclaimedFriction ELSE 0

Paid(u, d) == IF d \in Days(u) THEN Share(u, d) ELSE 0

AllOwed == [d \in 0 .. today |-> Owed(d)]

DueSummed ==
  /\ AllOwed \in [0 .. today -> Nat]
  /\ FrictionDue = SumFunction(AllOwed) /\ IsFiniteSet(0 .. today)

LEMMA DueIs == Books => DueSummed
PROOF
<1> SUFFICES ASSUME Books PROVE DueSummed
  OBVIOUS
<1> DEFINE S == 0 .. today
           T == {e \in S : e = today \/ stat[e].unclaimedStake # 0}
           g == [d \in T |-> stat[d].unclaimedFriction]
           w == AllOwed
<1>0. IsFiniteSet(S) /\ IsFiniteSet(T) /\ T \in SUBSET S
  <2>1. IsFiniteSet(0 .. today)
    BY FS_Interval, 0 \in Int DEF Books
  <2>2. T \in SUBSET S
    OBVIOUS
  <2>3. QED BY <2>1, <2>2, FS_Subset
<1>1. /\ w \in [S -> Nat] /\ w \in [S -> Int] /\ g \in [T -> Int]
      /\ \A d \in T : g[d] = w[d] /\ w[d] \in Int
      /\ \A d \in S \ T : w[d] = 0
      /\ \A d \in S : w[d] \in Int
  BY DEF Books, AllOwed, Owed, Stats
<1>2. FrictionDue = SumFunction(g)
  BY DEF FrictionDue
<1> HIDE DEF w, g
<1>3. SumFunction(w) = SumFunctionOnSet(w, S) /\ SumFunction(g) = SumFunctionOnSet(g, T)
  <2>1. w \in [S -> Int] /\ g \in [T -> Int]
    BY <1>1
  <2>2. SumFunction(w) = SumFunctionOnSet(w, S)
    BY <1>0, <2>1, SumTotal
  <2>3. SumFunction(g) = SumFunctionOnSet(g, T)
    BY <1>0, <2>1, SumTotal
  <2>4. QED BY <2>2, <2>3
<1>4. SumFunctionOnSet(w, T) = SumFunctionOnSet(w, S)
  <2>1. (\A d \in S : w[d] \in Int) /\ (\A d \in S \ T : w[d] = 0)
    BY <1>1
  <2>2. IsFiniteSet(S) /\ T \in SUBSET S
    BY <1>0
  <2>3. QED BY <2>1, <2>2, SumRestricts
<1>5. SumFunctionOnSet(g, T) = SumFunctionOnSet(w, T)
  BY <1>0, <1>1, SumSame
<1>6. QED BY <1>0, <1>1, <1>2, <1>3, <1>4, <1>5 DEF w, DueSummed

LEMMA InterestIs ==
  ASSUME Books, NEW u \in Users, \A d \in Days(u) : Share(u, d) \in Nat
  PROVE  /\ [d \in 0 .. today |-> Paid(u, d)] \in [0 .. today -> Nat]
         /\ InterestSince(u) = SumFunction([d \in 0 .. today |-> Paid(u, d)])
         /\ InterestSince(u) \in Nat
PROOF
<1> DEFINE S == 0 .. today
           T == Days(u)
           g == [d \in T |-> Share(u, d)]
           w == [d \in S |-> Paid(u, d)]
<1>0. IsFiniteSet(S) /\ IsFiniteSet(T) /\ T \in SUBSET S
  <2>1. T \in SUBSET S
    BY DEF Books, Days
  <2>2. IsFiniteSet(0 .. today)
    BY FS_Interval, 0 \in Int DEF Books
  <2>3. QED BY <2>1, <2>2, FS_Subset
<1>1. /\ w \in [S -> Nat] /\ w \in [S -> Int] /\ g \in [T -> Int]
      /\ \A d \in T : g[d] = w[d] /\ w[d] \in Int
      /\ \A d \in S \ T : w[d] = 0
      /\ \A d \in S : w[d] \in Nat /\ w[d] \in Int
  BY <1>0 DEF Paid
<1>2. InterestSince(u) = SumFunction(g)
  BY DEF InterestSince
<1> HIDE DEF w, g
<1>3. SumFunction(w) = SumFunctionOnSet(w, S) /\ SumFunction(g) = SumFunctionOnSet(g, T)
  <2>1. w \in [S -> Int] /\ g \in [T -> Int]
    BY <1>1
  <2>2. SumFunction(w) = SumFunctionOnSet(w, S)
    BY <1>0, <2>1, SumTotal
  <2>3. SumFunction(g) = SumFunctionOnSet(g, T)
    BY <1>0, <2>1, SumTotal
  <2>4. QED BY <2>2, <2>3
<1>4. SumFunctionOnSet(w, T) = SumFunctionOnSet(w, S)
  <2>1. (\A d \in S : w[d] \in Int) /\ (\A d \in S \ T : w[d] = 0)
    BY <1>1
  <2>2. IsFiniteSet(S) /\ T \in SUBSET S
    BY <1>0
  <2>3. QED BY <2>1, <2>2, SumRestricts
<1>5. SumFunctionOnSet(g, T) = SumFunctionOnSet(w, T)
  BY <1>0, <1>1, SumSame
<1>6. SumFunctionOnSet(w, S) \in Nat
  BY <1>0, <1>1, SumNat
<1>7. QED BY <1>1, <1>2, <1>3, <1>4, <1>5, <1>6 DEF w
------------------------------------------------------------------------------
(****************************************************************************)
(* What settling does to a finished day.                                    *)
(****************************************************************************)
LEMMA SettledDay ==
  ASSUME Books, PastStake, Drift, NEW u \in Users, NEW d \in 0 .. today - 1,
         NEW s, s = Settled(u)[d],
         NEW n, n = Cardinality(Settlers(d))
  PROVE  /\ s \in Stats /\ n \in Nat
         /\ s.unclaimedStake
              = stat[d].unclaimedStake - IF changedAt[u] <= d THEN stake[u] ELSE 0
         /\ s.totalStake = stat[d].totalStake /\ s.totalFriction = stat[d].totalFriction
         /\ Near(s, IF changedAt[u] <= d THEN n + 1 ELSE n)
         /\ (IF s.unclaimedStake # 0 THEN s.unclaimedFriction ELSE 0) = Owed(d) - Paid(u, d)
         /\ d \in Days(u) =>
              /\ Share(u, d) \in Nat
              /\ 2 * (Share(u, d) * stat[d].totalStake - stat[d].totalFriction * stake[u])
                   <= (n + 1) * stat[d].totalStake
              /\ 2 * (stat[d].totalFriction * stake[u] - Share(u, d) * stat[d].totalStake)
                   <= (n + 1) * stat[d].totalStake
PROOF
<1> DEFINE t == stat[d]
           k == stake[u]
<1>1. /\ t \in Stats /\ k \in Nat /\ d \in Nat /\ today \in Nat /\ d < today
      /\ changedAt[u] \in Nat
  BY DEF Books
<1>2. n \in Nat
  <2>1. Settlers(d) \subseteq Users
    BY DEF Settlers
  <2>2. IsFiniteSet(Settlers(d))
    BY <2>1, VoteAssumption, FS_Subset
  <2>3. QED BY <2>2, FS_CardinalityType
<1>3. Near(t, n) /\ t.unclaimedStake = SumFunction(Weight(d)) /\ t.unclaimedStake \in Nat
  BY <1>1 DEF Drift, PastStake, Stats
<1>4. changedAt[u] <= d => k <= t.unclaimedStake
  BY <1>1, <1>3, WeightIs
<1>5. s = IF d \in Days(u) THEN Claimed(t, k) ELSE t
  <2>1. d \in 0 .. today
    BY <1>1
  <2>2. s = IF d \in Days(u) THEN [stat[d] EXCEPT !.unclaimedFriction = @ - Share(u, d),
                                                 !.unclaimedStake = @ - stake[u]]
            ELSE stat[d]
    BY <2>1 DEF Settled
  <2>3. QED BY <2>2 DEF Claimed, Share
<1>6. CASE d \in Days(u)
  <2>1. changedAt[u] <= d /\ t.unclaimedStake # 0 /\ k \in 0 .. t.unclaimedStake
    BY <1>1, <1>3, <1>4, <1>6 DEF Days
  <2>2. PICK r : r = Share(u, d) /\ r = Round(t.unclaimedFriction * k, t.unclaimedStake)
    BY DEF Share
  <2>3. /\ r \in 0 .. t.unclaimedFriction
        /\ k = t.unclaimedStake => r = t.unclaimedFriction
        /\ Claimed(t, k) \in Stats
        /\ Near(Claimed(t, k), n + 1)
        /\ 2 * (r * t.totalStake - t.totalFriction * k) <= (n + 1) * t.totalStake
        /\ 2 * (t.totalFriction * k - r * t.totalStake) <= (n + 1) * t.totalStake
    BY <1>1, <1>2, <1>3, <2>1, <2>2, ClaimNear
  <2>4. /\ s.unclaimedStake = t.unclaimedStake - k /\ s.unclaimedFriction = t.unclaimedFriction - r
        /\ s.totalStake = t.totalStake /\ s.totalFriction = t.totalFriction
    BY <1>1, <1>5, <1>6, <2>2 DEF Claimed, Stats
  <2>5. Paid(u, d) = r /\ Owed(d) = t.unclaimedFriction
    BY <1>1, <1>6, <2>1, <2>2 DEF Paid, Owed
  <2>6. (IF s.unclaimedStake # 0 THEN s.unclaimedFriction ELSE 0) = t.unclaimedFriction - r
    <3>1. /\ t.unclaimedFriction \in Nat /\ t.unclaimedStake \in Nat /\ k \in Nat
      BY <1>1 DEF Stats
    <3>2. r \in Int /\ (t.unclaimedStake - k = 0 => r = t.unclaimedFriction)
      BY <2>3, <3>1
    <3>3. QED BY <2>4, <3>1, <3>2
  <2>7. r \in Nat
    BY <2>3, <1>1 DEF Stats
  <2>8. QED BY <1>2, <1>5, <1>6, <2>1, <2>2, <2>3, <2>4, <2>5, <2>6, <2>7
<1>7. CASE d \notin Days(u)
  <2>1. s = t /\ Paid(u, d) = 0
    BY <1>5, <1>7 DEF Paid
  <2>2. Owed(d) = IF t.unclaimedStake # 0 THEN t.unclaimedFriction ELSE 0
    BY <1>1 DEF Owed
  <2>3. t.unclaimedFriction \in Nat
    BY <1>1 DEF Stats
  <2>4. changedAt[u] <= d => t.unclaimedStake = 0 /\ k = 0
    BY <1>1, <1>3, <1>4, <1>7 DEF Days
  <2>5. Near(t, IF changedAt[u] <= d THEN n + 1 ELSE n)
    BY <1>1, <1>2, <1>3, NearGrows
  <2>6. QED BY <1>1, <1>2, <1>3, <1>7, <2>1, <2>2, <2>3, <2>4, <2>5
<1>8. QED BY <1>6, <1>7
------------------------------------------------------------------------------
(****************************************************************************)
(* What the messages that settle a user have in common: the finished days   *)
(* are settled, the stake changes by amount, and so does today's.  A voter  *)
(* whose record a delegation opens has no stake yet.                        *)
(****************************************************************************)
Moves(u, amount) ==
  /\ today' = today
  /\ stake' = [stake EXCEPT ![u] = @ + amount]
  /\ changedAt' \in [Users -> 0 .. today] /\ changedAt'[u] = today
  /\ \A v \in Users \ {u} :
       changedAt'[v] = changedAt[v] \/ (changedAt'[v] = today /\ stake[v] = 0)
  /\ DOMAIN stat' = 0 .. today
  /\ stat' = [d \in 0 .. today |-> stat'[d]]
  /\ \A d \in 0 .. today - 1 : stat'[d] = Settled(u)[d]
  /\ stat'[today] = [stat[today] EXCEPT !.totalStake = @ + amount,
                                        !.unclaimedStake = @ + amount]

LEMMA TodayMoves ==
  ASSUME Books, TodayStake, NEW u \in Users, NEW amount \in Int,
         stake[u] + amount \in Nat, Moves(u, amount)
  PROVE  /\ stake' \in [Users -> Nat]
         /\ SumFunction(stake) \in Nat /\ SumFunction(stake)' \in Nat
         /\ SumFunction(stake)' = SumFunction(stake) + amount
         /\ stat'[today] \in Stats
         /\ stat'[today].totalFriction = stat[today].totalFriction
         /\ stat'[today].unclaimedFriction = stat[today].unclaimedFriction
         /\ TodayStake'
PROOF
<1>1. stake' \in [Users -> Nat] /\ stake \in [Users -> Int] /\ stake' \in [Users -> Int]
  BY DEF Books, Moves
<1>2. SumFunction(stake') = SumFunction(stake) + amount
  <2>1. /\ stake[u] + amount \in Int /\ stake[u] \in Int
        /\ stake'[u] = stake[u] + amount
        /\ \A v \in Users : v # u => stake'[v] = stake[v]
    BY <1>1 DEF Moves
  <2>2. SumFunction(stake') = SumFunction(stake) + ((stake[u] + amount) - stake[u])
    <3>1. IsFiniteSet(Users)
      BY VoteAssumption
    <3>2. SumFunction(stake') = SumFunction(stake) + (stake'[u] - stake[u])
      BY <1>1, <2>1, <3>1, SumChanges
    <3>3. QED BY <2>1, <3>2
  <2>3. SumFunction(stake) \in Int
    BY <1>1, SumTotal, VoteAssumption
  <2>4. QED BY <2>1, <2>2, <2>3
<1>3. SumFunction(stake) \in Nat /\ SumFunction(stake') \in Nat
  <2>1. ASSUME NEW f \in [Users -> Nat] PROVE SumFunction(f) \in Nat
    <3>1. SumFunction(f) = SumFunctionOnSet(f, Users)
      BY SumTotal, VoteAssumption
    <3>2. QED BY <3>1, SumNat, VoteAssumption
  <2>2. stake \in [Users -> Nat]
    BY DEF Books
  <2>3. QED BY <1>1, <2>1, <2>2
<1>4. stat[today] \in Stats
  BY DEF Books
<1>5. /\ stat'[today].totalStake = stat[today].totalStake + amount
      /\ stat'[today].unclaimedStake = stat[today].unclaimedStake + amount
      /\ stat'[today].totalFriction = stat[today].totalFriction
      /\ stat'[today].unclaimedFriction = stat[today].unclaimedFriction
      /\ stat'[today] = [totalFriction |-> stat[today].totalFriction,
                         unclaimedFriction |-> stat[today].unclaimedFriction,
                         totalStake |-> stat[today].totalStake + amount,
                         unclaimedStake |-> stat[today].unclaimedStake + amount]
  BY <1>4 DEF Moves, Stats
<1>6. TodayStake'
  BY <1>2, <1>3, <1>5 DEF TodayStake, Moves
<1>7. stat'[today] \in Stats
  <2>1. /\ stat[today].totalStake + amount \in Nat
        /\ stat[today].unclaimedStake + amount \in Nat
    BY <1>2, <1>3 DEF TodayStake
  <2>2. QED BY <1>4, <1>5, <2>1 DEF Stats
<1>8. QED BY <1>1, <1>2, <1>3, <1>5, <1>6, <1>7

LEMMA WeightMoves ==
  ASSUME Books, NEW u \in Users, NEW amount \in Int, Moves(u, amount), NEW d \in Int, d < today
  PROVE  SumFunction(Weight(d))'
           = SumFunction(Weight(d)) - IF changedAt[u] <= d THEN stake[u] ELSE 0
PROOF
<1>1. Weight(d) \in [Users -> Int]
  BY WeightIs
<1>2. Weight(d)' = [Weight(d) EXCEPT ![u] = 0]
  <2>1. ASSUME NEW v \in Users
        PROVE  (IF changedAt'[v] <= d THEN stake'[v] ELSE 0) = IF v = u THEN 0 ELSE Weight(d)[v]
    <3>1. changedAt[v] \in Int /\ today \in Int
      BY DEF Books
    <3>2. CASE v = u
      BY <3>1, <3>2 DEF Moves
    <3>3. CASE v # u
      <4>1. stake'[v] = stake[v]
        BY <3>3 DEF Moves, Books
      <4>2. QED BY <3>1, <3>3, <4>1 DEF Moves, Weight
    <3>4. QED BY <3>2, <3>3
  <2>2. Weight(d)' = [v \in Users |-> IF changedAt'[v] <= d THEN stake'[v] ELSE 0]
    BY DEF Weight
  <2>3. QED BY <1>1, <2>1, <2>2
<1>3. Weight(d)[u] = IF changedAt[u] <= d THEN stake[u] ELSE 0
  BY DEF Weight
<1> DEFINE f == Weight(d)
           g == Weight(d)'
<1>4. f \in [Users -> Int] /\ g \in [Users -> Int] /\ g[u] = 0
      /\ \A v \in Users : v # u => g[v] = f[v]
  BY <1>1, <1>2
<1>5. SumFunction(g) = SumFunction(f) + (0 - f[u]) /\ SumFunction(f) \in Int /\ f[u] \in Int
  <2> HIDE DEF f, g
  <2>1. QED BY <1>4, SumChanges, VoteAssumption
<1>6. QED BY <1>3, <1>4, <1>5

LEMMA SettlersMove ==
  ASSUME Books, NEW u \in Users, NEW amount \in Int, Moves(u, amount), NEW d \in Int, d < today
  PROVE  /\ Cardinality(Settlers(d)) \in Nat /\ Cardinality(Settlers(d))' \in Nat
         /\ Cardinality(Settlers(d))'
              >= IF changedAt[u] <= d THEN Cardinality(Settlers(d)) + 1
                                      ELSE Cardinality(Settlers(d))
PROOF
<1> DEFINE S == Settlers(d)
           T == {v \in Users : changedAt'[v] > d}
<1>1. Settlers(d)' = T /\ S \subseteq Users /\ T \subseteq Users
  BY DEF Settlers
<1>2. S \subseteq T /\ u \in T
  BY DEF Settlers, Moves, Books
<1>3. IsFiniteSet(S) /\ IsFiniteSet(T)
  BY <1>1, VoteAssumption, FS_Subset
<1>4. Cardinality(S) \in Nat /\ Cardinality(T) \in Nat /\ Cardinality(S) <= Cardinality(T)
  BY <1>2, <1>3, FS_Subset, FS_CardinalityType
<1>5. ASSUME changedAt[u] <= d PROVE Cardinality(S) + 1 <= Cardinality(T)
  <2>1. u \notin S
    BY <1>5 DEF Settlers, Books
  <2>2. Cardinality(S \cup {u}) = Cardinality(S) + 1 /\ IsFiniteSet(S \cup {u})
    BY <1>3, <2>1, FS_AddElement
  <2>3. S \cup {u} \subseteq T
    BY <1>2
  <2>4. QED BY <1>3, <2>2, <2>3, FS_Subset
<1>6. QED BY <1>1, <1>4, <1>5

LEMMA MovesKeep ==
  ASSUME VoteInv, NEW u \in Users, NEW amount \in Int,
         stake[u] + amount \in Nat, Moves(u, amount)
  PROVE  /\ stat' \in [0 .. today -> Stats]
         /\ PastStake' /\ TodayStake' /\ TodayFriction' /\ Drift'
         /\ stake' \in [Users -> Nat]
         /\ InterestSince(u) \in Nat /\ FrictionDue \in Int
         /\ SumFunction(stake) \in Int /\ SumFunction(stake)' = SumFunction(stake) + amount
         /\ Books' => FrictionDue' = FrictionDue - InterestSince(u)
PROOF
<1>0. /\ Books /\ PastStake /\ TodayStake /\ TodayFriction /\ Drift
      /\ today \in Nat /\ today' = today
  BY DEF VoteInv, Books, Moves
<1> DEFINE n(d) == Cardinality(Settlers(d))
<1>1. ASSUME NEW d \in 0 .. today - 1
      PROVE  /\ stat'[d] \in Stats
             /\ n(d) \in Nat
             /\ stat'[d].unclaimedStake
                  = stat[d].unclaimedStake - IF changedAt[u] <= d THEN stake[u] ELSE 0
             /\ Near(stat'[d], IF changedAt[u] <= d THEN n(d) + 1 ELSE n(d))
             /\ (IF stat'[d].unclaimedStake # 0 THEN stat'[d].unclaimedFriction ELSE 0)
                  = Owed(d) - Paid(u, d)
             /\ d \in Days(u) => Share(u, d) \in Nat
  <2>1. stat'[d] = Settled(u)[d]
    BY DEF Moves
  <2>2. QED BY <1>0, <2>1, SettledDay
<1>2. /\ stat'[today] \in Stats /\ TodayStake' /\ stake' \in [Users -> Nat]
      /\ stat'[today].totalFriction = stat[today].totalFriction
      /\ stat'[today].unclaimedFriction = stat[today].unclaimedFriction
      /\ SumFunction(stake) \in Int /\ SumFunction(stake)' = SumFunction(stake) + amount
  BY <1>0, TodayMoves
<1>3. stat' \in [0 .. today -> Stats]
  <2>1. ASSUME NEW d \in 0 .. today PROVE stat'[d] \in Stats
    BY <1>0, <1>1, <1>2
  <2>2. stat' = [d \in 0 .. today |-> stat'[d]]
    BY DEF Moves
  <2>3. QED BY <2>1, <2>2
<1>4. PastStake'
  <2>1. ASSUME NEW d \in 0 .. today - 1
        PROVE  stat'[d].unclaimedStake = SumFunction(Weight(d))'
    <3>1. SumFunction(Weight(d))'
           = SumFunction(Weight(d)) - IF changedAt[u] <= d THEN stake[u] ELSE 0
      BY <1>0, WeightMoves
    <3>2. stat[d].unclaimedStake = SumFunction(Weight(d))
      BY <1>0 DEF PastStake
    <3>3. QED BY <1>1, <3>1, <3>2
  <2>2. QED BY <1>0, <2>1 DEF PastStake
<1>5. TodayFriction'
  BY <1>0, <1>2 DEF TodayFriction
<1>6. Drift'
  <2>1. ASSUME NEW d \in 0 .. today - 1
        PROVE  Near(stat'[d], n(d)')
    <3>1. /\ n(d)' \in Nat /\ n(d) \in Nat
          /\ n(d)' >= IF changedAt[u] <= d THEN n(d) + 1 ELSE n(d)
      BY <1>0, SettlersMove
    <3>2. PICK m \in Nat : m = (IF changedAt[u] <= d THEN n(d) + 1 ELSE n(d))
      BY <3>1
    <3>3. PICK k \in Nat : k = n(d)'
      BY <3>1
    <3>4. m <= k /\ Near(stat'[d], m) /\ stat'[d] \in Stats
      BY <1>1, <3>1, <3>2, <3>3
    <3>5. Near(stat'[d], k)
      BY <3>4, NearGrows
    <3>6. QED BY <3>3, <3>5
  <2>2. QED BY <1>0, <2>1 DEF Drift
<1>7. \A d \in Days(u) : Share(u, d) \in Nat
  <2>1. Days(u) \subseteq 0 .. today - 1
    BY DEF Days, VoteInv, Books
  <2>2. QED BY <1>1, <2>1
<1> DEFINE S == 0 .. today
           f == AllOwed
           g == [d \in 0 .. today |-> Paid(u, d)]
<1>8. /\ f \in [S -> Nat] /\ FrictionDue = SumFunction(f) /\ IsFiniteSet(S)
      /\ g \in [S -> Nat] /\ InterestSince(u) = SumFunction(g) /\ InterestSince(u) \in Nat
  BY <1>0, <1>7, DueIs, InterestIs DEF DueSummed
<1>9. FrictionDue \in Int
  <2> HIDE DEF S, f, g
  <2>1. SumFunction(f) \in Nat
    BY <1>8, SumCounts
  <2>2. QED BY <1>8, <2>1
<1>10. ASSUME Books' PROVE FrictionDue' = FrictionDue - InterestSince(u)
  <2> DEFINE h == AllOwed'
  <2>1. h \in [S -> Nat] /\ FrictionDue' = SumFunction(h)
    <3>1. DueSummed'
      BY <1>10, DueIs, PTL
    <3>2. QED BY <1>0, <3>1 DEF DueSummed
  <2>2. ASSUME NEW d \in S PROVE f[d] = h[d] + g[d] /\ h[d] \in Int /\ g[d] \in Int
    <3>0. f[d] = Owed(d) /\ g[d] = Paid(u, d)
      BY DEF AllOwed
    <3>1. f[d] = Owed(d) /\ g[d] = Paid(u, d) /\ f[d] \in Int /\ g[d] \in Int /\ h[d] \in Int
      <4> HIDE DEF S, f, g, h
      <4>1. QED BY <1>8, <2>1, <3>0
    <3>2. h[d] = (IF d = today \/ stat'[d].unclaimedStake # 0 THEN stat'[d].unclaimedFriction
                  ELSE 0)
      BY <1>0 DEF AllOwed, Owed
    <3>3. CASE d = today
      <4>1. Owed(d) = stat[today].unclaimedFriction /\ Paid(u, d) = 0
        BY <1>0, <3>3 DEF Owed, Paid, Days
      <4>2. QED BY <1>2, <3>1, <3>2, <3>3, <4>1
    <3>4. CASE d \in 0 .. today - 1
      <4>1. h[d] = Owed(d) - Paid(u, d)
        BY <1>0, <1>1, <3>2, <3>4
      <4>2. QED BY <3>1, <4>1
    <3>5. QED BY <1>0, <3>3, <3>4
  <2> HIDE DEF f, g, h, S
  <2>3. SumFunctionOnSet(f, S) = SumFunctionOnSet(h, S) + SumFunctionOnSet(g, S)
    BY <1>8, <2>2, SumTwo
  <2>4. /\ SumFunction(f) = SumFunctionOnSet(f, S) /\ SumFunction(h) = SumFunctionOnSet(h, S)
        /\ SumFunction(g) = SumFunctionOnSet(g, S)
        /\ SumFunction(f) \in Int /\ SumFunction(g) \in Int /\ SumFunction(h) \in Int
    <3>1. f \in [S -> Int] /\ g \in [S -> Int] /\ h \in [S -> Int]
      BY <1>8, <2>1
    <3>2. QED BY <1>8, <3>1, SumTotal
  <2>5. QED BY <1>8, <2>1, <2>3, <2>4
<1>11. QED BY <1>2, <1>3, <1>4, <1>5, <1>6, <1>8, <1>9, <1>10

(* The coins a message moves between savings, stake, interest and days.     *)
LEMMA CoinsMove ==
  ASSUME VoteInv, Books', NEW u \in Users, NEW amount \in Int,
         stake[u] + amount \in Nat, Moves(u, amount),
         NEW c \in Int, NEW i \in Int,
         wallet' = [wallet EXCEPT ![u] = @ + c],
         interest' = [interest EXCEPT ![u] = @ + i],
         c + amount + i = InterestSince(u), donated' = donated
  PROVE  CoinsConserved'
PROOF
<1>1. /\ InterestSince(u) \in Nat /\ FrictionDue \in Int
      /\ SumFunction(stake) \in Int /\ SumFunction(stake)' = SumFunction(stake) + amount
      /\ FrictionDue' = FrictionDue - InterestSince(u)
  BY MovesKeep
<1>2. SumFunction(wallet)' = SumFunction(wallet) + c /\ SumFunction(wallet) \in Int
  <2> DEFINE f == wallet
             g == wallet'
  <2>1. /\ f \in [Users -> Int] /\ g \in [Users -> Int]
        /\ g[u] - f[u] = c /\ \A v \in Users : v # u => g[v] = f[v]
    <3>1. wallet \in [Users -> Nat]
      BY DEF VoteInv, Books
    <3>2. wallet' \in [Users -> Nat]
      BY DEF Books
    <3>3. wallet'[u] = wallet[u] + c /\ wallet[u] \in Int
      BY <3>1
    <3>4. QED BY <3>1, <3>2, <3>3
  <2> HIDE DEF f, g
  <2>2. SumFunction(g) = SumFunction(f) + (g[u] - f[u]) /\ SumFunction(f) \in Int
    BY <2>1, SumChanges, VoteAssumption
  <2>3. QED BY <2>1, <2>2 DEF f, g
<1>3. SumFunction(interest)' = SumFunction(interest) + i /\ SumFunction(interest) \in Int
  <2> DEFINE f == interest
             g == interest'
  <2>1. /\ f \in [Users -> Int] /\ g \in [Users -> Int]
        /\ g[u] - f[u] = i /\ \A v \in Users : v # u => g[v] = f[v]
    <3>1. interest \in [Users -> Nat]
      BY DEF VoteInv, Books
    <3>2. interest' \in [Users -> Nat]
      BY DEF Books
    <3>3. interest'[u] = interest[u] + i /\ interest[u] \in Int
      BY <3>1
    <3>4. QED BY <3>1, <3>2, <3>3
  <2> HIDE DEF f, g
  <2>2. SumFunction(g) = SumFunction(f) + (g[u] - f[u]) /\ SumFunction(f) \in Int
    BY <2>1, SumChanges, VoteAssumption
  <2>3. QED BY <2>1, <2>2 DEF f, g
<1>4. CoinsConserved
  BY DEF VoteInv
<1>5. QED BY <1>1, <1>2, <1>3, <1>4 DEF CoinsConserved
------------------------------------------------------------------------------
(****************************************************************************)
(* Delegations: the row of a voter and the column of a delegator.           *)
(****************************************************************************)
Delegates(v, u, amount) ==
  /\ delegation[<<v, u>>] + amount \in Nat
  /\ delegation' = [delegation EXCEPT ![<<v, u>>] = @ + amount]

(* What it does to the two sums a delegation is counted in.                 *)
Shifts(v, u, amount) ==
  /\ delegation' \in [Users \X Users -> Nat]
  /\ \A w \in Users :
       /\ SumFunction(To(w)) \in Nat /\ SumFunction(From(w)) \in Nat
       /\ SumFunction(To(w))' = SumFunction(To(w)) + IF w = u THEN amount ELSE 0
       /\ SumFunction(From(w))' = SumFunction(From(w)) + IF w = v THEN amount ELSE 0
  /\ delegation[<<v, u>>] <= SumFunction(To(u))
  /\ delegation[<<v, u>>] <= SumFunction(From(v))

LEMMA DelegationMoves ==
  ASSUME Books, NEW v \in Users, NEW u \in Users, NEW amount \in Int,
         Delegates(v, u, amount)
  PROVE  Shifts(v, u, amount)
PROOF
<1>1. /\ delegation' \in [Users \X Users -> Nat] /\ delegation \in [Users \X Users -> Nat]
      /\ delegation[<<v, u>>] \in Nat /\ delegation'[<<v, u>>] = delegation[<<v, u>>] + amount
      /\ \A a, b \in Users : <<a, b>> # <<v, u>> => delegation'[<<a, b>>] = delegation[<<a, b>>]
  BY DEF Books, Delegates
<1>2. ASSUME NEW w \in Users
      PROVE  /\ To(w) \in [Users -> Nat] /\ To(w)' \in [Users -> Nat]
             /\ From(w) \in [Users -> Nat] /\ From(w)' \in [Users -> Nat]
             /\ \A a \in Users : /\ To(w)[a] = delegation[<<a, w>>]
                                 /\ To(w)'[a] = delegation'[<<a, w>>]
                                 /\ From(w)[a] = delegation[<<w, a>>]
                                 /\ From(w)'[a] = delegation'[<<w, a>>]
  <2>1. \A a \in Users : /\ delegation[<<a, w>>] \in Nat /\ delegation'[<<a, w>>] \in Nat
                         /\ delegation[<<w, a>>] \in Nat /\ delegation'[<<w, a>>] \in Nat
    BY <1>1
  <2>2. QED BY <2>1 DEF To, From
<1>3. ASSUME NEW w \in Users
      PROVE  /\ SumFunction(To(w)) \in Nat
             /\ SumFunction(To(w))' = SumFunction(To(w)) + IF w = u THEN amount ELSE 0
             /\ delegation[<<v, w>>] <= SumFunction(To(w))
  <2> DEFINE f == To(w)
             g == To(w)'
  <2>1. /\ f \in [Users -> Nat] /\ f \in [Users -> Int] /\ g \in [Users -> Int]
        /\ \A a \in Users : a # v => g[a] = f[a]
        /\ g[v] - f[v] = IF w = u THEN amount ELSE 0
        /\ f[v] = delegation[<<v, w>>]
    <3>1. \A a \in Users : a # v => delegation'[<<a, w>>] = delegation[<<a, w>>]
      BY <1>1
    <3>2. delegation[<<v, w>>] \in Int
      BY <1>1
    <3>c. PICK c \in Int : c = IF w = u THEN amount ELSE 0
      OBVIOUS
    <3>3. delegation'[<<v, w>>] = delegation[<<v, w>>] + c
      BY <1>1, <3>2, <3>c
    <3>4. f \in [Users -> Int] /\ g \in [Users -> Int]
      BY <1>2
    <3> HIDE DEF f, g
    <3>5. \A a \in Users : f[a] = delegation[<<a, w>>] /\ g[a] = delegation'[<<a, w>>]
      BY <1>2 DEF f, g
    <3>6. f \in [Users -> Nat]
      BY <1>2 DEF f
    <3>7. /\ f[v] = delegation[<<v, w>>] /\ g[v] = delegation'[<<v, w>>]
          /\ \A a \in Users : a # v => g[a] = f[a]
      BY <3>1, <3>5
    <3>8. g[v] - f[v] = c
      BY <3>2, <3>3, <3>7
    <3>9. QED BY <3>c, <3>4, <3>6, <3>7, <3>8
  <2> HIDE DEF f, g
  <2>2. /\ SumFunction(g) = SumFunction(f) + (g[v] - f[v])
        /\ SumFunction(f) \in Nat /\ f[v] <= SumFunction(f)
    BY <2>1, SumChanges, SumCounts, VoteAssumption
  <2>3. QED BY <2>1, <2>2 DEF f, g
<1>4. ASSUME NEW w \in Users
      PROVE  /\ SumFunction(From(w)) \in Nat
             /\ SumFunction(From(w))' = SumFunction(From(w)) + IF w = v THEN amount ELSE 0
             /\ delegation[<<w, u>>] <= SumFunction(From(w))
  <2> DEFINE f == From(w)
             g == From(w)'
  <2>1. /\ f \in [Users -> Nat] /\ f \in [Users -> Int] /\ g \in [Users -> Int]
        /\ \A a \in Users : a # u => g[a] = f[a]
        /\ g[u] - f[u] = IF w = v THEN amount ELSE 0
        /\ f[u] = delegation[<<w, u>>]
    <3>1. \A a \in Users : a # u => delegation'[<<w, a>>] = delegation[<<w, a>>]
      BY <1>1
    <3>2. delegation[<<w, u>>] \in Int
      BY <1>1
    <3>c. PICK c \in Int : c = IF w = v THEN amount ELSE 0
      OBVIOUS
    <3>3. delegation'[<<w, u>>] = delegation[<<w, u>>] + c
      BY <1>1, <3>2, <3>c
    <3>4. f \in [Users -> Int] /\ g \in [Users -> Int]
      BY <1>2
    <3> HIDE DEF f, g
    <3>5. \A a \in Users : f[a] = delegation[<<w, a>>] /\ g[a] = delegation'[<<w, a>>]
      BY <1>2 DEF f, g
    <3>6. f \in [Users -> Nat]
      BY <1>2 DEF f
    <3>7. /\ f[u] = delegation[<<w, u>>] /\ g[u] = delegation'[<<w, u>>]
          /\ \A a \in Users : a # u => g[a] = f[a]
      BY <3>1, <3>5
    <3>8. g[u] - f[u] = c
      BY <3>2, <3>3, <3>7
    <3>9. QED BY <3>c, <3>4, <3>6, <3>7, <3>8
  <2> HIDE DEF f, g
  <2>2. /\ SumFunction(g) = SumFunction(f) + (g[u] - f[u])
        /\ SumFunction(f) \in Nat /\ f[u] <= SumFunction(f)
    BY <2>1, SumChanges, SumCounts, VoteAssumption
  <2>3. QED BY <2>1, <2>2 DEF f, g
<1>5. QED BY <1>1, <1>3, <1>4 DEF Shifts

LEMMA ToNat ==
  ASSUME Books, NEW u \in Users
  PROVE  SumFunction(To(u)) \in Nat /\ SumFunction(From(u)) \in Nat
PROOF
<1>1. \A a \in Users : delegation[<<a, u>>] \in Nat /\ delegation[<<u, a>>] \in Nat
  BY DEF Books
<1>2. To(u) \in [Users -> Nat] /\ From(u) \in [Users -> Nat]
  BY <1>1 DEF To, From
<1>3. QED BY <1>2, SumCounts, VoteAssumption

(* Messages that leave the delegations alone.                               *)
LEMMA BackedStays ==
  ASSUME Backed, UNCHANGED <<toOthers, delegation>>,
         \A u \in Users : toOthers[u] <= stake'[u]
  PROVE  Backed'
PROOF
<1>1. \A u \in Users : To(u)' = To(u)
  BY DEF To
<1>2. QED BY <1>1 DEF Backed
------------------------------------------------------------------------------
(****************************************************************************)
(* The messages.                                                            *)
(****************************************************************************)
LEMMA SettledToday ==
  ASSUME Books, NEW u \in Users
  PROVE  /\ DOMAIN Settled(u) = 0 .. today /\ today \in 0 .. today
         /\ Settled(u)[today] = stat[today] /\ stat[today] \in Stats
PROOF
<1>1. today \in 0 .. today /\ today \in Nat /\ stat[today] \in Stats
  BY DEF Books
<1>2. today \notin Days(u)
  BY <1>1 DEF Days
<1>3. QED BY <1>1, <1>2 DEF Settled

LEMMA ChangeMoves ==
  ASSUME Books, NEW u \in Users, NEW amount \in Int, today' = today,
         ChangeStake(u, amount),
         changedAt' \in [Users -> 0 .. today], changedAt'[u] = today,
         \A v \in Users \ {u} :
           changedAt'[v] = changedAt[v] \/ (changedAt'[v] = today /\ stake[v] = 0)
  PROVE  Moves(u, amount)
PROOF
<1> DEFINE s == Settled(u)
<1>1. DOMAIN s = 0 .. today /\ today \in 0 .. today /\ s[today] = stat[today]
  BY SettledToday
<1>2. s = [d \in 0 .. today |-> s[d]]
  BY DEF Settled
<1>3. stat' = [s EXCEPT ![today].totalStake = @ + amount,
                        ![today].unclaimedStake = @ + amount]
  BY DEF ChangeStake
<1> HIDE DEF s
<1>4. /\ DOMAIN stat' = 0 .. today
      /\ stat' = [d \in 0 .. today |-> stat'[d]]
      /\ \A d \in 0 .. today - 1 : stat'[d] = s[d]
      /\ stat'[today] = [s[today] EXCEPT !.totalStake = @ + amount,
                                         !.unclaimedStake = @ + amount]
  <2>1. \A d \in 0 .. today - 1 : d # today /\ d \in 0 .. today
    BY DEF Books
  <2>2. QED BY <1>1, <1>2, <1>3, <2>1
<1>5. QED BY <1>1, <1>4 DEF Moves, ChangeStake, s

(* The parts of the invariant that do not depend on the message.            *)
LEMMA MessageKeeps ==
  ASSUME VoteInv, NEW u \in Users, NEW amount \in Int,
         stake[u] + amount \in Nat, Moves(u, amount),
         NEW c \in Int, NEW i \in Int,
         wallet[u] + c \in Nat, interest[u] + i \in Nat,
         wallet' = [wallet EXCEPT ![u] = @ + c],
         interest' = [interest EXCEPT ![u] = @ + i],
         c + amount + i = InterestSince(u), donated' = donated,
         voters' \subseteq Users, voters \subseteq voters', u \in voters',
         delegated' \in [Users -> Int], toOthers' \in [Users -> Int],
         delegation' \in [Users \X Users -> Nat], Backed'
  PROVE  VoteInv'
PROOF
<1>1. /\ stat' \in [0 .. today -> Stats] /\ stake' \in [Users -> Nat]
      /\ PastStake' /\ TodayStake' /\ TodayFriction' /\ Drift'
  BY MovesKeep
<1>2. Books'
  <2>1. today' = today /\ changedAt' \in [Users -> 0 .. today] /\ today \in Nat
    BY DEF Moves, VoteInv, Books
  <2>2. wallet \in [Users -> Nat] /\ interest \in [Users -> Nat] /\ donated \in Nat
    BY DEF VoteInv, Books
  <2>3. wallet' \in [Users -> Nat] /\ interest' \in [Users -> Nat]
    BY <2>2
  <2>4. QED BY <1>1, <2>1, <2>2, <2>3 DEF Books
<1>3. NoRecord'
  <2>1. \A v \in Users \ {u} : stake'[v] = stake[v]
    BY DEF Moves, VoteInv, Books
  <2>2. QED BY <2>1 DEF NoRecord, VoteInv
<1>4. CoinsConserved'
  BY <1>2, CoinsMove
<1>5. QED BY <1>1, <1>2, <1>3, <1>4 DEF VoteInv

(* changedAt of a message that settles u alone.                             *)
LEMMA OneChanged ==
  ASSUME Books, NEW u \in Users, changedAt' = [changedAt EXCEPT ![u] = today]
  PROVE  /\ changedAt' \in [Users -> 0 .. today] /\ changedAt'[u] = today
         /\ \A v \in Users \ {u} : changedAt'[v] = changedAt[v]
PROOF BY DEF Books

LEMMA InterestNat ==
  ASSUME VoteInv, NEW u \in Users
  PROVE  InterestSince(u) \in Nat
PROOF
<1>1. Books /\ PastStake /\ Drift
  BY DEF VoteInv
<1>2. \A d \in Days(u) : d \in 0 .. today - 1
  BY <1>1 DEF Days, Books
<1>3. \A d \in Days(u) : Share(u, d) \in Nat
  BY <1>1, <1>2, SettledDay
<1>4. QED BY <1>1, <1>3, InterestIs

LEMMA AtRest ==
  ASSUME VoteInv, NEW u \in Users
  PROVE  /\ Books /\ Backed /\ NoRecord /\ InterestSince(u) \in Nat
         /\ stake[u] \in Nat /\ wallet[u] \in Nat /\ interest[u] \in Nat
         /\ toOthers[u] \in Nat /\ toOthers[u] <= stake[u]
         /\ toOthers[u] = SumFunction(To(u))
PROOF
<1>1. Books /\ Backed /\ NoRecord
  BY DEF VoteInv
<1>2. stake[u] \in Nat /\ wallet[u] \in Nat /\ interest[u] \in Nat
  BY <1>1 DEF Books
<1>3. toOthers[u] \in Nat /\ toOthers[u] <= stake[u] /\ toOthers[u] = SumFunction(To(u))
  BY <1>1, ToNat DEF Backed
<1>4. QED BY <1>1, <1>2, <1>3, InterestNat

LEMMA AmountNat ==
  ASSUME NEW amount \in Amounts
  PROVE  amount \in Nat /\ amount # 0 /\ amount \in Int /\ -amount \in Int
PROOF BY VoteAssumption

(* Adding to one place of a function of integers.                           *)
LEMMA AddedTo ==
  ASSUME NEW S, NEW f \in [S -> Int], NEW x \in S, NEW a \in Int, NEW g,
         g = [f EXCEPT ![x] = @ + a]
  PROVE  /\ g \in [S -> Int]
         /\ \A y \in S : g[y] = f[y] + IF y = x THEN a ELSE 0
PROOF
<1>1. g[x] = f[x] + a /\ \A y \in S : y # x => g[y] = f[y]
  OBVIOUS
<1>2. ASSUME NEW y \in S PROVE g[y] = f[y] + IF y = x THEN a ELSE 0
  BY <1>1
<1>3. QED BY <1>2

LEMMA StakeInKeeps ==
  ASSUME VoteInv, NEW u \in Users, NEW amount \in Amounts, StakeIn(u, amount)
  PROVE  VoteInv'
PROOF
<1> DEFINE i == InterestSince(u)
<1>1. /\ Books /\ Backed /\ i \in Nat /\ amount \in Nat /\ amount \in Int /\ -amount \in Int
      /\ stake[u] \in Nat /\ wallet[u] \in Nat /\ interest[u] \in Nat
  BY AtRest, AmountNat
<1>2. /\ amount <= wallet[u] /\ wallet' = [wallet EXCEPT ![u] = @ + (-amount)]
      /\ ChangeStake(u, amount) /\ voters' = voters \cup {u}
      /\ changedAt' = [changedAt EXCEPT ![u] = today]
      /\ UNCHANGED <<delegated, toOthers, delegation, today, donated>>
  BY <1>1 DEF StakeIn, Spend, Books
<1>3. stake' = [stake EXCEPT ![u] = @ + amount] /\ interest' = [interest EXCEPT ![u] = @ + i]
  BY <1>2 DEF ChangeStake
<1> HIDE DEF i
<1>4. Moves(u, amount)
  BY <1>1, <1>2, OneChanged, ChangeMoves
<1>5. Backed'
  <2>1. \A v \in Users : toOthers[v] \in Int /\ stake[v] \in Nat /\ toOthers[v] <= stake[v]
    BY <1>1 DEF Books, Backed
  <2>2. \A v \in Users : toOthers[v] <= stake'[v]
    BY <1>1, <1>3, <2>1 DEF Books
  <2>3. QED BY <1>1, <1>2, <2>2, BackedStays
<1>6. /\ stake[u] + amount \in Nat /\ wallet[u] + (-amount) \in Nat /\ interest[u] + i \in Nat
      /\ (-amount) + amount + i = i
  BY <1>1, <1>2
<1>7. /\ voters' \subseteq Users /\ voters \subseteq voters' /\ u \in voters'
      /\ delegated' \in [Users -> Int] /\ toOthers' \in [Users -> Int]
      /\ delegation' \in [Users \X Users -> Nat] /\ donated' = donated
  BY <1>1, <1>2 DEF Books
<1>8. i = InterestSince(u) /\ i \in Int
  BY <1>1 DEF i
<1>9. QED BY <1>1, <1>2, <1>3, <1>4, <1>5, <1>6, <1>7, <1>8, MessageKeeps

LEMMA StakeOutKeeps ==
  ASSUME VoteInv, NEW u \in Users, NEW amount \in Amounts, StakeOut(u, amount)
  PROVE  VoteInv'
PROOF
<1> DEFINE i == InterestSince(u)
<1>1. /\ Books /\ Backed /\ i \in Nat /\ amount \in Nat /\ amount \in Int /\ -amount \in Int
      /\ stake[u] \in Nat /\ wallet[u] \in Nat /\ interest[u] \in Nat
  BY AtRest, AmountNat
<1>2. /\ u \in voters /\ stake[u] - toOthers[u] >= amount
      /\ wallet' = [wallet EXCEPT ![u] = @ + amount]
      /\ ChangeStake(u, -amount)
      /\ changedAt' = [changedAt EXCEPT ![u] = today]
      /\ UNCHANGED <<voters, delegated, toOthers, delegation, today, donated>>
  BY DEF StakeOut, IsLegalVoterWithdraw
<1>3. stake' = [stake EXCEPT ![u] = @ + (-amount)] /\ interest' = [interest EXCEPT ![u] = @ + i]
  BY <1>2 DEF ChangeStake
<1> HIDE DEF i
<1>4. Moves(u, -amount)
  BY <1>1, <1>2, OneChanged, ChangeMoves
<1>5. toOthers[u] \in Nat
  BY <1>1, ToNat DEF Backed
<1>6. Backed'
  <2>1. \A v \in Users : toOthers[v] \in Int /\ stake[v] \in Nat /\ toOthers[v] <= stake[v]
    BY <1>1 DEF Books, Backed
  <2>2. \A v \in Users : toOthers[v] <= stake'[v]
    BY <1>1, <1>2, <1>3, <2>1 DEF Books
  <2>3. QED BY <1>1, <1>2, <2>2, BackedStays
<1>7. /\ stake[u] + (-amount) \in Nat /\ wallet[u] + amount \in Nat /\ interest[u] + i \in Nat
      /\ amount + (-amount) + i = i
  BY <1>1, <1>2, <1>5
<1>8. /\ voters' \subseteq Users /\ voters \subseteq voters' /\ u \in voters'
      /\ delegated' \in [Users -> Int] /\ toOthers' \in [Users -> Int]
      /\ delegation' \in [Users \X Users -> Nat] /\ donated' = donated
  BY <1>1, <1>2 DEF Books
<1>9. i = InterestSince(u) /\ i \in Int
  BY <1>1 DEF i
<1>10. QED BY <1>1, <1>2, <1>3, <1>4, <1>6, <1>7, <1>8, <1>9, MessageKeeps

LEMMA ClaimInterestKeeps ==
  ASSUME VoteInv, NEW u \in Users, ClaimInterest(u)
  PROVE  VoteInv'
PROOF
<1> DEFINE i == InterestSince(u)
           k == interest[u]
<1>1. /\ Books /\ Backed /\ i \in Nat /\ stake[u] \in Nat /\ wallet[u] \in Nat /\ k \in Nat
  BY AtRest
<1>2. /\ u \in voters /\ wallet' = [wallet EXCEPT ![u] = @ + (k + i)]
      /\ interest' = [interest EXCEPT ![u] = @ + (-k)]
      /\ stat' = Settled(u) /\ stake' = stake
      /\ changedAt' = [changedAt EXCEPT ![u] = today]
      /\ UNCHANGED <<voters, delegated, toOthers, delegation, today, donated>>
  <2>1. wallet[u] + k + i = wallet[u] + (k + i) /\ k + (-k) = 0
    BY <1>1
  <2>2. /\ wallet' = [wallet EXCEPT ![u] = wallet[u] + k + i]
        /\ interest' = [interest EXCEPT ![u] = 0]
    BY DEF ClaimInterest
  <2>3. QED BY <2>1, <2>2 DEF ClaimInterest
<1> HIDE DEF i, k
<1>3. Moves(u, 0)
  <2>1. stake' = [stake EXCEPT ![u] = @ + 0]
    BY <1>1, <1>2 DEF Books
  <2>2. /\ DOMAIN Settled(u) = 0 .. today
        /\ Settled(u)[today] = stat[today] /\ stat[today] \in Stats
    BY <1>1, SettledToday
  <2>3. Settled(u) = [d \in 0 .. today |-> Settled(u)[d]]
    BY DEF Settled
  <2>4. stat[today] = [stat[today] EXCEPT !.totalStake = @ + 0, !.unclaimedStake = @ + 0]
    <3>1. PICK s \in Stats : s = stat[today]
      BY <2>2
    <3>2. s.totalStake + 0 = s.totalStake /\ s.unclaimedStake + 0 = s.unclaimedStake
      BY DEF Stats
    <3>3. s = [s EXCEPT !.totalStake = s.totalStake, !.unclaimedStake = s.unclaimedStake]
      BY DEF Stats
    <3>4. QED BY <3>1, <3>2, <3>3
  <2>5. QED BY <1>1, <1>2, <2>1, <2>2, <2>3, <2>4, OneChanged DEF Moves
<1>4. Backed'
  <2>1. \A v \in Users : toOthers[v] <= stake'[v]
    BY <1>1, <1>2 DEF Backed
  <2>2. QED BY <1>1, <1>2, <2>1, BackedStays
<1>5. /\ stake[u] + 0 \in Nat /\ wallet[u] + (k + i) \in Nat /\ interest[u] + (-k) \in Nat
      /\ (k + i) + 0 + (-k) = i /\ k + i \in Int /\ -k \in Int /\ 0 \in Int
  BY <1>1 DEF k
<1>6. /\ voters' \subseteq Users /\ voters \subseteq voters' /\ u \in voters'
      /\ delegated' \in [Users -> Int] /\ toOthers' \in [Users -> Int]
      /\ delegation' \in [Users \X Users -> Nat] /\ donated' = donated
  BY <1>1, <1>2 DEF Books
<1>7. i = InterestSince(u)
  BY DEF i
<1>8. QED BY <1>2, <1>3, <1>4, <1>5, <1>6, <1>7, MessageKeeps

LEMMA DelegateKeeps ==
  ASSUME VoteInv, NEW v \in Users, NEW u \in Users, NEW amount \in Amounts,
         Delegate(v, u, amount)
  PROVE  VoteInv'
PROOF
<1> DEFINE i == InterestSince(u)
<1>1. /\ Books /\ Backed /\ NoRecord
      /\ i \in Nat /\ amount \in Nat /\ amount \in Int /\ -amount \in Int
      /\ stake[u] \in Nat /\ wallet[u] \in Nat /\ interest[u] \in Nat
  BY AtRest, AmountNat
<1>0. stake \in [Users -> Int] /\ toOthers \in [Users -> Int]
  <2>1. stake \in [Users -> Nat] /\ toOthers \in [Users -> Int]
    BY <1>1 DEF Books
  <2>2. QED BY <2>1
<1>2. /\ amount <= wallet[u] /\ wallet' = [wallet EXCEPT ![u] = @ + (-amount)]
      /\ ChangeStake(u, amount) /\ voters' = voters \cup {u, v}
      /\ changedAt' = [w \in Users |-> IF w = u \/ (w = v /\ v \notin voters) THEN today
                                       ELSE changedAt[w]]
      /\ AddDelegation(v, u, amount)
      /\ UNCHANGED <<today, donated>>
  BY <1>1 DEF Delegate, Spend, Books
<1>3. stake' = [stake EXCEPT ![u] = @ + amount] /\ interest' = [interest EXCEPT ![u] = @ + i]
  BY <1>2 DEF ChangeStake
<1> HIDE DEF i
<1>4. Moves(u, amount)
  <2>1. /\ changedAt' \in [Users -> 0 .. today] /\ changedAt'[u] = today
        /\ \A w \in Users \ {u} :
             changedAt'[w] = changedAt[w] \/ (changedAt'[w] = today /\ w \notin voters)
    BY <1>1, <1>2 DEF Books
  <2>2. \A w \in Users : w \notin voters => stake[w] = 0
    BY <1>1 DEF NoRecord
  <2>3. QED BY <1>1, <1>2, <2>1, <2>2, ChangeMoves
<1>5. /\ delegation' = [delegation EXCEPT ![<<v, u>>] = @ + amount]
      /\ toOthers' = [toOthers EXCEPT ![u] = @ + amount]
      /\ delegated' \in [Users -> Int] /\ toOthers' \in [Users -> Int]
  <2>1. /\ delegation' = [delegation EXCEPT ![<<v, u>>] = @ + amount]
        /\ toOthers' = [toOthers EXCEPT ![u] = @ + amount]
        /\ delegated' = IF v = u THEN delegated ELSE [delegated EXCEPT ![v] = @ + amount]
    BY <1>2 DEF AddDelegation
  <2>2. delegated \in [Users -> Int] /\ toOthers \in [Users -> Int]
    BY <1>1 DEF Books
  <2>3. [delegated EXCEPT ![v] = @ + amount] \in [Users -> Int]
    BY <1>1, <2>2, AddedTo
  <2>4. toOthers' \in [Users -> Int]
    BY <1>1, <2>1, <2>2, AddedTo
  <2>5. QED BY <2>1, <2>2, <2>3, <2>4
<1>6. delegation[<<v, u>>] + amount \in Nat
  <2>1. delegation[<<v, u>>] \in Nat
    BY <1>1 DEF Books
  <2>2. QED BY <1>1, <2>1
<1>7. /\ delegation' \in [Users \X Users -> Nat]
      /\ \A w \in Users :
           /\ SumFunction(To(w)) \in Nat
           /\ SumFunction(To(w))' = SumFunction(To(w)) + IF w = u THEN amount ELSE 0
  <2>1. Books /\ amount \in Int /\ Delegates(v, u, amount) /\ v \in Users
    BY <1>1, <1>5, <1>6 DEF Delegates
  <2>2. Shifts(v, u, amount)
    BY <2>1, DelegationMoves
  <2>3. QED BY <2>2 DEF Shifts
<1>8. Backed'
  <2>1. ASSUME NEW w \in Users
        PROVE  toOthers'[w] = SumFunction(To(w))' /\ toOthers'[w] <= stake'[w]
    <3>0. stake \in [Users -> Int] /\ toOthers \in [Users -> Int]
      BY <1>0
    <3>1. /\ toOthers[w] = SumFunction(To(w)) /\ toOthers[w] <= stake[w]
          /\ toOthers[w] \in Int /\ stake[w] \in Int
      BY <1>1, <3>0 DEF Backed
    <3>2. /\ toOthers'[w] = toOthers[w] + IF w = u THEN amount ELSE 0
          /\ stake'[w] = stake[w] + IF w = u THEN amount ELSE 0
      BY <1>1, <1>3, <1>5, <3>0, AddedTo
    <3>3. PICK c \in Int : c = IF w = u THEN amount ELSE 0
      BY <1>1
    <3>4. QED BY <1>7, <3>1, <3>2, <3>3
  <2>2. QED BY <2>1 DEF Backed
<1>9. /\ stake[u] + amount \in Nat /\ wallet[u] + (-amount) \in Nat /\ interest[u] + i \in Nat
      /\ (-amount) + amount + i = i
  BY <1>1, <1>2
<1>10. /\ voters' \subseteq Users /\ voters \subseteq voters' /\ u \in voters'
       /\ donated' = donated
  BY <1>1, <1>2 DEF Books
<1>11. i = InterestSince(u) /\ i \in Int
  BY <1>1 DEF i
<1>12. QED BY <1>1, <1>2, <1>3, <1>4, <1>5, <1>7, <1>8, <1>9, <1>10, <1>11, MessageKeeps

LEMMA DelegatorWithdrawKeeps ==
  ASSUME VoteInv, NEW v \in Users, NEW u \in Users, NEW amount \in Amounts,
         DelegatorWithdraw(v, u, amount)
  PROVE  VoteInv'
PROOF
<1> DEFINE i == InterestSince(u)
<1>1. /\ Books /\ Backed /\ NoRecord
      /\ i \in Nat /\ amount \in Nat /\ amount # 0 /\ amount \in Int /\ -amount \in Int
      /\ stake[u] \in Nat /\ wallet[u] \in Nat /\ interest[u] \in Nat
      /\ toOthers[u] = SumFunction(To(u)) /\ toOthers[u] <= stake[u] /\ toOthers[u] \in Int
  BY AtRest, AmountNat
<1>0. stake \in [Users -> Int] /\ toOthers \in [Users -> Int]
  <2>1. stake \in [Users -> Nat] /\ toOthers \in [Users -> Int]
    BY <1>1 DEF Books
  <2>2. QED BY <2>1
<1>2. /\ delegation[<<v, u>>] >= amount /\ delegation[<<v, u>>] \in Nat
      /\ wallet' = [wallet EXCEPT ![u] = @ + amount]
      /\ ChangeStake(u, -amount)
      /\ changedAt' = [changedAt EXCEPT ![u] = today]
      /\ delegation' = [delegation EXCEPT ![<<v, u>>] = @ + (-amount)]
      /\ toOthers' = [toOthers EXCEPT ![u] = @ + (-amount)]
      /\ delegated' = [delegated EXCEPT ![v] = @ + (-amount)]
      /\ UNCHANGED <<voters, today, donated>>
  BY <1>1 DEF DelegatorWithdraw, Books
<1>3. stake' = [stake EXCEPT ![u] = @ + (-amount)] /\ interest' = [interest EXCEPT ![u] = @ + i]
  BY <1>2 DEF ChangeStake
<1> HIDE DEF i
<1>4. Moves(u, -amount)
  BY <1>1, <1>2, OneChanged, ChangeMoves
<1>5. delegated' \in [Users -> Int] /\ toOthers' \in [Users -> Int]
  <2>1. delegated \in [Users -> Int] /\ toOthers \in [Users -> Int]
    BY <1>1 DEF Books
  <2>2. QED BY <1>1, <1>2, <2>1, AddedTo
<1>6. delegation[<<v, u>>] + (-amount) \in Nat
  BY <1>1, <1>2
<1>7. /\ delegation' \in [Users \X Users -> Nat]
      /\ \A w \in Users :
           /\ SumFunction(To(w)) \in Nat
           /\ SumFunction(To(w))' = SumFunction(To(w)) + IF w = u THEN -amount ELSE 0
      /\ delegation[<<v, u>>] <= SumFunction(To(u))
  <2>1. Books /\ -amount \in Int /\ Delegates(v, u, -amount) /\ v \in Users
    BY <1>1, <1>2, <1>6 DEF Delegates
  <2>2. Shifts(v, u, -amount)
    BY <2>1, DelegationMoves
  <2>3. QED BY <2>2 DEF Shifts
<1>8. Backed'
  <2>1. ASSUME NEW w \in Users
        PROVE  toOthers'[w] = SumFunction(To(w))' /\ toOthers'[w] <= stake'[w]
    <3>0. stake \in [Users -> Int] /\ toOthers \in [Users -> Int]
      BY <1>0
    <3>1. /\ toOthers[w] = SumFunction(To(w)) /\ toOthers[w] <= stake[w]
          /\ toOthers[w] \in Int /\ stake[w] \in Int
      BY <1>1, <3>0 DEF Backed
    <3>2. /\ toOthers'[w] = toOthers[w] + IF w = u THEN -amount ELSE 0
          /\ stake'[w] = stake[w] + IF w = u THEN -amount ELSE 0
      BY <1>1, <1>2, <1>3, <3>0, AddedTo
    <3>3. PICK c \in Int : c = IF w = u THEN -amount ELSE 0
      BY <1>1
    <3>4. QED BY <1>7, <3>1, <3>2, <3>3
  <2>2. QED BY <2>1 DEF Backed
<1>9. amount <= stake[u] /\ u \in voters
  <2>1. amount <= stake[u]
    BY <1>1, <1>2, <1>7
  <2>2. stake[u] # 0
    BY <1>1, <2>1
  <2>3. QED BY <2>1, <2>2, <1>1 DEF NoRecord
<1>10. /\ stake[u] + (-amount) \in Nat /\ wallet[u] + amount \in Nat /\ interest[u] + i \in Nat
       /\ amount + (-amount) + i = i
  BY <1>1, <1>9
<1>11. /\ voters' \subseteq Users /\ voters \subseteq voters' /\ u \in voters'
       /\ donated' = donated
  BY <1>1, <1>2, <1>9 DEF Books
<1>12. i = InterestSince(u) /\ i \in Int
  BY <1>1 DEF i
<1>13. QED BY <1>1, <1>2, <1>3, <1>4, <1>5, <1>7, <1>8, <1>10, <1>11, <1>12, MessageKeeps
------------------------------------------------------------------------------
(****************************************************************************)
(* What x/global does.                                                      *)
(****************************************************************************)
LEMMA AddBoth ==
  ASSUME NEW w \in Int, NEW x \in Int, NEW i \in Int, NEW f \in Int, NEW k \in Int,
         NEW g \in Int, NEW n \in Int, NEW a \in Int, w + x + i + f = k + g + n
  PROVE  w + x + i + (f + a) = k + g + (n + a)
PROOF OBVIOUS

LEMMA AddFrictionKeeps ==
  ASSUME VoteInv, NEW friction \in Frictions, AddFriction(friction)
  PROVE  VoteInv'
PROOF
<1>1. /\ Books /\ NoRecord /\ PastStake /\ TodayStake /\ TodayFriction /\ Backed /\ Drift
      /\ CoinsConserved
  BY DEF VoteInv
<1>2. /\ friction \in Nat /\ donated' = donated + friction
      /\ stat' = [stat EXCEPT ![today].totalFriction = @ + friction,
                              ![today].unclaimedFriction = @ + friction]
      /\ UNCHANGED <<voters, stake, delegated, toOthers, interest, changedAt,
                     delegation, today, wallet>>
  BY VoteAssumption DEF AddFriction
<1>3. today \in Nat /\ stat \in [0 .. today -> Stats] /\ donated \in Nat
  BY <1>1 DEF Books
<1>4. PICK s \in Stats : s = stat[today]
  BY <1>3
<1>5. /\ stat'[today] = [s EXCEPT !.totalFriction = @ + friction,
                                  !.unclaimedFriction = @ + friction]
      /\ \A d \in 0 .. today - 1 : stat'[d] = stat[d]
      /\ stat' = [d \in 0 .. today |-> stat'[d]]
  <2>1. today \in 0 .. today /\ \A d \in 0 .. today - 1 : d # today /\ d \in 0 .. today
    BY <1>3
  <2>2. DOMAIN stat = 0 .. today
    BY <1>3
  <2>3. QED BY <1>2, <1>4, <2>1, <2>2
<1>6. /\ stat'[today].totalFriction = s.totalFriction + friction
      /\ stat'[today].unclaimedFriction = s.unclaimedFriction + friction
      /\ stat'[today].totalStake = s.totalStake /\ stat'[today].unclaimedStake = s.unclaimedStake
      /\ stat'[today] \in Stats
  <2>1. s.totalFriction \in Nat /\ s.unclaimedFriction \in Nat
    BY <1>4 DEF Stats
  <2>2. PICK a \in Nat, b \in Nat :
          a = s.totalFriction + friction /\ b = s.unclaimedFriction + friction
    BY <1>2, <2>1
  <2>3. stat'[today] = [s EXCEPT !.totalFriction = a, !.unclaimedFriction = b]
    BY <1>5, <2>2
  <2> DEFINE t == [s EXCEPT !.totalFriction = a, !.unclaimedFriction = b]
  <2>4. /\ t.totalFriction = a /\ t.unclaimedFriction = b /\ t \in Stats
        /\ t.totalStake = s.totalStake /\ t.unclaimedStake = s.unclaimedStake
    BY <1>4, <2>2 DEF Stats
  <2> HIDE DEF t
  <2>5. stat'[today] = t
    BY <2>3 DEF t
  <2>6. QED BY <2>2, <2>4, <2>5
<1>7. stat' \in [0 .. today -> Stats]
  <2>1. ASSUME NEW d \in 0 .. today PROVE stat'[d] \in Stats
    <3>1. d = today \/ d \in 0 .. today - 1
      BY <1>3
    <3>2. QED BY <1>3, <1>5, <1>6, <3>1
  <2>2. QED BY <1>5, <2>1
<1>8. Books'
  BY <1>1, <1>2, <1>3, <1>7 DEF Books
<1>9. NoRecord'
  BY <1>1, <1>2 DEF NoRecord
<1>10. PastStake'
  <2>1. \A d \in 0 .. today - 1 : Weight(d)' = Weight(d)
    BY <1>2 DEF Weight
  <2>2. QED BY <1>1, <1>2, <1>5, <2>1 DEF PastStake
<1>11. TodayStake' /\ TodayFriction'
  BY <1>1, <1>2, <1>4, <1>6 DEF TodayStake, TodayFriction
<1>12. Backed'
  BY <1>1, <1>2, BackedStays DEF Backed
<1>13. Drift'
  <2>1. \A d \in 0 .. today - 1 : Settlers(d)' = Settlers(d)
    BY <1>2 DEF Settlers
  <2>2. QED BY <1>1, <1>2, <1>5, <2>1 DEF Drift
<1>14. FrictionDue' = FrictionDue + friction /\ FrictionDue \in Int
  <2> DEFINE S == 0 .. today
             f == AllOwed
             g == AllOwed'
  <2>1. f \in [S -> Nat] /\ FrictionDue = SumFunction(f) /\ IsFiniteSet(S)
    BY <1>1, DueIs DEF DueSummed
  <2>2. g \in [S -> Nat] /\ FrictionDue' = SumFunction(g)
    <3>1. DueSummed'
      BY <1>8, DueIs, PTL
    <3>2. QED BY <1>2, <3>1 DEF DueSummed
  <2>3. \A d \in S : d # today => g[d] = f[d]
    <3>1. ASSUME NEW d \in S, d # today PROVE g[d] = f[d]
      <4>1. d \in 0 .. today - 1
        BY <1>3, <3>1
      <4>2. stat'[d] = stat[d]
        BY <1>5, <4>1
      <4>3. f[d] = Owed(d) /\ g[d] = Owed(d)'
        BY <1>2 DEF AllOwed
      <4>4. today' = today
        BY <1>2
      <4>5. Owed(d)' = Owed(d)
        BY <4>2, <4>4 DEF Owed
      <4>6. QED BY <4>3, <4>5
    <3>2. QED BY <3>1
  <2>4. g[today] = f[today] + friction /\ today \in S
    BY <1>2, <1>3, <1>4, <1>6 DEF AllOwed, Owed
  <2> HIDE DEF S, f, g
  <2>5. /\ f \in [S -> Int] /\ g \in [S -> Int] /\ f[today] \in Int
    BY <2>1, <2>2, <2>4
  <2>6. SumFunction(g) = SumFunction(f) + (g[today] - f[today]) /\ SumFunction(f) \in Int
    BY <2>1, <2>3, <2>4, <2>5, SumChanges
  <2>7. QED BY <1>2, <2>1, <2>2, <2>4, <2>5, <2>6
<1>15. CoinsConserved'
  <2>1. SumFunction(wallet) \in Int /\ SumFunction(stake) \in Int /\ SumFunction(interest) \in Int
    <3>1. wallet \in [Users -> Int] /\ stake \in [Users -> Int] /\ interest \in [Users -> Int]
      BY <1>1 DEF Books
    <3>2. QED BY <3>1, SumTotal, VoteAssumption
  <2>2. /\ Cardinality(Users) * Funds \in Int /\ SumFunction(GenesisStake) \in Int
    <3>1. GenesisStake \in [Users -> Int] /\ Cardinality(Users) \in Nat /\ Funds \in Nat
      BY VoteAssumption, FS_CardinalityType
    <3>2. QED BY <3>1, SumTotal, VoteAssumption
  <2>3. /\ SumFunction(wallet)' = SumFunction(wallet) /\ SumFunction(stake)' = SumFunction(stake)
        /\ SumFunction(interest)' = SumFunction(interest)
    BY <1>2
  <2>4. PICK k \in Int : k = Cardinality(Users) * Funds
    BY <2>2
  <2>5. SumFunction(wallet) + SumFunction(stake) + SumFunction(interest) + FrictionDue
          = k + SumFunction(GenesisStake) + donated
    BY <1>1, <2>4 DEF CoinsConserved
  <2>6. SumFunction(wallet)' + SumFunction(stake)' + SumFunction(interest)' + FrictionDue'
          = k + SumFunction(GenesisStake) + donated'
    <3>1. donated' = donated + friction /\ friction \in Nat /\ donated \in Nat
      BY <1>2, <1>3
    <3>2. PICK g \in Int : g = SumFunction(GenesisStake)
      BY <2>2
    <3>3. PICK w \in Int, x \in Int, i \in Int, f \in Int :
            /\ w = SumFunction(wallet) /\ x = SumFunction(stake)
            /\ i = SumFunction(interest) /\ f = FrictionDue
      BY <1>14, <2>1
    <3>4. w + x + i + f = k + g + donated
      BY <2>5, <3>2, <3>3
    <3>5. w + x + i + (f + friction) = k + g + (donated + friction)
      BY <2>4, <3>1, <3>2, <3>3, <3>4, AddBoth
    <3>6. QED BY <1>14, <2>3, <3>1, <3>2, <3>3, <3>5
  <2>7. QED BY <2>4, <2>6 DEF CoinsConserved
<1>16. QED BY <1>8, <1>9, <1>10, <1>11, <1>12, <1>13, <1>15 DEF VoteInv

LEMMA NextDayKeeps ==
  ASSUME VoteInv, NextDay
  PROVE  VoteInv'
PROOF
<1> DEFINE tomorrow == today + 1
<1>1. /\ Books /\ NoRecord /\ PastStake /\ TodayStake /\ TodayFriction /\ Backed /\ Drift
      /\ CoinsConserved
  BY DEF VoteInv
<1>2. /\ today' = tomorrow
      /\ stat' = [d \in 0 .. tomorrow |-> IF d <= today THEN stat[d] ELSE Carry(stat[today])]
      /\ UNCHANGED <<voters, stake, delegated, toOthers, interest, changedAt,
                     delegation, wallet, donated>>
  BY DEF NextDay
<1>3. /\ today \in Nat /\ stat \in [0 .. today -> Stats] /\ tomorrow \in Nat
      /\ tomorrow - 1 = today /\ tomorrow # today /\ ~(tomorrow <= today)
      /\ tomorrow \in 0 .. tomorrow /\ today \in 0 .. today /\ today \in 0 .. tomorrow
      /\ \A d \in 0 .. today : d \in 0 .. tomorrow /\ d <= today
      /\ \A d \in 0 .. today : d = today \/ d \in 0 .. today - 1
  BY <1>1 DEF Books
<1>4. PICK s \in Stats : s = stat[today]
  BY <1>3
<1>5. /\ \A d \in 0 .. today : stat'[d] = stat[d]
      /\ stat'[tomorrow] = Carry(s)
  <2> HIDE DEF tomorrow
  <2>1. QED BY <1>2, <1>3, <1>4
<1>6. /\ Carry(s) \in Stats
      /\ Carry(s).totalStake = s.totalStake /\ Carry(s).unclaimedStake = s.unclaimedStake
      /\ Carry(s).totalFriction = IF s.totalStake # 0 THEN 0 ELSE s.totalFriction
      /\ Carry(s).unclaimedFriction = IF s.totalStake # 0 THEN 0 ELSE s.unclaimedFriction
  BY DEF Carry, Stats
<1>7. /\ s.unclaimedStake = SumFunction(stake) /\ s.totalStake = SumFunction(stake)
      /\ s.unclaimedFriction = s.totalFriction
  BY <1>1, <1>4 DEF TodayStake, TodayFriction
<1>8. Books'
  <2>1. stat' \in [0 .. tomorrow -> Stats]
    <3> HIDE DEF tomorrow
    <3>1. \A d \in 0 .. tomorrow : d \in 0 .. today \/ d = tomorrow
      BY <1>3 DEF tomorrow
    <3>2. \A d \in 0 .. tomorrow : stat'[d] \in Stats
      BY <1>3, <1>5, <1>6, <3>1
    <3>3. QED BY <1>2, <3>2
  <2>2. changedAt' \in [Users -> 0 .. tomorrow]
    BY <1>1, <1>2, <1>3 DEF Books
  <2>3. QED BY <1>1, <1>2, <1>3, <2>1, <2>2 DEF Books
<1>9. NoRecord' /\ Backed'
  BY <1>1, <1>2, BackedStays DEF NoRecord, Backed
<1>10. PastStake'
  <2>1. \A d \in 0 .. today : Weight(d)' = Weight(d)
    BY <1>2 DEF Weight
  <2>2. Weight(today) = stake
    <3>1. \A u \in Users : changedAt[u] <= today
      BY <1>1 DEF Books
    <3>2. stake = [u \in Users |-> stake[u]]
      BY <1>1 DEF Books
    <3>3. QED BY <3>1, <3>2 DEF Weight
  <2>3. ASSUME NEW d \in 0 .. today PROVE stat'[d].unclaimedStake = SumFunction(Weight(d))
    <3>1. CASE d = today
      BY <1>4, <1>5, <1>7, <2>2, <3>1
    <3>2. CASE d \in 0 .. today - 1
      BY <1>1, <1>5, <3>2 DEF PastStake
    <3>3. QED BY <1>3, <3>1, <3>2
  <2>4. QED BY <1>2, <1>3, <2>1, <2>3 DEF PastStake
<1>11. TodayStake' /\ TodayFriction'
  BY <1>2, <1>5, <1>6, <1>7 DEF TodayStake, TodayFriction
<1>12. Drift'
  <2>1. \A d \in 0 .. today : Settlers(d)' = Settlers(d)
    BY <1>2 DEF Settlers
  <2>2. ASSUME NEW d \in 0 .. today PROVE Near(stat[d], Cardinality(Settlers(d)))
    <3>1. CASE d = today
      <4>1. PICK n \in Nat : n = Cardinality(Settlers(d))
        <5>1. IsFiniteSet(Settlers(d))
          BY VoteAssumption, FS_Subset DEF Settlers
        <5>2. QED BY <5>1, FS_CardinalityType
      <4>2. /\ s.unclaimedFriction * s.totalStake - s.totalFriction * s.unclaimedStake = 0
            /\ s.totalStake \in Nat
        BY <1>7 DEF Stats
      <4>3. 0 <= n * s.totalStake
        BY <4>2
      <4>4. QED BY <1>4, <3>1, <4>1, <4>2, <4>3 DEF Near
    <3>2. CASE d \in 0 .. today - 1
      BY <1>1, <3>2 DEF Drift
    <3>3. QED BY <1>3, <3>1, <3>2
  <2>3. QED BY <1>2, <1>3, <1>5, <2>1, <2>2 DEF Drift
<1>13. FrictionDue' = FrictionDue
  <2> DEFINE S == 0 .. today
             T == 0 .. tomorrow
             A == 0 .. today - 1
             f == AllOwed
             g == AllOwed'
  <2>1. f \in [S -> Nat] /\ FrictionDue = SumFunction(f) /\ IsFiniteSet(S)
    BY <1>1, DueIs DEF DueSummed
  <2>2. g \in [T -> Nat] /\ FrictionDue' = SumFunction(g) /\ IsFiniteSet(T)
    <3>1. DueSummed'
      BY <1>8, DueIs, PTL
    <3>2. QED BY <1>2, <3>1 DEF DueSummed
  <2>3. /\ S = A \cup {today} /\ T = S \cup {tomorrow} /\ IsFiniteSet(A)
        /\ today \notin A /\ tomorrow \notin S
    <3>1. IsFiniteSet(A)
      BY <1>3, FS_Interval
    <3>2. QED BY <1>3, <3>1
  <2>4. \A d \in A : g[d] = f[d]
    <3>1. ASSUME NEW d \in A PROVE g[d] = f[d]
      <4>1. stat'[d] = stat[d] /\ d # today /\ d # tomorrow /\ d \in S /\ d \in T
        BY <1>3, <1>5
      <4>2. QED BY <1>2, <4>1 DEF AllOwed, Owed
    <3>2. QED BY <3>1
  <2>5. g[tomorrow] + g[today] = f[today]
    <3>1. f[today] = s.unclaimedFriction
      BY <1>3, <1>4 DEF AllOwed, Owed
    <3>2. g[today] = IF s.unclaimedStake # 0 THEN s.unclaimedFriction ELSE 0
      BY <1>2, <1>3, <1>4, <1>5 DEF AllOwed, Owed
    <3>3. g[tomorrow] = IF s.totalStake # 0 THEN 0 ELSE s.unclaimedFriction
      BY <1>2, <1>3, <1>5, <1>6 DEF AllOwed, Owed
    <3>4. s.unclaimedFriction \in Nat /\ s.unclaimedStake = s.totalStake
      BY <1>7 DEF Stats
    <3>5. QED BY <3>1, <3>2, <3>3, <3>4
  <2> HIDE DEF S, T, A, f, g, tomorrow
  <2>6. /\ \A d \in S : f[d] \in Int /\ g[d] \in Int
        /\ \A d \in T : g[d] \in Int
    BY <2>1, <2>2, <2>3
  <2>7. /\ SumFunctionOnSet(f, S) = f[today] + SumFunctionOnSet(f, A)
        /\ SumFunctionOnSet(g, S) = g[today] + SumFunctionOnSet(g, A)
        /\ SumFunctionOnSet(g, T) = g[tomorrow] + SumFunctionOnSet(g, S)
    BY <2>1, <2>3, <2>6, SumAdds
  <2>8. SumFunctionOnSet(g, A) = SumFunctionOnSet(f, A) /\ SumFunctionOnSet(f, A) \in Int
    BY <2>3, <2>4, <2>6, SumSame, SumTakes
  <2>9. SumFunction(f) = SumFunctionOnSet(f, S) /\ SumFunction(g) = SumFunctionOnSet(g, T)
    <3>1. f \in [S -> Int] /\ g \in [T -> Int]
      BY <2>1, <2>2
    <3>2. QED BY <2>1, <2>2, <3>1, SumTotal
  <2>10. f[today] \in Int /\ g[today] \in Int /\ g[tomorrow] \in Int
    BY <2>3, <2>6
  <2>11. QED BY <2>1, <2>2, <2>5, <2>7, <2>8, <2>9, <2>10
<1>14. CoinsConserved'
  <2>1. /\ SumFunction(wallet)' = SumFunction(wallet) /\ SumFunction(stake)' = SumFunction(stake)
        /\ SumFunction(interest)' = SumFunction(interest) /\ donated' = donated
    BY <1>2
  <2>2. QED BY <1>1, <1>13, <2>1 DEF CoinsConserved
<1>15. QED BY <1>8, <1>9, <1>10, <1>11, <1>12, <1>14 DEF VoteInv
------------------------------------------------------------------------------
(****************************************************************************)
(* The theorems.                                                            *)
(****************************************************************************)
LEMMA VoteInvInit == VoteInit => VoteInv
PROOF
<1> SUFFICES ASSUME VoteInit PROVE VoteInv
  OBVIOUS
<1>1. /\ voters = {u \in Users : GenesisStake[u] > 0} /\ stake = GenesisStake
      /\ delegated = [u \in Users |-> 0] /\ toOthers = [u \in Users |-> 0]
      /\ interest = [u \in Users |-> 0] /\ changedAt = [u \in Users |-> 0]
      /\ delegation = [p \in Users \X Users |-> 0]
      /\ today = 0 /\ wallet = [u \in Users |-> Funds] /\ donated = 0
      /\ stat = [d \in {0} |->
           [totalFriction |-> 0, unclaimedFriction |-> 0,
            totalStake |-> SumFunction(GenesisStake),
            unclaimedStake |-> SumFunction(GenesisStake)]]
  BY DEF VoteInit
<1>2. GenesisStake \in [Users -> Nat] /\ Funds \in Nat /\ IsFiniteSet(Users)
  BY VoteAssumption
<1>3. SumFunction(GenesisStake) \in Nat
  BY <1>2, SumCounts
<1>4. 0 .. 0 = {0} /\ 0 .. today - 1 = {} /\ \A d \in 0 .. today : d = 0
  BY <1>1
<1>5. /\ stat[0] \in Stats /\ stat \in [0 .. today -> Stats]
      /\ stat[0].totalFriction = 0 /\ stat[0].unclaimedFriction = 0
      /\ stat[0].totalStake = SumFunction(GenesisStake)
      /\ stat[0].unclaimedStake = SumFunction(GenesisStake)
  BY <1>1, <1>3, <1>4 DEF Stats
<1>6. Books
  BY <1>1, <1>2, <1>5 DEF Books
<1>7. NoRecord
  BY <1>1, <1>2 DEF NoRecord
<1>8. PastStake /\ Drift
  BY <1>4 DEF PastStake, Drift
<1>9. TodayStake /\ TodayFriction
  BY <1>1, <1>5 DEF TodayStake, TodayFriction
<1>10. Backed
  <2>1. ASSUME NEW u \in Users
        PROVE  toOthers[u] = SumFunction(To(u)) /\ toOthers[u] <= stake[u]
    <3> DEFINE f == To(u)
    <3>1. f \in [Users -> Int] /\ \A v \in Users : f[v] = 0
      BY <1>1 DEF To
    <3> HIDE DEF f
    <3>2. SumFunction(f) = 0
      BY <1>2, <3>1, SumTotal, SumZero
    <3>3. toOthers[u] = 0 /\ stake[u] \in Nat
      BY <1>1, <1>2
    <3>4. QED BY <3>2, <3>3 DEF f
  <2>2. QED BY <2>1 DEF Backed
<1>11. CoinsConserved
  <2>1. SumFunction(interest) = 0
    <3>1. interest \in [Users -> Int] /\ \A v \in Users : interest[v] = 0
      BY <1>1
    <3>2. QED BY <1>2, <3>1, SumTotal, SumZero
  <2>2. FrictionDue = 0
    <3> DEFINE S == 0 .. today
    <3>1. /\ AllOwed \in [S -> Nat] /\ FrictionDue = SumFunction(AllOwed) /\ IsFiniteSet(S)
      BY <1>6, DueIs DEF DueSummed
    <3>2. \A d \in S : AllOwed[d] = 0
      BY <1>1, <1>4, <1>5 DEF AllOwed, Owed
    <3> HIDE DEF S
    <3>3. AllOwed \in [S -> Int]
      BY <3>1
    <3>4. QED BY <3>1, <3>2, <3>3, SumTotal, SumZero
  <2>3. SumFunction(wallet) = Cardinality(Users) * Funds
    <3> DEFINE f == wallet
    <3>1. f \in [Users -> Int] /\ \A v \in Users : f[v] = Funds
      BY <1>1, <1>2
    <3> HIDE DEF f
    <3>2. SumFunction(f) = Cardinality(Users) * Funds
      BY <1>2, <3>1, SumConstant
    <3>3. QED BY <3>2 DEF f
  <2>4. Cardinality(Users) * Funds \in Int
    BY <1>2, FS_CardinalityType
  <2>5. PICK k \in Int : k = Cardinality(Users) * Funds
    BY <2>4
  <2>6. QED BY <1>1, <1>3, <2>1, <2>2, <2>3, <2>5 DEF CoinsConserved
<1>12. QED BY <1>6, <1>7, <1>8, <1>9, <1>10, <1>11 DEF VoteInv

LEMMA VoteInvNext == VoteInv /\ [VoteNext]_voteVars => VoteInv'
PROOF
<1> SUFFICES ASSUME VoteInv, [VoteNext]_voteVars PROVE VoteInv'
  OBVIOUS
<1>1. ASSUME NEW u \in Users, ClaimInterest(u) PROVE VoteInv'
  BY <1>1, ClaimInterestKeeps
<1>2. ASSUME NEW u \in Users, NEW amount \in Amounts, StakeIn(u, amount) PROVE VoteInv'
  BY <1>2, StakeInKeeps
<1>3. ASSUME NEW u \in Users, NEW amount \in Amounts, StakeOut(u, amount) PROVE VoteInv'
  BY <1>3, StakeOutKeeps
<1>4. ASSUME NEW v \in Users, NEW u \in Users, NEW amount \in Amounts,
             Delegate(v, u, amount)
      PROVE  VoteInv'
  BY <1>4, DelegateKeeps
<1>5. ASSUME NEW v \in Users, NEW u \in Users, NEW amount \in Amounts,
             DelegatorWithdraw(v, u, amount)
      PROVE  VoteInv'
  BY <1>5, DelegatorWithdrawKeeps
<1>6. ASSUME NEW friction \in Frictions, AddFriction(friction) PROVE VoteInv'
  BY <1>6, AddFrictionKeeps
<1>7. CASE NextDay
  BY <1>7, NextDayKeeps
<1>8. CASE UNCHANGED <<voters, stake, delegated, toOthers, interest, changedAt,
                       delegation, stat, today, wallet, donated>>
  BY <1>8 DEF VoteInv, Books, NoRecord, PastStake, Weight, TodayStake,
              TodayFriction, Backed, To, Drift, Settlers, CoinsConserved, FrictionDue
<1>9. ASSUME NEW u \in Users, BecomeValidator(u) \/ LeaveValidators(u) PROVE VoteInv'
  BY <1>8, <1>9 DEF BecomeValidator, LeaveValidators
<1>10. CASE SyncInfoWithVoteManager
  BY <1>8, <1>10 DEF SyncInfoWithVoteManager
<1>11. CASE UNCHANGED voteVars
  BY <1>8, <1>11 DEF voteVars
<1>12. QED
  BY <1>1, <1>2, <1>3, <1>4, <1>5, <1>6, <1>7, <1>9, <1>10, <1>11
  DEF VoteNext, Transactions

(* No handler and no new day breaks the books of stake and interest.        *)
THEOREM VoteInvariance == VoteSpec => []VoteInv
PROOF BY VoteInvInit, VoteInvNext, PTL DEF VoteSpec

(* GetInterestSince: a day still has to pay exactly those who have not      *)
(* settled it, whatever the order of claims, stakes and delegations.        *)
THEOREM DaysArePaidOnce == VoteSpec => []StakeToPay
PROOF
<1>1. VoteInv => StakeToPay
  <2> SUFFICES ASSUME VoteInv PROVE StakeToPay
    OBVIOUS
  <2>1. Books /\ PastStake /\ TodayStake
    BY DEF VoteInv
  <2>2. ASSUME NEW d \in 0 .. today - 1 PROVE stat[d].unclaimedStake = UnsettledStake(d)
    BY <2>1, WeightIs DEF PastStake
  <2>3. QED BY <2>1, <2>2 DEF StakeToPay, TodayStake
<1>2. QED BY <1>1, VoteInvariance, PTL

(* Rounding neither makes nor loses coins, however many users claim.        *)
THEOREM InterestConserves == VoteSpec => []CoinsConserved
PROOF
<1>1. VoteInv => CoinsConserved
  BY DEF VoteInv
<1>2. QED BY <1>1, VoteInvariance, PTL

(* What a claim brings is the pro rata share of the day but for half a coin *)
(* a user, in whatever order the days are claimed.                          *)
THEOREM SharesAreFair == VoteSpec => []FairShare
PROOF
<1>1. VoteInv => FairShare
  <2> SUFFICES ASSUME VoteInv, NEW u \in voters, NEW d \in Days(u)
               PROVE  LET due == stat[d].totalFriction * stake[u]
                          got == Share(u, d) * stat[d].totalStake
                          off == IF due > got THEN due - got ELSE got - due
                      IN 2 * off <= Cardinality(Users) * stat[d].totalStake
    BY DEF FairShare
  <2>1. Books /\ PastStake /\ Drift /\ u \in Users
    BY DEF VoteInv, Books
  <2>2. d \in 0 .. today - 1 /\ changedAt[u] <= d /\ stat[d] \in Stats /\ stake[u] \in Nat
    BY <2>1 DEF Days, Books
  <2>3. PICK n \in Nat, s \in Nat : n = Cardinality(Settlers(d)) /\ s = Share(u, d)
    BY <2>1, <2>2, SettledDay
  <2> DEFINE T == stat[d].totalStake
             due == stat[d].totalFriction * stake[u]
             got == s * T
  <2>4. 2 * (got - due) <= (n + 1) * T /\ 2 * (due - got) <= (n + 1) * T
    BY <2>1, <2>2, <2>3, SettledDay
  <2>5. PICK m \in Nat : m = Cardinality(Users) /\ n + 1 <= m
    <3>1. u \notin Settlers(d) /\ Settlers(d) \subseteq Users \ {u}
      BY <2>1, <2>2 DEF Settlers, Books
    <3>2. IsFiniteSet(Users \ {u}) /\ Cardinality(Users \ {u}) = Cardinality(Users) - 1
      BY <2>1, VoteAssumption, FS_RemoveElement
    <3>3. n <= Cardinality(Users \ {u}) /\ Cardinality(Users) \in Nat
      BY <2>3, <3>1, <3>2, VoteAssumption, FS_Subset, FS_CardinalityType
    <3>4. QED BY <3>2, <3>3
  <2>6. T \in Nat /\ due \in Int /\ got \in Int
    BY <2>2, <2>3 DEF Stats
  <2>7. (n + 1) * T <= m * T /\ (n + 1) * T \in Int /\ m * T \in Int
    <3> HIDE DEF T
    <3>1. QED BY <2>5, <2>6, SMT
  <2>8. 2 * (IF due > got THEN due - got ELSE got - due) <= m * T
    <3> DEFINE a == (n + 1) * T
               b == m * T
    <3>1. /\ 2 * (got - due) <= a /\ 2 * (due - got) <= a /\ a <= b
          /\ a \in Int /\ b \in Int /\ due \in Int /\ got \in Int
      BY <2>4, <2>6, <2>7
    <3> HIDE DEF a, b, due, got
    <3>2. 2 * (IF due > got THEN due - got ELSE got - due) <= b
      BY <3>1
    <3>3. QED BY <3>2 DEF b
  <2>9. QED BY <2>3, <2>5, <2>8
<1>2. QED BY <1>1, VoteInvariance, PTL
------------------------------------------------------------------------------
(****************************************************************************)
(* The credit of a delegation.  What a user delegates to himself is in his  *)
(* row of delegations and not in the power credited to him, and stays out   *)
(* of it for good: a withdrawal takes from both.                            *)
(****************************************************************************)
Membership ==
  /\ bonded \subseteq voters /\ validators \subseteq voters
  /\ toSelf \in [Users -> 0 .. MaxToSelf]

Credited == \A v \in Users : delegated[v] + toSelf[v] = SumFunction(From(v))

CreditInv == Membership /\ Credited

LEMMA MembershipNext == Books /\ Membership /\ [VoteNext]_voteVars => Membership'
PROOF
<1> SUFFICES ASSUME Books, Membership, [VoteNext]_voteVars PROVE Membership'
  OBVIOUS
<1> USE DEF Membership
<1>1. CASE UNCHANGED <<voters, bonded, validators, toSelf>>
  BY <1>1
<1>2. ASSUME NEW u \in Users, NEW amount \in Amounts, StakeIn(u, amount)
      PROVE  Membership'
  BY <1>2 DEF StakeIn
<1>3. ASSUME NEW v \in Users, NEW u \in Users, NEW amount \in Amounts,
             Delegate(v, u, amount)
      PROVE  Membership'
  <2>1. toSelf[u] \in 0 .. MaxToSelf /\ amount \in Nat /\ MaxToSelf \in Nat
    BY AmountNat, VoteAssumption
  <2>2. v = u => toSelf[u] + amount \in 0 .. MaxToSelf
    BY <1>3, <2>1 DEF Delegate
  <2>3. toSelf' \in [Users -> 0 .. MaxToSelf]
    BY <1>3, <2>2 DEF Delegate
  <2>4. bonded' \subseteq voters' /\ validators' \subseteq voters'
    BY <1>3 DEF Delegate
  <2>5. QED BY <2>3, <2>4
<1>4. ASSUME NEW u \in Users, BecomeValidator(u) \/ LeaveValidators(u)
      PROVE  Membership'
  BY <1>4 DEF BecomeValidator, LeaveValidators
<1>5. CASE SyncInfoWithVoteManager
  BY <1>5 DEF SyncInfoWithVoteManager
<1>6. QED
  BY <1>1, <1>2, <1>3, <1>4, <1>5
  DEF VoteNext, Transactions, ClaimInterest, StakeOut, DelegatorWithdraw, AddFriction,
      NextDay, voteVars

LEMMA CreditedStays ==
  ASSUME Credited, UNCHANGED <<delegated, delegation, toSelf>>
  PROVE  Credited'
PROOF
<1>1. \A v \in Users : From(v)' = From(v)
  BY DEF From
<1>2. QED BY <1>1 DEF Credited

(* Both sums of the voter move by the same amount.                          *)
LEMMA CreditMoves ==
  ASSUME Books, Membership, Credited,
         NEW v \in Users, NEW u \in Users, NEW amount \in Int,
         Delegates(v, u, amount),
         delegated' \in [Users -> Int], toSelf' \in [Users -> Int],
         \A w \in Users : delegated'[w] + toSelf'[w]
                         = delegated[w] + toSelf[w] + IF w = v THEN amount ELSE 0
  PROVE  Credited'
PROOF
<1>1. Shifts(v, u, amount)
  BY DelegationMoves
<1>2. ASSUME NEW w \in Users PROVE delegated'[w] + toSelf'[w] = SumFunction(From(w))'
  <2>1. delegated[w] + toSelf[w] = SumFunction(From(w))
    BY DEF Credited
  <2>2. SumFunction(From(w))' = SumFunction(From(w)) + IF w = v THEN amount ELSE 0
    BY <1>1 DEF Shifts
  <2>3. QED BY <2>1, <2>2
<1>3. QED BY <1>2 DEF Credited

LEMMA CreditedNext ==
  VoteInv /\ Membership /\ Credited /\ [VoteNext]_voteVars => Credited'
PROOF
<1> SUFFICES ASSUME VoteInv, Membership, Credited, [VoteNext]_voteVars PROVE Credited'
  OBVIOUS
<1>0. /\ Books /\ delegated \in [Users -> Int] /\ toSelf \in [Users -> Int]
      /\ toSelf \in [Users -> 0 .. MaxToSelf]
  <2>1. /\ Books /\ delegated \in [Users -> Int] /\ toSelf \in [Users -> 0 .. MaxToSelf]
        /\ 0 .. MaxToSelf \subseteq Int
    BY DEF VoteInv, Books, Membership
  <2>2. QED BY <2>1
<1>1. CASE UNCHANGED <<delegated, delegation, toSelf>>
  BY <1>1, CreditedStays
<1>2. ASSUME NEW v \in Users, NEW u \in Users, NEW amount \in Amounts,
             Delegate(v, u, amount)
      PROVE  Credited'
  <2>1. /\ delegation' = [delegation EXCEPT ![<<v, u>>] = @ + amount]
        /\ delegated' = IF v = u THEN delegated ELSE [delegated EXCEPT ![v] = @ + amount]
        /\ toSelf' = IF v = u THEN [toSelf EXCEPT ![u] = @ + amount] ELSE toSelf
    BY <1>2 DEF Delegate, AddDelegation
  <2>2. delegation[<<v, u>>] + amount \in Nat /\ amount \in Int
    <3>1. delegation[<<v, u>>] \in Nat
      BY <1>0 DEF Books
    <3>2. QED BY <3>1, AmountNat
  <2>3. Delegates(v, u, amount)
    BY <2>1, <2>2 DEF Delegates
  <2>4. /\ delegated' \in [Users -> Int] /\ toSelf' \in [Users -> Int]
        /\ \A w \in Users : delegated'[w] + toSelf'[w]
                            = delegated[w] + toSelf[w] + IF w = v THEN amount ELSE 0
    <3>1. CASE v = u
      <4>1. /\ toSelf' \in [Users -> Int]
            /\ \A w \in Users : toSelf'[w] = toSelf[w] + IF w = v THEN amount ELSE 0
        BY <1>0, <2>1, <2>2, <3>1, AddedTo
      <4>2. \A w \in Users : delegated'[w] \in Int /\ toSelf[w] \in Int
                            /\ delegated'[w] = delegated[w]
        BY <1>0, <2>1, <3>1
      <4>3. QED BY <1>0, <2>1, <2>2, <3>1, <4>1, <4>2
    <3>2. CASE v # u
      <4>1. /\ delegated' \in [Users -> Int]
            /\ \A w \in Users : delegated'[w] = delegated[w] + IF w = v THEN amount ELSE 0
        BY <1>0, <2>1, <2>2, <3>2, AddedTo
      <4>2. \A w \in Users : delegated[w] \in Int /\ toSelf[w] \in Int
                            /\ toSelf'[w] = toSelf[w]
        BY <1>0, <2>1, <3>2
      <4>3. QED BY <1>0, <2>1, <2>2, <3>2, <4>1, <4>2
    <3>3. QED BY <3>1, <3>2
  <2>5. QED BY <1>0, <2>2, <2>3, <2>4, CreditMoves
<1>3. ASSUME NEW v \in Users, NEW u \in Users, NEW amount \in Amounts,
             DelegatorWithdraw(v, u, amount)
      PROVE  Credited'
  <2>1. /\ amount \in Nat /\ -amount \in Int
        /\ delegation[<<v, u>>] \in Nat /\ delegation[<<v, u>>] >= amount
    BY <1>0, <1>3, AmountNat DEF Books, DelegatorWithdraw
  <2>2. delegation[<<v, u>>] - amount = delegation[<<v, u>>] + (-amount)
    BY <2>1
  <2>3. delegated[v] \in Int /\ delegated[v] - amount = delegated[v] + (-amount)
    BY <1>0, <2>1
  <2>4. /\ delegation' = [delegation EXCEPT ![<<v, u>>] = @ + (-amount)]
        /\ delegated' = [delegated EXCEPT ![v] = @ + (-amount)]
        /\ toSelf' = toSelf
    BY <1>3, <2>2, <2>3 DEF DelegatorWithdraw
  <2>5. Delegates(v, u, -amount)
    BY <2>1, <2>4 DEF Delegates
  <2>6. /\ delegated' \in [Users -> Int]
        /\ \A w \in Users : delegated'[w] = delegated[w] + IF w = v THEN -amount ELSE 0
    BY <1>0, <2>1, <2>4, AddedTo
  <2>7. \A w \in Users : delegated'[w] + toSelf'[w]
                        = delegated[w] + toSelf[w] + IF w = v THEN -amount ELSE 0
    <3>1. \A w \in Users : delegated[w] \in Int /\ toSelf[w] \in Int /\ toSelf'[w] = toSelf[w]
      BY <1>0, <2>4
    <3>2. QED BY <2>1, <2>6, <3>1
  <2>8. QED BY <1>0, <2>1, <2>4, <2>5, <2>6, <2>7, CreditMoves
<1>4. QED
  BY <1>1, <1>2, <1>3
  DEF VoteNext, Transactions, ClaimInterest, StakeIn, StakeOut, BecomeValidator,
      LeaveValidators, SyncInfoWithVoteManager, AddFriction, NextDay, voteVars

LEMMA CreditInvInit == VoteInit => CreditInv
PROOF
<1> SUFFICES ASSUME VoteInit PROVE CreditInv
  OBVIOUS
<1>1. Membership
  BY VoteAssumption DEF VoteInit, Membership
<1>2. ASSUME NEW v \in Users PROVE delegated[v] + toSelf[v] = SumFunction(From(v))
  <2> DEFINE f == From(v)
  <2>1. f \in [Users -> Int] /\ \A u \in Users : f[u] = 0
    BY DEF VoteInit, From
  <2> HIDE DEF f
  <2>2. SumFunction(f) = 0
    BY <2>1, SumTotal, SumZero, VoteAssumption
  <2>3. delegated[v] = 0 /\ toSelf[v] = 0
    BY DEF VoteInit
  <2>4. QED BY <2>2, <2>3 DEF f
<1>3. QED BY <1>1, <1>2 DEF Credited, CreditInv

(* Nor the credit of delegations, to oneself or to others.                  *)
THEOREM CreditInvariance == VoteSpec => [](VoteInv /\ CreditInv)
PROOF
<1>1. VoteInv /\ CreditInv /\ [VoteNext]_voteVars => CreditInv'
  BY MembershipNext, CreditedNext DEF CreditInv, VoteInv
<1>2. QED BY <1>1, CreditInvInit, VoteInvariance, PTL DEF VoteSpec

(* AddDelegation and its withdrawal, whoever delegates to whom: the power   *)
(* charged to a delegator is the sum of his delegations, with stake behind  *)
(* it, and the power credited to a voter falls short of his by what he has  *)
(* ever delegated to himself.                                               *)
THEOREM DelegationsKept == VoteSpec => []DelegationsAgree
PROOF
<1>1. VoteInv /\ CreditInv => DelegationsAgree
  BY DEF VoteInv, CreditInv, Credited, Backed, DelegationsAgree, Received, To, From
<1>2. QED BY <1>1, CreditInvariance, PTL

(* No subtraction of the handlers or of GetInterestSince goes below zero,   *)
(* but that of the power credited to who delegated to himself, by no more   *)
(* than what he delegated so.                                               *)
THEOREM VoteTypes == VoteSpec => []VoteTypeOK
PROOF
<1>1. VoteInv /\ CreditInv => VoteTypeOK
  <2> SUFFICES ASSUME VoteInv, CreditInv PROVE VoteTypeOK
    OBVIOUS
  <2>1. Books /\ Membership
    BY DEF VoteInv, CreditInv
  <2>2. ASSUME NEW u \in Users PROVE toOthers[u] \in Nat
    BY <2>1, AtRest
  <2>3. toOthers \in [Users -> Nat]
    BY <2>1, <2>2 DEF Books
  <2>4. ASSUME NEW u \in Users PROVE delegated[u] >= -toSelf[u]
    <3>1. delegated[u] \in Int /\ toSelf[u] \in Nat
      BY <2>1 DEF Books, Membership
    <3>2. delegated[u] + toSelf[u] = SumFunction(From(u)) /\ SumFunction(From(u)) \in Nat
      BY <2>1, ToNat DEF CreditInv, Credited
    <3>3. QED BY <3>1, <3>2
  <2>5. QED BY <2>1, <2>3, <2>4 DEF Books, Membership, VoteTypeOK
<1>2. QED BY <1>1, CreditInvariance, PTL

(* StakeOut is refused to validators, and what they delegate and withdraw   *)
(* moves their stake and their charge together.                             *)
THEOREM ValidatorsStaked == VoteSpec => ValidatorsKeepStake
PROOF
<1> DEFINE Step == \A u \in validators : Undelegated(u)' >= Undelegated(u)
<1>1. ASSUME VoteInv, CreditInv, [VoteNext]_voteVars PROVE [Step]_voteVars
  <2> SUFFICES ASSUME NEW w \in validators
               PROVE  Undelegated(w)' >= Undelegated(w)
    OBVIOUS
  <2> USE DEF Undelegated
  <2>1. /\ Books /\ w \in Users /\ w \in voters
        /\ stake \in [Users -> Nat] /\ toOthers \in [Users -> Int]
    BY <1>1 DEF VoteInv, CreditInv, Membership, Books
  <2>2. CASE UNCHANGED <<stake, toOthers>>
    BY <2>1, <2>2
  <2>3. ASSUME NEW u \in Users, NEW amount \in Amounts, StakeIn(u, amount)
        PROVE  Undelegated(w)' >= Undelegated(w)
    BY <2>1, <2>3, AmountNat DEF StakeIn, ChangeStake
  <2>4. ASSUME NEW u \in Users, NEW amount \in Amounts, StakeOut(u, amount)
        PROVE  Undelegated(w)' >= Undelegated(w)
    BY <2>1, <2>4 DEF StakeOut, ChangeStake, IsLegalVoterWithdraw
  <2>5. ASSUME NEW v \in Users, NEW u \in Users, NEW amount \in Amounts,
               Delegate(v, u, amount)
        PROVE  Undelegated(w)' >= Undelegated(w)
    BY <2>1, <2>5, AmountNat DEF Delegate, ChangeStake, AddDelegation
  <2>6. ASSUME NEW v \in Users, NEW u \in Users, NEW amount \in Amounts,
               DelegatorWithdraw(v, u, amount)
        PROVE  Undelegated(w)' >= Undelegated(w)
    BY <2>1, <2>6, AmountNat DEF DelegatorWithdraw, ChangeStake
  <2>7. QED
    BY <1>1, <2>2, <2>3, <2>4, <2>5, <2>6
    DEF VoteNext, Transactions, ClaimInterest, BecomeValidator, LeaveValidators,
        SyncInfoWithVoteManager, AddFriction, NextDay, voteVars
<1>2. QED BY <1>1, CreditInvariance, PTL DEF VoteSpec, ValidatorsKeepStake
==============================================================================
