---------------------------- MODULE SessionProofs ----------------------------
(***************************************************************************)
(* The queue of a session, for every length of it, every number of         *)
(* triggers and every size of a poll.                                      *)
(*                                                                         *)
(* The events that wait are the last ones queued, and everything that ran  *)
(* is older than they are: from that the order of the runs follows. That   *)
(* at most one run begins late needs to be said of the thread: before it   *)
(* reads the queue it has read the flag, so while it polls no run has been *)
(* late, and after a late run the flag is set and ends the loop.           *)
(***************************************************************************)
EXTENDS Session, SequenceTheorems, TLAPS

RanAreOlder ==
  \A i \in DOMAIN ran : ran[i] <= fired - Len(pending)

LateIsLast ==
  /\ pc = "polling" => late = 0
  /\ late # 0 => cancel

SessionInv ==
  /\ TypeOK
  /\ QueueIsTheLatest
  /\ EveryEventAccounted
  /\ RunsInOrder
  /\ RanAreOlder
  /\ LateIsLast
  /\ StopIsQuick

-----------------------------------------------------------------------------
\* Queueing: what is left are the newest events, in order, and the rest is counted.
LEMMA QueueKeeps ==
  ASSUME TypeOK, QueueIsTheLatest, EveryEventAccounted,
         NEW k \in 1 .. MaxBatch, fired + k <= MaxFired, Queue(k)
  PROVE  /\ pending' \in Seq(Event)
         /\ Len(pending') <= MaxPending
         /\ fired' = fired + k /\ fired' \in 0 .. MaxFired
         /\ \A i \in DOMAIN pending' : pending'[i] = fired' - Len(pending') + i
         /\ fired' = Len(pending') + runs + dropped'
         /\ dropped' \in Nat
         /\ fired - Len(pending) <= fired' - Len(pending')
<1> DEFINE news == [i \in 1 .. k |-> fired + i]
           all  == pending \o news
           out  == Excess(Len(all))
<1> USE SessionAssumption
<1>1. /\ k \in Nat /\ fired \in Nat /\ runs \in Nat /\ dropped \in Nat
      /\ pending \in Seq(Event)
      /\ Len(pending) \in Nat /\ Len(pending) <= MaxPending
      /\ DOMAIN pending = 1 .. Len(pending)
      /\ MaxFired \in Nat /\ MaxPending \in Nat
  BY DEF TypeOK
<1>2. news \in Seq(Event) /\ Len(news) = k
  <2>1. news \in [1 .. k -> Event]
    BY <1>1 DEF Event
  <2> HIDE DEF news
  <2>2. news \in Seq(Event)
    BY <1>1, <2>1
  <2>3. DOMAIN news = 1 .. k
    BY <2>1
  <2> QED BY <1>1, <2>2, <2>3, LenProperties
<1>3. /\ all \in Seq(Event)
      /\ Len(all) = Len(pending) + k
      /\ \A i \in 1 .. Len(pending) + k :
           all[i] = IF i <= Len(pending) THEN pending[i] ELSE news[i - Len(pending)]
  <2> HIDE DEF news
  <2> QED BY <1>1, <1>2, ConcatProperties
<1>4. \A i \in 1 .. Len(pending) + k : all[i] = fired - Len(pending) + i
  <2> TAKE i \in 1 .. Len(pending) + k
  <2>1. CASE i <= Len(pending)
    <3>1. i \in DOMAIN pending
      BY <1>1, <2>1
    <3> HIDE DEF news, all
    <3> QED BY <1>3, <2>1, <3>1 DEF QueueIsTheLatest
  <2>2. CASE ~ (i <= Len(pending))
    <3>1. i - Len(pending) \in 1 .. k /\ i \in Nat
      BY <1>1, <2>2
    <3>2. news[i - Len(pending)] = fired + (i - Len(pending))
      BY <3>1
    <3>3. all[i] = news[i - Len(pending)]
      <4> HIDE DEF news, all
      <4> QED BY <1>3, <2>2
    <3> HIDE DEF news, all
    <3> QED BY <1>1, <3>1, <3>2, <3>3
  <2> QED BY <2>1, <2>2
<1>5. /\ out \in Nat /\ out <= Len(all)
      /\ Len(all) - out <= MaxPending
      /\ out <= k
  BY <1>1, <1>3 DEF Excess
<1>6. /\ pending' = SubSeq(all, out + 1, Len(all))
      /\ dropped' = dropped + out
      /\ fired' = fired + k
  BY DEF Queue
<1> HIDE DEF out, all, news
<1>7. /\ pending' \in Seq(Event)
      /\ Len(pending') = Len(all) - out
      /\ \A i \in 1 .. Len(all) - out : pending'[i] = all[out + i]
  <2>1. \A i \in (out + 1) .. Len(all) : all[i] \in Event
    BY <1>1, <1>3, <1>5
  <2>2. (out + 1) \in Int /\ Len(all) \in Int
    BY <1>1, <1>3, <1>5
  <2>3. /\ SubSeq(all, out + 1, Len(all)) \in Seq(Event)
        /\ Len(SubSeq(all, out + 1, Len(all)))
             = IF out + 1 <= Len(all) THEN Len(all) - (out + 1) + 1 ELSE 0
        /\ \A i \in 1 .. Len(all) - (out + 1) + 1 :
             SubSeq(all, out + 1, Len(all))[i] = all[(out + 1) + i - 1]
    BY <2>1, <2>2, SubSeqProperties
  <2>4. Len(all) - (out + 1) + 1 = Len(all) - out
    BY <1>1, <1>3, <1>5
  <2>5. \A i \in 1 .. Len(all) - out : (out + 1) + i - 1 = out + i
    BY <1>1, <1>3, <1>5
  <2> QED BY <1>1, <1>3, <1>5, <1>6, <2>3, <2>4, <2>5
<1>8. /\ DOMAIN pending' = 1 .. Len(pending')
      /\ Len(pending') = Len(pending) + k - out
      /\ out \in Nat /\ out <= Len(pending) + k /\ out <= k
      /\ Len(pending) + k - out <= MaxPending
      /\ fired' - Len(pending') = fired - Len(pending) + out
  <2>1. Len(all) = Len(pending) + k /\ Len(pending') = Len(all) - out
    BY <1>3, <1>7
  <2>2. DOMAIN pending' = 1 .. Len(pending')
    BY <1>7, LenProperties
  <2>3. /\ Len(pending') = Len(pending) + k - out
        /\ out \in Nat /\ out <= Len(pending) + k /\ out <= k
        /\ Len(pending) + k - out <= MaxPending
    BY <1>1, <1>5, <2>1
  <2>4. fired' = fired + k
    BY <1>6
  <2>5. fired' - Len(pending') = fired - Len(pending) + out
    BY <1>1, <2>3, <2>4
  <2> QED BY <2>2, <2>3, <2>5
<1>9. \A i \in DOMAIN pending' : pending'[i] = fired' - Len(pending') + i
  <2> TAKE i \in DOMAIN pending'
  <2>1. i \in 1 .. Len(all) - out /\ out + i \in 1 .. Len(pending) + k
    BY <1>1, <1>3, <1>5, <1>7, <1>8
  <2>2. pending'[i] = fired - Len(pending) + (out + i)
    BY <1>4, <1>7, <2>1
  <2>3. i \in Nat
    BY <1>1, <1>5, <2>1
  <2> QED BY <1>1, <1>8, <2>2, <2>3
<1>10. fired' = Len(pending') + runs + dropped'
  <2>1. fired = Len(pending) + runs + dropped
    BY DEF EveryEventAccounted
  <2>2. /\ Len(pending') = Len(pending) + k - out
        /\ dropped' = dropped + out
        /\ fired' = fired + k
    BY <1>6, <1>8
  <2>3. k \in Nat /\ runs \in Nat /\ dropped \in Nat /\ Len(pending) \in Nat /\ out \in Nat
    BY <1>1, <1>8
  <2> HIDE SessionAssumption
  <2> QED BY <2>1, <2>2, <2>3
<1>11. fired' \in 0 .. MaxFired
  BY <1>1, <1>6
<1>12. Len(pending') <= MaxPending /\ dropped' \in Nat
  BY <1>1, <1>6, <1>8
<1>13. fired - Len(pending) <= fired' - Len(pending')
  BY <1>1, <1>8
<1>14. pending' \in Seq(Event) /\ fired' = fired + k
  BY <1>6, <1>7
<1> QED BY <1>9, <1>10, <1>11, <1>12, <1>13, <1>14

-----------------------------------------------------------------------------
\* A run takes the oldest event that waits, which is newer than all that ran.
LEMMA StartKeeps ==
  ASSUME SessionInv, StartRun
  PROVE  SessionInv'
<1> USE SessionAssumption
<1>1. /\ pending \in Seq(Event) /\ pending # <<>>
      /\ ran \in Seq(Event)
      /\ fired \in 0 .. MaxFired /\ runs \in Nat /\ dropped \in Nat
      /\ MaxFired \in Nat
      /\ Len(pending) \in Nat /\ Len(pending) >= 1
      /\ DOMAIN pending = 1 .. Len(pending)
      /\ DOMAIN ran = 1 .. Len(ran) /\ Len(ran) \in Nat
  BY EmptySeq, LenProperties DEF SessionInv, TypeOK, StartRun
<1>2. /\ Head(pending) = pending[1]
      /\ Head(pending) \in Event
      /\ Tail(pending) \in Seq(Event)
      /\ Len(Tail(pending)) = Len(pending) - 1
      /\ \A i \in 1 .. Len(Tail(pending)) : Tail(pending)[i] = pending[i + 1]
  BY <1>1, HeadTailProperties
<1>3. Head(pending) = fired - Len(pending) + 1
  BY <1>1, <1>2 DEF SessionInv, QueueIsTheLatest
<1>4. /\ pending' = Tail(pending) /\ runs' = runs + 1
      /\ ran' = Append(ran, Head(pending))
      /\ fired' = fired /\ dropped' = dropped
  BY DEF StartRun
<1>5. /\ ran' \in Seq(Event)
      /\ Len(ran') = Len(ran) + 1
      /\ \A i \in 1 .. Len(ran) : ran'[i] = ran[i]
      /\ ran'[Len(ran) + 1] = Head(pending)
      /\ DOMAIN ran' = 1 .. Len(ran) + 1
  BY <1>1, <1>2, <1>4, AppendProperties
<1>6. QueueIsTheLatest'
  <2> SUFFICES ASSUME NEW i \in DOMAIN pending'
               PROVE  pending'[i] = fired' - Len(pending') + i
    BY DEF QueueIsTheLatest
  <2>1. i \in 1 .. Len(pending) - 1
    BY <1>1, <1>2, <1>4
  <2>2. pending'[i] = fired - Len(pending) + (i + 1)
    BY <1>1, <1>2, <1>4, <2>1 DEF SessionInv, QueueIsTheLatest
  <2> QED BY <1>1, <1>2, <1>4, <2>1, <2>2
<1>7. EveryEventAccounted'
  BY <1>1, <1>2, <1>4 DEF SessionInv, EveryEventAccounted
<1>8. RanAreOlder'
  <2> SUFFICES ASSUME NEW i \in DOMAIN ran'
               PROVE  ran'[i] <= fired' - Len(pending')
    BY DEF RanAreOlder
  <2>1. CASE i = Len(ran) + 1
    BY <1>1, <1>2, <1>3, <1>4, <1>5, <2>1
  <2>2. CASE i \in 1 .. Len(ran)
    <3>1. ran[i] \in Nat /\ ran[i] <= fired - Len(pending)
      BY <1>1, <2>2 DEF SessionInv, RanAreOlder, Event
    <3> QED BY <1>1, <1>2, <1>4, <1>5, <2>2, <3>1
  <2> QED BY <1>1, <1>5, <2>1, <2>2
<1>9. RunsInOrder'
  <2> SUFFICES ASSUME NEW i \in DOMAIN ran', NEW j \in DOMAIN ran', i < j
               PROVE  ran'[i] < ran'[j]
    BY DEF RunsInOrder
  <2>1. i \in 1 .. Len(ran) /\ ran[i] \in Nat /\ ran'[i] = ran[i]
    BY <1>1, <1>5 DEF Event
  <2>2. CASE j = Len(ran) + 1
    <3>1. ran[i] <= fired - Len(pending)
      BY <1>1, <2>1 DEF SessionInv, RanAreOlder
    <3> QED BY <1>1, <1>3, <1>5, <2>1, <2>2, <3>1
  <2>3. CASE j \in 1 .. Len(ran)
    BY <1>1, <1>5, <2>1, <2>3 DEF SessionInv, RunsInOrder
  <2> QED BY <1>1, <1>5, <2>2, <2>3
<1>10. /\ pc' = "running" /\ late' \in Nat
       /\ LateIsLast' /\ StopIsQuick'
  BY DEF SessionInv, TypeOK, LateIsLast, StopIsQuick, StartRun, outsideVars
<1>11. TypeOK'
  <2>1. runs' \in 0 .. MaxFired
    BY <1>1, <1>2, <1>4, <1>7 DEF EveryEventAccounted
  <2>2. current' \in 0 .. MaxFired /\ Len(pending') <= MaxPending
    BY <1>1, <1>2, <1>4 DEF SessionInv, TypeOK, StartRun, Event
  <2> QED BY <1>1, <1>2, <1>4, <1>5, <1>10, <2>1, <2>2
       DEF SessionInv, TypeOK, StartRun, outsideVars
<1> QED BY <1>6, <1>7, <1>8, <1>9, <1>10, <1>11 DEF SessionInv

-----------------------------------------------------------------------------
\* A poll that reports something.
LEMMA PollKeeps ==
  ASSUME SessionInv, Poll
  PROVE  SessionInv'
<1> USE SessionAssumption
<1>1. PICK k \in 1 .. MaxBatch : fired + k <= MaxFired /\ Queue(k)
  BY DEF Poll
<1>2. /\ pending' \in Seq(Event)
      /\ Len(pending') <= MaxPending
      /\ fired' \in 0 .. MaxFired
      /\ QueueIsTheLatest'
      /\ EveryEventAccounted'
      /\ dropped' \in Nat
      /\ fired - Len(pending) <= fired' - Len(pending')
  BY <1>1, QueueKeeps
     DEF SessionInv, Poll, runVars, QueueIsTheLatest, EveryEventAccounted
<1>3. TypeOK'
  <2>1. Len(pending') \in Nat /\ runs' = runs /\ runs \in Nat
    BY <1>2 DEF SessionInv, TypeOK, Poll, runVars
  <2>2. dropped' \in 0 .. MaxFired
    BY <1>2, <2>1 DEF EveryEventAccounted
  <2> QED BY <1>2, <2>2 DEF SessionInv, TypeOK, Poll, runVars, outsideVars
<1>4. RanAreOlder'
  <2> SUFFICES ASSUME NEW i \in DOMAIN ran
               PROVE  ran[i] <= fired' - Len(pending')
    BY DEF RanAreOlder, Poll, runVars
  <2>1. ran[i] \in Nat /\ ran[i] <= fired - Len(pending)
    BY DEF SessionInv, TypeOK, RanAreOlder, Event
  <2>2. /\ fired \in Nat /\ Len(pending) \in Nat
        /\ fired' \in Nat /\ Len(pending') \in Nat
    BY <1>2 DEF SessionInv, TypeOK
  <2> QED BY <1>2, <2>1, <2>2
<1>5. RunsInOrder' /\ LateIsLast' /\ StopIsQuick'
  BY DEF SessionInv, RunsInOrder, LateIsLast, StopIsQuick, Poll, runVars, outsideVars
<1> QED BY <1>2, <1>3, <1>4, <1>5 DEF SessionInv

-----------------------------------------------------------------------------
\* Whatever leaves the queue and the history of runs alone keeps what is said of them.
LEMMA OthersKeep ==
  ASSUME SessionInv, UNCHANGED <<queueVars, runs, ran, late>>,
         pc' \in {"looping", "polling", "running", "over"},
         next' \in 1 .. Mounted + 1, current' \in 0 .. MaxFired,
         {cancel', pressed', panicked'} \subseteq BOOLEAN,
         cancel => cancel',
         pc' = "polling" => late = 0
  PROVE  SessionInv'
BY DEF SessionInv, TypeOK, QueueIsTheLatest, EveryEventAccounted, RunsInOrder, RanAreOlder,
       LateIsLast, StopIsQuick, queueVars

LEMMA InitEstablishes == Init => SessionInv
<1> SUFFICES ASSUME Init PROVE SessionInv
  OBVIOUS
<1>1. <<>> \in Seq(Event) /\ Len(<<>>) = 0 /\ DOMAIN <<>> = {}
  OBVIOUS
<1>2. pending = <<>> /\ ran = <<>>
  BY DEF Init
<1>3. TypeOK
  <2>1. 0 \in 0 .. MaxFired /\ 1 \in 1 .. Mounted + 1 /\ 0 <= MaxPending
    BY SessionAssumption
  <2>2. pending \in Seq(Event) /\ Len(pending) <= MaxPending /\ ran \in Seq(Event)
    BY <1>1, <1>2, <2>1
  <2> QED BY <2>1, <2>2 DEF Init, TypeOK
<1>4. QueueIsTheLatest /\ RunsInOrder /\ RanAreOlder
  BY <1>1, <1>2 DEF QueueIsTheLatest, RunsInOrder, RanAreOlder
<1>5. EveryEventAccounted /\ LateIsLast /\ StopIsQuick
  BY <1>1 DEF Init, EveryEventAccounted, LateIsLast, StopIsQuick
<1> QED BY <1>3, <1>4, <1>5 DEF SessionInv

LEMMA StepKeeps == SessionInv /\ [Next]_vars => SessionInv'
<1> SUFFICES ASSUME SessionInv, [Next]_vars PROVE SessionInv'
  OBVIOUS
<1> USE SessionAssumption
<1>1. CASE BeginTick
  <2>1. late = 0
    BY <1>1 DEF BeginTick, SessionInv, LateIsLast
  <2> QED BY <1>1, <2>1, OthersKeep
       DEF BeginTick, SessionInv, TypeOK, queueVars, runVars, outsideVars
<1>2. CASE PassTrigger
  BY <1>2, OthersKeep
     DEF PassTrigger, SessionInv, TypeOK, LateIsLast, queueVars, runVars, outsideVars
<1>3. CASE Poll
  BY <1>3, PollKeeps
<1>4. CASE EndTickIdle
  BY <1>4, OthersKeep
     DEF EndTickIdle, SessionInv, TypeOK, queueVars, runVars, outsideVars
<1>5. CASE StartRun
  BY <1>5, StartKeeps
<1>6. CASE EndRun
  BY <1>6, OthersKeep DEF EndRun, SessionInv, TypeOK, queueVars, runVars, outsideVars
<1>7. CASE EndSession
  BY <1>7, OthersKeep DEF EndSession, SessionInv, TypeOK, queueVars, runVars, outsideVars
<1>8. CASE Overrun
  BY <1>8, OthersKeep DEF Overrun, SessionInv, TypeOK, queueVars, runVars, outsideVars
<1>9. CASE Panic
  BY <1>9, OthersKeep DEF Panic, SessionInv, TypeOK, queueVars, runVars, outsideVars
<1>10. CASE PressStop
  BY <1>10, OthersKeep
     DEF PressStop, SessionInv, TypeOK, LateIsLast, queueVars, runVars, outsideVars
<1>11. CASE UNCHANGED vars
  BY <1>11, OthersKeep
     DEF vars, SessionInv, TypeOK, LateIsLast, queueVars, runVars, outsideVars
<1> QED BY <1>1, <1>2, <1>3, <1>4, <1>5, <1>6, <1>7, <1>8, <1>9, <1>10, <1>11
     DEF Next, Work

-----------------------------------------------------------------------------
\* What is said of a session holds in every state of every session: its queue, its
\* counts, the order of its runs and its thread, whatever the bounds are.
THEOREM SessionInvariant == Spec => []SessionInv
BY InitEstablishes, StepKeeps, PTL DEF Spec

\* Every variable keeps its type; the queue never passes MAX_PENDING.
THEOREM SessionTypes == Spec => []TypeOK
<1>1. SessionInv => TypeOK
  BY DEF SessionInv
<1> QED BY <1>1, SessionInvariant, PTL

\* An overflow (Session::tick, pop_front before push_back) loses the oldest events
\* and no others: what waits is the newest, in order, without a gap.
THEOREM QueueHoldsTheLatest == Spec => []QueueIsTheLatest
<1>1. SessionInv => QueueIsTheLatest
  BY DEF SessionInv
<1> QED BY <1>1, SessionInvariant, PTL

\* pending, run_counter and dropped add up to the events that were ever reported.
THEOREM EveryEventIsAccounted == Spec => []EveryEventAccounted
<1>1. SessionInv => EveryEventAccounted
  BY DEF SessionInv
<1> QED BY <1>1, SessionInvariant, PTL

\* Runs happen in the order their events were reported, each event at most once.
THEOREM RunsAreInOrder == Spec => []RunsInOrder
<1>1. SessionInv => RunsInOrder
  BY DEF SessionInv
<1> QED BY <1>1, SessionInvariant, PTL

\* At most one run begins after the stop flag was set, though the flag is read
\* before the polls and not again before the run.
THEOREM StoppingIsQuick == Spec => []StopIsQuick
<1>1. SessionInv => StopIsQuick
  BY DEF SessionInv
<1> QED BY <1>1, SessionInvariant, PTL
=============================================================================
