------------------------------- MODULE Session -------------------------------
(***************************************************************************)
(* A workflow that starts by itself. The thread that owns a session turns  *)
(* a loop: while nobody has stopped it, poll the triggers that are due,    *)
(* queue what they report, and run at most one queued event. The queue is  *)
(* bounded, and when it is full the oldest event makes room.               *)
(*                                                                         *)
(* The run itself is module Runner; here it takes a while, it may find     *)
(* that it has lasted too long, and it ends. Events are numbered in the    *)
(* order they were queued, so an event is the number it was given.         *)
(***************************************************************************)
EXTENDS Naturals, Sequences

CONSTANTS
  MaxPending, \* MAX_PENDING
  Mounted,    \* how many triggers the session mounted
  MaxBatch,   \* bound: the most events one poll reports
  MaxFired    \* bound: the most events a session ever sees

ASSUME SessionAssumption ==
  /\ MaxPending \in Nat \ {0}
  /\ Mounted \in Nat \ {0}
  /\ MaxBatch \in Nat
  /\ MaxFired \in Nat

VARIABLES
  pc,       \* where the thread is: looping, polling, running a run, or over
  next,     \* the trigger the poll loop has come to
  fired,    \* how many events were ever queued
  pending,  \* pending
  dropped,  \* dropped: how many events the queue lost
  runs,     \* run_counter, and below what each of those runs was for
  current,  \* the event being run, 0 when none is
  cancel,   \* the stop flag, shared with the application and with every run
  pressed,  \* whether a person asked for the session to stop
  panicked, \* whether a component panicked and unwound the thread
  ran,      \* history: the events that were run, in the order they were
  late      \* history: how many runs began with the stop flag already set

queueVars   == <<fired, pending, dropped>>
runVars     == <<runs, current, ran, late>>
outsideVars == <<cancel, pressed, panicked>>
vars == <<pc, next, queueVars, runVars, outsideVars>>

Event == 1 .. MaxFired

TypeOK ==
  /\ pc \in {"looping", "polling", "running", "over"}
  /\ next \in 1 .. Mounted + 1
  /\ fired \in 0 .. MaxFired
  /\ pending \in Seq(Event)
  /\ Len(pending) <= MaxPending
  /\ dropped \in 0 .. MaxFired
  /\ runs \in 0 .. MaxFired
  /\ current \in 0 .. MaxFired
  /\ cancel \in BOOLEAN
  /\ pressed \in BOOLEAN
  /\ panicked \in BOOLEAN
  /\ ran \in Seq(Event)
  /\ late \in Nat

Init ==
  /\ pc = "looping"
  /\ next = 1
  /\ fired = 0
  /\ pending = <<>>
  /\ dropped = 0
  /\ runs = 0
  /\ current = 0
  /\ cancel = FALSE
  /\ pressed = FALSE
  /\ panicked = FALSE
  /\ ran = <<>>
  /\ late = 0

-----------------------------------------------------------------------------
(* The queue. Pushing events one by one onto a full queue, each push       *)
(* popping the front first, leaves the last MaxPending of them.            *)

Excess(n) == IF n > MaxPending THEN n - MaxPending ELSE 0

QueueNewestLost(k) == \* mutant: a full queue turns new events away
  LET all == pending \o [i \in 1 .. k |-> fired + i]
      out == Excess(Len(all))
  IN /\ pending' = SubSeq(all, 1, Len(all) - out)
     /\ dropped' = dropped + out
     /\ fired' = fired + k

QueueInFront(k) == \* mutant: new events overtake the ones that wait
  LET all == [i \in 1 .. k |-> fired + i] \o pending
      out == Excess(Len(all))
  IN /\ pending' = SubSeq(all, out + 1, Len(all))
     /\ dropped' = dropped + out
     /\ fired' = fired + k

QueueUncounted(k) == \* mutant: what is popped is not counted
  LET all == pending \o [i \in 1 .. k |-> fired + i]
  IN /\ pending' = SubSeq(all, Excess(Len(all)) + 1, Len(all))
     /\ fired' = fired + k
     /\ UNCHANGED dropped

Queue(k) ==
  LET all == pending \o [i \in 1 .. k |-> fired + i]
      out == Excess(Len(all))
  IN /\ pending' = SubSeq(all, out + 1, Len(all))
     /\ dropped' = dropped + out
     /\ fired' = fired + k

-----------------------------------------------------------------------------
(* One turn of the loop.                                                   *)

BeginTick ==
  /\ pc = "looping"
  /\ ~cancel
  /\ pc' = "polling"
  /\ next' = 1
  /\ UNCHANGED <<queueVars, runVars, outsideVars>>

\* A trigger that is not due, one with nothing to report, and one whose poll
\* failed all leave the queue as it is.
PassTrigger ==
  /\ pc = "polling"
  /\ next <= Mounted
  /\ next' = next + 1
  /\ UNCHANGED <<pc, queueVars, runVars, outsideVars>>

Poll ==
  /\ pc = "polling"
  /\ next <= Mounted
  /\ \E k \in 1 .. MaxBatch : fired + k <= MaxFired /\ Queue(k)
  /\ next' = next + 1
  /\ UNCHANGED <<pc, runVars, outsideVars>>

EndTickEarly == \* mutant: a tick may end without running what waits
  /\ pc = "polling"
  /\ next > Mounted
  /\ pc' = "looping"
  /\ UNCHANGED <<next, queueVars, runVars, outsideVars>>

EndTickIdle ==
  /\ pc = "polling"
  /\ next > Mounted
  /\ pending = <<>>
  /\ pc' = "looping"
  /\ UNCHANGED <<next, queueVars, runVars, outsideVars>>

\* The flag is not read again between the polls and the run.
StartRun ==
  /\ pc = "polling"
  /\ next > Mounted
  /\ pending # <<>>
  /\ current' = Head(pending)
  /\ pending' = Tail(pending)
  /\ runs' = runs + 1
  /\ ran' = Append(ran, Head(pending))
  /\ late' = IF cancel THEN late + 1 ELSE late
  /\ pc' = "running"
  /\ UNCHANGED <<next, fired, dropped, outsideVars>>

\* The executor, between two steps of a run past MAX_RUN_DURATION.
Overrun ==
  /\ pc = "running"
  /\ cancel' = TRUE
  /\ UNCHANGED <<pc, next, queueVars, runVars, pressed, panicked>>

EndRunDraining == \* mutant: the queue is drained before the flag is read
  /\ pc = "running"
  /\ current' = 0
  /\ pc' = IF pending = <<>> THEN "looping" ELSE "polling"
  /\ UNCHANGED <<next, queueVars, runs, ran, late, outsideVars>>

EndRun ==
  /\ pc = "running"
  /\ current' = 0
  /\ pc' = "looping"
  /\ UNCHANGED <<next, queueVars, runs, ran, late, outsideVars>>

\* A panic is caught outside the loop, so it takes the session with it.
Panic ==
  /\ pc = "running"
  /\ panicked' = TRUE
  /\ pc' = "over"
  /\ UNCHANGED <<next, queueVars, runVars, cancel, pressed>>

EndSessionIdle == \* mutant: a session ends only once its queue is empty
  /\ pc = "looping"
  /\ cancel
  /\ pending = <<>>
  /\ pc' = "over"
  /\ UNCHANGED <<next, queueVars, runVars, outsideVars>>

EndSession ==
  /\ pc = "looping"
  /\ cancel
  /\ pc' = "over"
  /\ UNCHANGED <<next, queueVars, runVars, outsideVars>>

PressStop ==
  /\ pc # "over"
  /\ ~pressed
  /\ pressed' = TRUE
  /\ cancel' = TRUE
  /\ UNCHANGED <<pc, next, queueVars, runVars, panicked>>

-----------------------------------------------------------------------------
Work == \/ BeginTick \/ PassTrigger \/ Poll \/ EndTickIdle \/ StartRun
        \/ EndRun \/ EndSession

Next == Work \/ Overrun \/ Panic \/ PressStop

\* The thread keeps going, and a run ends (module Runner).
Spec == Init /\ [][Next]_vars /\ WF_vars(Work)

-----------------------------------------------------------------------------
(* What must hold of a session.                                            *)

\* What waits is always the newest events, in the order they were reported,
\* with none missing between them: an overflow takes from the front, never from
\* the middle and never the newcomer.
QueueIsTheLatest ==
  \A i \in DOMAIN pending : pending[i] = fired - Len(pending) + i

\* Every event is waiting, is in the count of runs, or is in the count of dropped
\* events, the three numbers the application shows: none is lost uncounted.
EveryEventAccounted == fired = Len(pending) + runs + dropped

\* Runs happen in the order their events were reported, and no event is run
\* twice.
RunsInOrder ==
  \A i, j \in DOMAIN ran : i < j => ran[i] < ran[j]

\* However many events are waiting, at most one more run begins after the stop
\* flag is set: the one whose tick had already passed the check.
StopIsQuick == late <= 1

\* A session whose stop flag is set ends.
StopEnds == cancel ~> pc = "over"

\* An event that waits is run or counted as dropped, unless the session ends
\* first. Polling cannot starve the queue: each tick runs one event.
NothingWaitsForever ==
  \A e \in Event :
    (\E i \in DOMAIN pending : pending[i] = e)
      ~> (pc = "over" \/ ~ \E i \in DOMAIN pending : pending[i] = e)

\* runner.rs, of the limit on how long a run may take: "a session with a trigger
\* is unaffected: the bound is per run, and a watcher starts a new one per
\* file". A run past the limit sets the flag the whole session shares.
OneLongRunEndsOnlyItself == pc = "over" => pressed \/ panicked
=============================================================================
