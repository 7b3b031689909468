--------------------------- MODULE RunnerInvariant ---------------------------
(***************************************************************************)
(* Why the executor is right: an invariant that says how the cursor of the *)
(* loop, the records, the store of values and what was announced go        *)
(* together, and that every step preserves on its own.                     *)
(***************************************************************************)
EXTENDS RunnerProperties

\* Behind the cursor every step is settled, ahead of it none has begun.
CursorInv ==
  /\ \A i \in Turns : i < at => ~Unsettled(Order[i])
  /\ \A i \in Turns : i > at => status[Order[i]] = "pending"
  /\ phase = "finished" => at = Len(Order) + 1

\* A step passes as disabled only if it is, and then so do its consumers; a
\* trigger never runs.
DisabledInv ==
  /\ ClosedOff(disabled)
  /\ \A n \in Node : status[n] = "disabled" => n \in disabled
  /\ \A n \in Node : status[n] = "running" => n \notin Trigger \cup disabled

\* What is held was recorded, but for a trigger's event before its turn, and is
\* still wanted; what is recorded and wanted is held.
StoreInv ==
  /\ \A p \in held \cup present \cup recorded :
       status[Owner[p]] = "ok" \/ Owner[p] \in Trigger
  /\ \A p \in recorded : status[Owner[p]] = "ok"
  /\ \A p \in held : status[Owner[p]] = "ok" => p \in recorded
  /\ \A p \in held : Leaving(p) = {} \/ Readers(p) # {}
  /\ \A p \in recorded : Leaving(p) = {} \/ Readers(p) # {} => p \in held

\* Nothing is delivered to a step before its turn.
DeliveryInv == \A e \in delivered : status[Target[e]] # "pending"

\* Only stopping cancels.
StopInv == (\E n \in Node : status[n] = "cancelled") => Stopped

\* The broker holds no calls of a component that is not running.
CallsInv == \A n \in calls \ Trigger : status[n] = "running"

VerdictInv ==
  IF phase = "finished"
  THEN verdict = Verdict(status) /\ \A n \in Node : ~Unsettled(n)
  ELSE verdict = "running"

\* Type correctness first, then the parts above with the properties that are
\* inductive beside them.
RunInv ==
  /\ TypeOK
  /\ CursorInv
  /\ DisabledInv
  /\ CountersExact
  /\ StoreInv
  /\ LiveBytesExact
  /\ DeliveryInv
  /\ JournalCoherent
  /\ SkipExplained
  /\ StopInv
  /\ StopIsFinal
  /\ CallsInv
  /\ AnnouncedNeverWrong
  /\ VerdictInv
=============================================================================
