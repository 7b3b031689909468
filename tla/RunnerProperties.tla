-------------------------- MODULE RunnerProperties --------------------------
(***************************************************************************)
(* What must hold of every run of the executor, and the abstract run it    *)
(* implements.                                                             *)
(***************************************************************************)
EXTENDS Runner

Unsettled(n) == status[n] \in {"pending", "running"}

\* The connections that still have to read a port.
Readers(p) == {e \in Leaving(p) : Unsettled(Target[e])}

Began(n) == status[n] \in {"running", "ok"}

-----------------------------------------------------------------------------
(* The store of values.                                                    *)

\* The count kept for a port is exactly the number of connections whose step has
\* not had its turn, however the turns before it ended: eight exits from the
\* loop body share one release, and none of them may skip it or do it twice.
CountersExact ==
  \A p \in Port : consumersLeft[p] = Cardinality(Readers(p))

\* A value a step produced is there for as long as something may still read it,
\* and is dropped in the turn of its last reader. A value nobody is connected to
\* is a result of the run and stays.
HeldExactlyWhileNeeded ==
  \A p \in recorded : p \in held <=> (Leaving(p) = {} \/ Readers(p) # {})

\* live_bytes, a counter that is only ever added to and subtracted from, never
\* drifts from what the run is really holding.
LiveBytesExact == liveBytes = Weight(size, held)

\* While a component is handing over its values, what the run holds together
\* with them is within the budget: the inputs of that component still count,
\* because they are released after it and not before.
PeakWithinBudget ==
  [][\A n \in Node : status[n] = "running" /\ status'[n] = "ok" =>
       Weight(size', held \cup (recorded' \ recorded)) <= Budget]_vars

-----------------------------------------------------------------------------
(* The journal.                                                            *)

\* The records of two steps agree about the connection between them: a step that
\* began was given a value exactly where its producer's record lists one, and
\* every producer of such a step ended well.
JournalCoherent ==
  /\ \A e \in Edge : Began(Target[e]) =>
       /\ status[Owner[Source[e]]] = "ok"
       /\ e \in delivered <=> Source[e] \in recorded \cap present
  /\ \A e \in delivered : Source[e] \in recorded \cap present

\* A skipped step names a step that feeds it and that did not produce, and some
\* step of the run really failed or was cancelled: blame never goes in circles.
SkipExplained ==
  \A n \in Node : status[n] = "skipped" =>
    /\ \E m \in Producers(n) : cause[n] = {m} /\ status[m] \in Halting
    /\ \E m \in Node : status[m] \in {"failed", "cancelled"}

\* RunStatus::Ok means that every step that was meant to run did, successfully.
\* The verdict never looks at skipped steps, so this rests on there being a
\* failed or cancelled one behind each of them.
OkMeansAllRan ==
  verdict = "ok" => \A n \in Node : status[n] \in {"ok", "disabled"}

\* Once a step has been cancelled nothing after it runs, so a run that was
\* stopped did a prefix of its work and no more.
StopIsFinal ==
  \A i, j \in Turns : i < j /\ status[Order[i]] = "cancelled" =>
    status[Order[j]] \in {"pending", "cancelled", "disabled"}

\* The calls a component made are in its record by the time the record closes.
\* They are taken from the broker on more than one path.
CallsJournalled == \A n \in Node \ Trigger : ~Unsettled(n) => n \notin calls

\* Whatever the observer was told about a step is what is so, and what the
\* journal will say.
AnnouncedNeverWrong ==
  \A n \in Node : announced[n] # "pending" => announced[n] = status[n]

-----------------------------------------------------------------------------
(* The abstract run.                                                       *)

\* Only a step's end decides it; until then the abstract run knows nothing.
AbstractOutcome ==
  [n \in Node |-> IF Unsettled(n) THEN "waiting" ELSE status[n]]

\* A trigger's event is on its ports before its turn; what was made is what a
\* record lists and is not Absent.
DF == INSTANCE Dataflow WITH
  off      <- disabled,
  outcome  <- AbstractOutcome,
  made     <- recorded \cap present,
  received <- {e \in delivered : ~Unsettled(Target[e])},
  run      <- phase

\* The executor implements the abstract run: whatever the order, the releases,
\* Stop and the clock do, each step is decided once, after its producers, on the
\* values they made.
Implements == DF!Init /\ [][DF!Next]_DF!vars

=============================================================================
