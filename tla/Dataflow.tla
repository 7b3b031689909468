------------------------------ MODULE Dataflow ------------------------------
(***************************************************************************)
(* What one run of a workflow promises, without saying how it is carried   *)
(* out: every step is decided once, after everything that feeds it; a step *)
(* that runs sees exactly the values its producers made; and the verdict   *)
(* on the run follows from what happened to the steps.                     *)
(*                                                                         *)
(* There is no order of execution here, no store of values, no release of  *)
(* memory, no budget and no clock. Module Runner adds those and is shown   *)
(* to implement this.                                                      *)
(***************************************************************************)
EXTENDS Wiring

VARIABLES
  off,      \* the steps the person switched off; fixed for the run
  outcome,  \* what became of each step, "waiting" until it is decided
  made,     \* the output ports that carried a value, whoever still holds it
  received, \* the connections that delivered a value to a step that started
  run,      \* "walking", "finished", or "unwound" when a component panicked
  verdict   \* the answer the journal gives, "running" until the run is over

vars == <<off, outcome, made, received, run, verdict>>

TypeOK ==
  /\ off \in SUBSET Node
  /\ outcome \in [Node -> Ended \cup {"waiting"}]
  /\ made \in SUBSET Port
  /\ received \in SUBSET Edge
  /\ run \in {"walking", "finished", "unwound"}
  /\ verdict \in {"running", "ok", "partial", "failed", "cancelled"}

Init ==
  /\ off \in SUBSET Node
  /\ ClosedOff(off)
  /\ outcome = [n \in Node |-> "waiting"]
  /\ made = {}
  /\ received = {}
  /\ run = "walking"
  /\ verdict = "running"

Ready(n) ==
  /\ run = "walking"
  /\ outcome[n] = "waiting"
  /\ \A m \in Producers(n) : outcome[m] # "waiting"

Halted(n) == \E m \in Producers(n) : outcome[m] \in Halting

Decide(n, o) == outcome' = [outcome EXCEPT ![n] = o]

\* What a step sees when it starts: a value on each connection whose producer
\* made one, and nothing on the others.
Arriving(n) == {e \in Feeding(n) : Source[e] \in made}

SwitchOff(n) ==
  /\ Ready(n)
  /\ n \in off
  /\ Decide(n, "disabled")
  /\ UNCHANGED <<off, made, received, run, verdict>>

Cancel(n) ==
  /\ Ready(n)
  /\ n \notin off
  /\ Decide(n, "cancelled")
  /\ UNCHANGED <<off, made, received, run, verdict>>

Skip(n) ==
  /\ Ready(n)
  /\ n \notin off
  /\ Halted(n)
  /\ Decide(n, "skipped")
  /\ UNCHANGED <<off, made, received, run, verdict>>

\* A step fails either before it starts, and then it has received nothing, or
\* after it was handed what was arriving.
Fail(n) ==
  /\ Ready(n)
  /\ n \notin off
  /\ ~Halted(n)
  /\ Decide(n, "failed")
  /\ \/ UNCHANGED received
     \/ received' = received \cup Arriving(n)
  /\ UNCHANGED <<off, made, run, verdict>>

Succeed(n) ==
  /\ Ready(n)
  /\ n \notin off
  /\ ~Halted(n)
  /\ Decide(n, "ok")
  /\ \E S \in SUBSET Ports(n) : made' = made \cup S
  /\ received' = received \cup Arriving(n)
  /\ UNCHANGED <<off, run, verdict>>

Close ==
  /\ run = "walking"
  /\ \A n \in Node : outcome[n] # "waiting"
  /\ run' = "finished"
  /\ verdict' = Verdict(outcome)
  /\ UNCHANGED <<off, outcome, made, received>>

\* A component panicked: the run is gone and no journal is ever given.
Lose ==
  /\ run = "walking"
  /\ \E n \in Node : outcome[n] = "waiting"
  /\ run' = "unwound"
  /\ UNCHANGED <<off, outcome, made, received, verdict>>

Next ==
  \/ \E n \in Node : SwitchOff(n) \/ Cancel(n) \/ Skip(n) \/ Fail(n) \/ Succeed(n)
  \/ Close
  \/ Lose

Spec == Init /\ [][Next]_vars
=============================================================================
