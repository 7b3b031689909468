------------------------------- MODULE Wiring -------------------------------
(***************************************************************************)
(* The shape of a workflow: steps, their output ports and the connections  *)
(* between them. Input ports are not named: validation refuses two         *)
(* connections into one input, so the connection stands for the input.     *)
(***************************************************************************)
EXTENDS Naturals

CONSTANTS
  Node,    \* the steps of the graph
  Port,    \* the output ports the manifests of those steps declare
  Edge,    \* the connections drawn between steps
  Owner,   \* Owner[p]  : the step an output port belongs to
  Source,  \* Source[e] : the output port a connection leaves from
  Target   \* Target[e] : the step a connection arrives at

ASSUME ShapeAssumption ==
  /\ Owner \in [Port -> Node]
  /\ Source \in [Edge -> Port]
  /\ Target \in [Edge -> Node]

Feeding(n)   == {e \in Edge : Target[e] = n}
Leaving(p)   == {e \in Edge : Source[e] = p}
Ports(n)     == {p \in Port : Owner[p] = n}
Producers(n) == {Owner[Source[e]] : e \in Feeding(n)}

\* Ways a step can end. A step that ends in one of the last three stops
\* whatever depends on it.
Halting == {"failed", "skipped", "cancelled"}
Ended   == {"ok", "disabled"} \cup Halting

\* Validation refuses a graph in which a step that is switched off feeds one
\* that is not.
ClosedOff(off) == \A e \in Edge : Owner[Source[e]] \in off => Target[e] \in off

VerdictUnstopped(outcome) == \* mutant: a cancelled step is not looked for
  LET some(o) == \E n \in Node : outcome[n] = o
  IN IF ~some("failed") THEN "ok" ELSE IF some("ok") THEN "partial" ELSE "failed"

\* The answer to "how did the run go", from what became of its steps.
Verdict(outcome) ==
  LET some(o) == \E n \in Node : outcome[n] = o
  IN IF some("cancelled") THEN "cancelled"
     ELSE IF ~some("failed") THEN "ok"
     ELSE IF some("ok") THEN "partial"
     ELSE "failed"
=============================================================================
