------------------------------- MODULE Runner -------------------------------
(***************************************************************************)
(* The executor of one run: it walks the validated order, one step at a    *)
(* time, keeps each produced value until its last consumer has had its     *)
(* turn, counts the bytes it holds, and leaves a record per step.          *)
(*                                                                         *)
(* Three parties act: the thread that walks the graph, the component it is *)
(* running, and the outside (Stop, the clock). A turn of the loop is one   *)
(* action, except for a step that runs a component, which is a Start and   *)
(* an end, because Stop and the clock can fall between the two.            *)
(***************************************************************************)
EXTENDS Wiring, Sequences, FiniteSets

CONSTANTS
  Order,     \* the order validation produced: every producer before its consumers
  Trigger,   \* the steps whose manifest says trigger
  Unwrapped, \* the connections that convert option<T> to T (unwrap-option)
  Fallible,  \* the connections with a conversion that can fail on a value
  Sizes,     \* the sizes in bytes a produced value may have
  Budget     \* MAX_LIVE_VALUE_BYTES

Turns == 1 .. Len(Order)

ASSUME OrderAssumption ==
  /\ Order \in Seq(Node)
  /\ \A n \in Node : \E i \in Turns : Order[i] = n
  /\ \A i, j \in Turns : Order[i] = Order[j] => i = j
  /\ \A e \in Edge : \A i, j \in Turns :
       Order[i] = Owner[Source[e]] /\ Order[j] = Target[e] => i < j

ASSUME KindAssumption ==
  /\ Trigger \in SUBSET Node
  /\ \A n \in Trigger : Feeding(n) = {}
  /\ Unwrapped \in SUBSET Edge
  /\ Fallible \in SUBSET Edge

ASSUME SizeAssumption ==
  /\ Sizes \in SUBSET Nat
  /\ Budget \in Nat
  /\ IsFiniteSet(Edge)
  /\ IsFiniteSet(Port)

VARIABLES
  disabled,      \* node.disabled, fixed for the run
  phase,         \* where the call to execute is: walking, finished or unwound
  at,            \* the turn the loop over validation.order has come to
  status,        \* NodeStatus of each step: its record, pending if it has none
  cause,         \* skipped_because: the steps each step was skipped for
  recorded,      \* the output ports listed in the records (record.outputs)
  delivered,     \* the connections whose value is listed in record.inputs
  verdict,       \* journal.status

  held,          \* the keys of outputs: the ports whose value is held now
  present,       \* the ports whose value is not Absent
  size,          \* approx_bytes of the value last put on each port
  consumersLeft, \* how many connections still have to read each port
  liveBytes,     \* live_bytes

  cancel,        \* the flag Stop sets, shared with whoever owns the run
  overdue,       \* the run has lasted longer than MAX_RUN_DURATION
  calls,         \* steps with capability calls still in the broker
  announced      \* the last status the observer was told for each step

graphVars   == <<disabled>>
journalVars == <<status, cause, recorded, delivered, verdict>>
storeVars   == <<held, present, size, consumersLeft, liveBytes>>
outsideVars == <<cancel, overdue>>
vars == <<graphVars, phase, at, journalVars, storeVars, outsideVars, calls, announced>>

NodeStatus == Ended \cup {"pending", "running"}

TypeOK ==
  /\ disabled \in SUBSET Node
  /\ phase \in {"walking", "finished", "unwound"}
  /\ at \in 1 .. Len(Order) + 1
  /\ status \in [Node -> NodeStatus]
  /\ cause \in [Node -> SUBSET Node]
  /\ recorded \in SUBSET Port
  /\ delivered \in SUBSET Edge
  /\ verdict \in {"running", "ok", "partial", "failed", "cancelled"}
  /\ held \in SUBSET Port
  /\ present \in SUBSET Port
  /\ size \in [Port -> Nat]
  /\ consumersLeft \in [Port -> Nat]
  /\ liveBytes \in Nat
  /\ cancel \in BOOLEAN
  /\ overdue \in BOOLEAN
  /\ calls \in SUBSET Node
  /\ announced \in [Node -> NodeStatus]

-----------------------------------------------------------------------------
(* Weighing values. A total is the number of bytes in a set of values, one *)
(* element per byte, which is the sum of their sizes.                      *)

Bytes(sz, S) == UNION {{p} \X (1 .. sz[p]) : p \in S}
Weight(sz, S) == Cardinality(Bytes(sz, S))

-----------------------------------------------------------------------------
(* The start of a run. A trigger event puts values on the ports of the     *)
(* trigger that fired; they are counted like any other value, whatever the *)
(* budget. A file the person picked is an input, and is not held here.     *)

Init ==
  /\ disabled \in SUBSET Node
  /\ ClosedOff(disabled)
  /\ Trigger # {} => Trigger \ disabled # {}
  /\ phase = "walking"
  /\ at = 1
  /\ status = [n \in Node |-> "pending"]
  /\ cause = [n \in Node |-> {}]
  /\ recorded = {}
  /\ delivered = {}
  /\ verdict = "running"
  /\ \/ held = {}
     \/ \E t \in Trigger \ disabled : held \in (SUBSET Ports(t)) \ {{}}
  /\ present = held
  /\ \E s \in [held -> Sizes] :
       size = [p \in Port |-> IF p \in held THEN s[p] ELSE 0]
  /\ consumersLeft = [p \in Port |-> Cardinality(Leaving(p))]
  /\ liveBytes = Weight(size, held)
  /\ cancel \in BOOLEAN
  /\ overdue = FALSE
  /\ calls \in SUBSET (Trigger \ disabled)
  /\ announced = [n \in Node |-> "pending"]

-----------------------------------------------------------------------------
(* The parts every turn of the loop is made of.                            *)

\* The step whose turn it is, and which has not begun.
Turn(n) ==
  /\ phase = "walking"
  /\ at \in Turns
  /\ n = Order[at]
  /\ status[n] = "pending"

\* The flag as this turn reads it: a run past its deadline sets it first.
Stopped == cancel \/ overdue

TakeFlag == cancel' = overdue \* mutant: reading the flag clears it
KeepFlag == cancel' = Stopped

BlockersAnywhere(n) == {m \in Node : status[m] \in Halting} \* mutant

\* The producers that stop a step from running.
Blockers(n) == {m \in Producers(n) : status[m] \in Halting}

\* A connection into n for which gather_inputs can answer with an error. A port
\* that is not in outputs is delivered as Absent without any conversion.
Unreadable(n) ==
  {e \in Feeding(n) : /\ Source[e] \in held
                      /\ \/ e \in Unwrapped /\ Source[e] \notin present
                         \/ e \in Fallible /\ Source[e] \in present}

\* The connections into n that are certain to fail.
Unwrappable(n) ==
  {e \in Feeding(n) : e \in Unwrapped /\ Source[e] \in held \ present}

ArrivingHeld(n) == {e \in Feeding(n) : Source[e] \in held} \* mutant

\* The connections along which n is given a value.
Arriving(n) == {e \in Feeding(n) : Source[e] \in held \cap present}

\* The end of every turn. Each connection into n is finished with, whatever
\* became of n; a value nothing else is waiting for is dropped and its bytes
\* are given back. H, L and sz are what is held once the step itself is over.
ReadsOnce(n, p) == IF Feeding(n) \cap Leaving(p) # {} THEN 1 ELSE 0 \* mutant
ReadsBy(n, p) == Cardinality(Feeding(n) \cap Leaving(p))

Released(n, H) ==
  {p \in H : ReadsBy(n, p) > 0 /\ consumersLeft[p] <= ReadsBy(n, p)}

MinusNothing(a, b) == a     \* mutant
Minus(a, b) == IF b <= a THEN a - b ELSE 0

EndTurn(n, outcome, H, L, sz) ==
  /\ status' = [status EXCEPT ![n] = outcome]
  /\ held' = H \ Released(n, H)
  /\ liveBytes' = Minus(L, Weight(sz, Released(n, H)))
  /\ size' = sz
  /\ consumersLeft' = [p \in Port |-> Minus(consumersLeft[p], ReadsBy(n, p))]
  /\ at' = at + 1

Announce(n, s) == announced' = [announced EXCEPT ![n] = s]

\* The broker's calls for a step move into its record.
TakeCalls(n) == calls' = calls \ {n}

\* What the run is holding and what a step adds to it are within the budget.
FitsAlone(L, w) == w <= Budget \* mutant: each step is weighed on its own
Fits(L, w) == L + w <= Budget

-----------------------------------------------------------------------------
(* One turn of the loop, by how the step ends.                             *)

PassDisabled(n) ==
  /\ Turn(n)
  /\ n \in disabled
  /\ EndTurn(n, "disabled", held, liveBytes, size)
  /\ Announce(n, "disabled")
  /\ KeepFlag
  /\ UNCHANGED <<disabled, phase, cause, recorded, delivered, verdict, present,
                 overdue, calls>>

CancelStep(n) ==
  /\ Turn(n)
  /\ n \notin disabled
  /\ Stopped
  /\ EndTurn(n, "cancelled", held, liveBytes, size)
  /\ Announce(n, "cancelled")
  /\ KeepFlag
  /\ UNCHANGED <<disabled, phase, cause, recorded, delivered, verdict, present,
                 overdue, calls>>

\* The code names the first blocker in the order the connections are stored.
SkipStep(n) ==
  /\ Turn(n)
  /\ n \notin disabled
  /\ ~Stopped
  /\ \E m \in Blockers(n) : cause' = [cause EXCEPT ![n] = {m}]
  /\ EndTurn(n, "skipped", held, liveBytes, size)
  /\ Announce(n, "skipped")
  /\ UNCHANGED <<disabled, phase, recorded, delivered, verdict, present,
                 cancel, overdue, calls>>

MayGatherAnyway(n) == \* mutant: what happened upstream is not looked at
  /\ Turn(n)
  /\ n \notin disabled
  /\ ~Stopped

MayGather(n) ==
  /\ Turn(n)
  /\ n \notin disabled
  /\ ~Stopped
  /\ Blockers(n) = {}

\* gather_inputs failed: the record is closed without telling the observer.
FailGather(n) ==
  /\ MayGather(n)
  /\ Unreadable(n) # {}
  /\ EndTurn(n, "failed", held, liveBytes, size)
  /\ TakeCalls(n)
  /\ UNCHANGED <<disabled, phase, cause, recorded, delivered, verdict, present,
                 cancel, overdue, announced>>

\* A trigger does not run: what the session put on its ports is its output. The
\* observer is not told, and the calls its poll made stay in the broker.
PassTrigger(n) ==
  /\ MayGather(n)
  /\ n \in Trigger
  /\ recorded' = recorded \cup (Ports(n) \cap held)
  /\ EndTurn(n, "ok", held, liveBytes, size)
  /\ UNCHANGED <<disabled, phase, cause, delivered, verdict, present,
                 cancel, overdue, calls, announced>>

StartStep(n) ==
  /\ MayGather(n)
  /\ n \notin Trigger
  /\ Unwrappable(n) = {}
  /\ delivered' = delivered \cup Arriving(n)
  /\ status' = [status EXCEPT ![n] = "running"]
  /\ Announce(n, "running")
  /\ UNCHANGED <<disabled, phase, at, cause, recorded, verdict, storeVars,
                 outsideVars, calls>>

Running(n) ==
  /\ phase = "walking"
  /\ at \in Turns
  /\ n = Order[at]
  /\ status[n] = "running"

\* The running component asks the broker for something; allowed or denied, the
\* broker keeps the call.
AskBroker(n) ==
  /\ Running(n)
  /\ calls' = calls \cup {n}
  /\ UNCHANGED <<disabled, phase, at, journalVars, storeVars, outsideVars, announced>>

\* The component returned the values S, of which P are not Absent. Together they
\* fit in the run, or none of them is kept.
Return(n) ==
  \E S \in SUBSET Ports(n) : \E P \in SUBSET S : \E s \in [S -> Sizes] :
    LET sz == [p \in Port |-> IF p \in S THEN s[p] ELSE size[p]]
        w  == Weight(sz, S)
    IN \/ /\ Fits(liveBytes, w)
          /\ recorded' = recorded \cup S
          /\ present' = present \cup P
          /\ EndTurn(n, "ok", held \cup S, liveBytes + w, sz)
          /\ Announce(n, "ok")
       \/ /\ ~Fits(liveBytes, w)
          /\ EndTurn(n, "failed", held, liveBytes, size)
          /\ Announce(n, "failed")
          /\ UNCHANGED <<recorded, present>>

FinishStep(n) ==
  /\ Running(n)
  /\ Return(n)
  /\ TakeCalls(n)
  /\ UNCHANGED <<disabled, phase, cause, delivered, verdict, outsideVars>>

\* The component returned an error, or something its manifest does not declare.
FailStep(n) ==
  /\ Running(n)
  /\ EndTurn(n, "failed", held, liveBytes, size)
  /\ TakeCalls(n)
  /\ Announce(n, "failed")
  /\ UNCHANGED <<disabled, phase, cause, recorded, delivered, verdict, present,
                 outsideVars>>

\* The component panicked. The unwinding leaves execute with no journal.
Unwind(n) ==
  /\ Running(n)
  /\ phase' = "unwound"
  /\ UNCHANGED <<disabled, at, journalVars, storeVars, outsideVars, calls, announced>>

Finish ==
  /\ phase = "walking"
  /\ at = Len(Order) + 1
  /\ phase' = "finished"
  /\ verdict' = Verdict(status)
  /\ UNCHANGED <<disabled, at, status, cause, recorded, delivered, storeVars,
                 outsideVars, calls, announced>>

-----------------------------------------------------------------------------
(* The outside.                                                            *)

PressStop ==
  /\ phase = "walking"
  /\ ~cancel
  /\ cancel' = TRUE
  /\ UNCHANGED <<disabled, phase, at, journalVars, storeVars, overdue, calls, announced>>

PassDeadline ==
  /\ phase = "walking"
  /\ ~overdue
  /\ overdue' = TRUE
  /\ UNCHANGED <<disabled, phase, at, journalVars, storeVars, cancel, calls, announced>>

-----------------------------------------------------------------------------
EndComponent(n) == FinishStep(n) \/ FailStep(n) \/ Unwind(n)

Walk ==
  \/ \E n \in Node : \/ PassDisabled(n)
                     \/ CancelStep(n)
                     \/ SkipStep(n)
                     \/ FailGather(n)
                     \/ PassTrigger(n)
                     \/ StartStep(n)
  \/ Finish

Next ==
  \/ Walk
  \/ \E n \in Node : EndComponent(n) \/ AskBroker(n)
  \/ PressStop
  \/ PassDeadline

Spec == Init /\ [][Next]_vars
=============================================================================
