---------------------------- MODULE ImportDialog ----------------------------
(***************************************************************************)
(* The machine behind the import dialog (import-machine.ts): pure, a state *)
(* and an event to the next state. A busy state is named by its stage and  *)
(* a successful one by its outcome; what was read and what went wrong are  *)
(* carried beside it by those who use the machine.                         *)
(***************************************************************************)

Busy  == {"choosing", "inspecting", "importing"}
Phase == Busy \cup {"idle", "cancelled", "inspected", "imported", "error"}

\* Where each event is a legal move from, and where it leads.
LegalAnytime == \* mutant: what is in flight can be acknowledged
  [begin |-> Phase \ Busy, chose |-> {"choosing"}, dismissed |-> {"choosing"},
   inspected |-> {"inspecting"}, confirm |-> {"inspected"}, imported |-> {"importing"},
   failed |-> Busy, acknowledge |-> Phase]
Legal ==
  [begin |-> Phase \ Busy, chose |-> {"choosing"}, dismissed |-> {"choosing"},
   inspected |-> {"inspecting"}, confirm |-> {"inspected"}, imported |-> {"importing"},
   failed |-> Busy, acknowledge |-> Phase \ (Busy \cup {"idle"})]
Leads ==
  [begin |-> "choosing", chose |-> "inspecting", dismissed |-> "cancelled",
   inspected |-> "inspected", confirm |-> "importing", imported |-> "imported",
   failed |-> "error", acknowledge |-> "idle"]

\* An event that is not legal changes nothing.
transition(phase, event) == IF phase \in Legal[event] THEN Leads[event] ELSE phase
=============================================================================
