------------------------------ MODULE Timeline ------------------------------
(***************************************************************************)
(* What undo and redo promise, whatever they are made of: one line of      *)
(* documents and a place on it. An edit goes on from that place and drops  *)
(* what came after it; undo and redo only move. The line is remembered for *)
(* Limit edits back. A change that makes no entry of its own rewrites the  *)
(* document it happens to.                                                 *)
(***************************************************************************)
EXTENDS Naturals, Sequences

CONSTANT Limit

VARIABLES
  line, \* the documents, oldest first
  at    \* the one on screen

Init == Len(line) = 1 /\ at = 1

\* Whatever is done, a document is on screen: now is the one after this step.
now == line'[at']

\* The edit starts from the document before, which is what is on screen.
Edit ==
  /\ at' = IF at > Limit THEN at ELSE at + 1
  /\ line' = LET grown == Append(SubSeq(line, 1, at), now)
             IN  IF at > Limit THEN Tail(grown) ELSE grown

Amend == at' = at /\ line' = [line EXCEPT ![at] = now]

Undo == at > 1 /\ at' = at - 1 /\ line' = line
Redo == at < Len(line) /\ at' = at + 1 /\ line' = line

\* Another document altogether, with no past.
Replace == at' = 1 /\ Len(line') = 1

Next == Edit \/ Amend \/ Undo \/ Redo \/ Replace
Spec == Init /\ [][Next]_<<line, at>>
=============================================================================
