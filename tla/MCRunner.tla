------------------------------ MODULE MCRunner ------------------------------
(***************************************************************************)
(* A workflow small enough to check: a trigger with two outputs, two steps *)
(* that read the same one, a step that merges what they produce with the   *)
(* trigger's other output, and one after it, that can be skipped because   *)
(* the one before it was.                                                  *)
(*                                                                         *)
(*          file --> left  --> merge --> log                               *)
(*   watch  file ==> right --> merge     (right reads file on two inputs)  *)
(*          name ------------> merge                                       *)
(***************************************************************************)
EXTENDS RunnerInvariant

MCNode == {"watch", "left", "right", "merge", "log"}
MCPort == {"file", "name", "l", "r", "out"}
MCEdge == {"file-left", "file-right", "file-also-right", "l-merge", "r-merge", "name-merge", "out-log"}
MCOwner ==
  [p \in MCPort |-> CASE p \in {"file", "name"} -> "watch"
                      [] p = "l" -> "left"
                      [] p = "r" -> "right"
                      [] p = "out" -> "merge"]
MCSource ==
  [e \in MCEdge |-> CASE e \in {"file-left", "file-right", "file-also-right"} -> "file"
                      [] e = "name-merge" -> "name"
                      [] e = "l-merge" -> "l"
                      [] e = "r-merge" -> "r"
                      [] e = "out-log" -> "out"]
MCTarget ==
  [e \in MCEdge |-> CASE e = "file-left" -> "left"
                      [] e \in {"file-right", "file-also-right"} -> "right"
                      [] e = "out-log" -> "log"
                      [] OTHER -> "merge"]
MCOrder == <<"watch", "left", "right", "merge", "log">>
MCTrigger == {"watch"}
MCUnwrapped == {"l-merge"}
MCFallible == {"r-merge"}
=============================================================================
