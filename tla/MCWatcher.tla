----------------------------- MODULE MCWatcher -----------------------------
(* Two files, so that one can be handed over in the poll in which the      *)
(* other goes, and two polls of patience as in the code.                   *)
EXTENDS Watcher
=============================================================================
