----------------------------- MODULE MCLifecycle -----------------------------
(* Two start commands: one that finds the other running, or comes after it. *)
EXTENDS Lifecycle
==============================================================================
