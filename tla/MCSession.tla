------------------------------ MODULE MCSession ------------------------------
(* Three triggers, a queue of three and polls of up to four events each:   *)
(* a single poll can overflow an empty queue.                              *)
EXTENDS Session
=============================================================================
