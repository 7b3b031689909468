----------------------------- MODULE MCTypeGraph -----------------------------
(***************************************************************************)
(* Every name of the table at both ends, bare and within every nesting of  *)
(* up to two generics: one initial state for each pair and each value.     *)
(***************************************************************************)
EXTENDS TypeGraph
=============================================================================
