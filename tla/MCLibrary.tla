------------------------------ MODULE MCLibrary ------------------------------
(***************************************************************************)
(* One publication, which alone fills the library, and one project. Three  *)
(* commands side by side and four in all let two removals overlap and an   *)
(* import come between them; a program that died leaves its staging        *)
(* folder, which competes with the next import for the room.               *)
(***************************************************************************)
EXTENDS Library, TLC

MCSize == [p \in Publication |-> 1]
Symmetry == Permutations(Publication) \cup Permutations(Call)
=============================================================================
