------------------------------ MODULE MCCanvas ------------------------------
(***************************************************************************)
(* One component, which fits itself: two steps of it can be connected both *)
(* ways round, and a third lets an end be fed twice.                       *)
(***************************************************************************)
EXTENDS Canvas

CONSTANT c1
MCFits == {<<c1, c1>>}
=============================================================================
