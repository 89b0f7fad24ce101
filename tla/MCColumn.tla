------------------------------ MODULE MCColumn ------------------------------
(* Column on small instances. *)
EXTENDS Column

AllOrTwo == {-1, 2}
AllOrThree == {-1, 3}
=============================================================================
