---------------------------- MODULE MCResultSet ----------------------------
(* ResultSet on small instances. *)
EXTENDS ResultSet

CONSTANTS two, none, bad, empty, part

\* One group of two rows, one of none, one that is refused.
InputValues == {two, none, bad}
RowCounts == two :> 2 @@ none :> 0 @@ bad :> 0 @@ empty :> 3 @@ part :> 1
ChangeCounts == two :> 2 @@ none :> 1 @@ bad :> 0 @@ empty :> 1 @@ part :> 1
FetchChoices == {-1, 2}
=============================================================================
