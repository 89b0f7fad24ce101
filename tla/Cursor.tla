------------------------------- MODULE Cursor -------------------------------
(***************************************************************************)
(* What a result set promises its caller, without statements, parameter    *)
(* groups or lookahead: binding makes a queue of rows, each dbFetch takes  *)
(* the next rows from its head, and after an error or an interrupt nothing *)
(* is promised until the next bind.                                        *)
(***************************************************************************)
EXTENDS Integers, Sequences

CONSTANTS Answers,    \* the row sequences a bind can make available
          FetchSizes  \* as in ResultSet

VARIABLES mode,       \* "closed", "unbound", "bound", "broken"
          todo,       \* rows not yet returned
          got         \* rows the last dbFetch returned

cursorVars == <<mode, todo, got>>

Init == mode = "closed" /\ todo = <<>> /\ got = <<>>

\* dbSendQuery() or dbBind(): a new queue of rows, or none yet.
Bind ==
  /\ \/ mode' = "bound" /\ todo' \in Answers
     \/ mode = "closed" /\ mode' = "unbound" /\ todo' = <<>>
  /\ got' = <<>>

\* dbFetch(n)
Fetch(n) ==
  LET m == IF n < 0 \/ n > Len(todo) THEN Len(todo) ELSE n
  IN  /\ mode = "bound"
      /\ got' = SubSeq(todo, 1, m)
      /\ todo' = SubSeq(todo, m + 1, Len(todo))
      /\ UNCHANGED mode

\* An error or an interrupt; from here to the next bind any answer is possible.
Break == mode' = "broken" /\ todo' = <<>> /\ got' = <<>>

\* dbClearResult(), or a query that could not be sent.
Close == mode' = "closed" /\ todo' = <<>> /\ got' = <<>>

Next == Bind \/ (\E n \in FetchSizes : Fetch(n)) \/ Break \/ Close

Spec == Init /\ [][Next]_cursorVars
=============================================================================
