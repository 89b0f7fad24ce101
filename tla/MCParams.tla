------------------------------ MODULE MCParams ------------------------------
(* Params on all texts of up to three of seven placeholders. *)
EXTENDS Params

Placeholder(s, m) == [sigil |-> s, name |-> m]

\* "?", "?1", "?2", ":a", "@a", ":b" and the numeral as a name, ":1"
TokenChoices ==
  {Anonymous, Placeholder("?", "1"), Placeholder("?", "2"), Placeholder(":", "a"),
   Placeholder("@", "a"), Placeholder(":", "b"), Placeholder(":", "1")}
Numerals == "1" :> 1 @@ "2" :> 2
=============================================================================
