------------------------------ MODULE Affinity ------------------------------
(***************************************************************************)
(* The affinity of a declared type: sqlite3AffinityType() in               *)
(* src/src/affinity.c, from which a column without values gets its R type  *)
(* (DeclType in module Column).  The comment on the function gives a table *)
(* of substrings in order of priority; the code finds them in one pass     *)
(* over the characters, with the last four of them shifted through a       *)
(* 32-bit number.                                                          *)
(***************************************************************************)
EXTENDS Integers, Sequences

CONSTANTS
  Char,             \* the characters of declared types
  Lower             \* sqlite3UpperToLower

VARIABLES
  type,             \* the declared type
  pos,              \* how many of its characters are read (zIn)
  h,                \* the four bytes of h, the last character at the end
  aff,              \* aff
  done              \* the loop is left

vars == <<type, pos, h, aff, done>>

\* A byte of h that no character has been shifted into.
NoChar == ""

Init ==
  /\ type \in Seq(Char)
  /\ pos = 0 /\ h = <<NoChar, NoChar, NoChar, NoChar>>
  /\ aff = "NUMERIC" /\ done = FALSE

\* h = (h << 8) + c, in 32 bits
Shift(c) == <<h[2], h[3], h[4], c>>

TextWords == {<<"c", "h", "a", "r">>, <<"c", "l", "o", "b">>, <<"t", "e", "x", "t">>}
BlobWords == {<<"b", "l", "o", "b">>}
RealWords == {<<"r", "e", "a", "l">>, <<"f", "l", "o", "a">>, <<"d", "o", "u", "b">>}

\* (h & 0x00FFFFFF) is INT
IsInt(g) == g[2] = "i" /\ g[3] = "n" /\ g[4] = "t"

\* The chain of else-ifs: the affinity a so far, the characters g.
NewAff(a, g) ==
  IF g \in TextWords THEN "TEXT"
  ELSE IF g \in BlobWords /\ a \in {"NUMERIC", "REAL"} THEN "BLOB"
  ELSE IF g \in RealWords /\ a = "NUMERIC" THEN "REAL"
  ELSE IF IsInt(g) THEN "INTEGER"
  ELSE a

Scan ==
  /\ ~done /\ pos < Len(type)
  /\ pos' = pos + 1
  /\ h' = Shift(Lower[type[pos + 1]])
  /\ aff' = NewAff(aff, h')
  /\ done' = IsInt(h')
  /\ UNCHANGED type

\* The terminating zero.
Stop ==
  /\ ~done /\ pos = Len(type)
  /\ done' = TRUE
  /\ UNCHANGED <<type, pos, h, aff>>

Next == Scan \/ Stop

Spec == Init /\ [][Next]_vars

----------------------------------------------------------------------------
(* The table *)

\* The four characters that end at position k of a type, in lower case.
CharAt(t, k) == IF k \in 1..Len(t) THEN Lower[t[k]] ELSE NoChar
WordAt(t, k) == <<CharAt(t, k - 3), CharAt(t, k - 2), CharAt(t, k - 1), CharAt(t, k)>>

\* One of the words, or INT, occurs in the first p characters.
Occurs(words, t, p) == \E k \in 1..p : WordAt(t, k) \in words
IntOccurs(t, p) == \E k \in 1..p : IsInt(WordAt(t, k))

\* "If zType contains more than one of the substrings, entries toward the top
\* of the table take priority."
Table(t, p) ==
  IF IntOccurs(t, p) THEN "INTEGER"
  ELSE IF Occurs(TextWords, t, p) THEN "TEXT"
  ELSE IF Occurs(BlobWords, t, p) THEN "BLOB"
  ELSE IF Occurs(RealWords, t, p) THEN "REAL"
  ELSE "NUMERIC"

\* The affinity is the one the table gives for the whole type, although the
\* scan stops at INT and sees the words in the order of the type.
FollowsTable == done => aff = Table(type, Len(type))
=============================================================================
