------------------------------- MODULE Import -------------------------------
(***************************************************************************)
(* Importing a delimited file into a table: RS_sqlite_import() and         *)
(* RS_sqlite_getline() of src/src/import-file.c, called by dbWriteTable()  *)
(* with a file name.                                                       *)
(*                                                                         *)
(* The file is read line by line; each line is split into fields, bound to *)
(* an INSERT and executed.  What becomes of the inserted rows when a later *)
(* line fails is the business of module Transactions.                      *)
(*                                                                         *)
(* A file is a sequence of tokens: "a" for any ordinary character, ";" for *)
(* one that separators are made of, "CR" and "LF", and "NA" for the two    *)
(* characters \N that stand for NULL.                                      *)
(***************************************************************************)
EXTENDS Integers, Sequences, SequencesExt

CONSTANTS
  Tokens,           \* the tokens of files
  Dialects,         \* pairs of a separator and an end-of-line
  Skips,            \* values of skip, with header = TRUE counted
  ColumnCounts,     \* columns the table may have
  Leftovers,        \* what uninitialized memory may hold up to its first zero
  MaxFile           \* bound: tokens of a file

ASSUME ConstantsAssumption ==
  /\ \A d \in Dialects : d[1] \in Seq(Tokens) \ {<<>>} /\ d[2] \in Seq(Tokens) \ {<<>>}
  /\ Skips \subseteq Nat
  /\ ColumnCounts \subseteq Nat \ {0}
  /\ Leftovers \subseteq Seq(Tokens)
  /\ MaxFile \in Nat

VARIABLES
  file,             \* the contents of the file
  separator, eol, skip, nCol,
  status,           \* "reading", "done", or the error: "columns", "insert"
  pos,              \* tokens read from the file
  lineno,           \* lines read
  rows,             \* the rows inserted
  spans,            \* history: where the line of each row is in the file
  begun             \* history: where the first line not skipped starts

inputVars == <<file, separator, eol, skip, nCol>>
vars == <<inputVars, status, pos, lineno, rows, spans, begun>>

Init ==
  /\ file \in BoundedSeq(Tokens, MaxFile)
  /\ \E d \in Dialects : separator = d[1] /\ eol = d[2]
  /\ skip \in Skips /\ nCol \in ColumnCounts
  /\ status = "reading" /\ pos = 0 /\ lineno = 0
  /\ rows = <<>> /\ spans = <<>> /\ begun = 0

----------------------------------------------------------------------------
(* RS_sqlite_getline() *)

\* The end-of-line ends at token e of the file, within the current line.  The code
\* has no such bound: when the line is still shorter than the end-of-line it also
\* compares what lies in memory before the buffer.  That is taken to differ, as it
\* does where malloc() keeps the size of a block in front of it: eol has no zero.
EolByLastToken(e) == file[e] = Last(eol)
EolAt(e) ==
  /\ e - Len(eol) >= pos
  /\ SubSeq(file, e - Len(eol) + 1, e) = eol

Terminated == \E e \in pos + 1..Len(file) : EolAt(e)
FirstEol ==
  CHOOSE e \in pos + 1..Len(file) : EolAt(e) /\ \A d \in pos + 1..e - 1 : ~EolAt(d)
LineEnd == IF Terminated THEN FirstEol ELSE Len(file)

\* The text the line buffer holds up to its first zero.  The zero is written
\* over the end-of-line; a last line that has none is followed by whatever
\* malloc() left in the buffer.
Text == IF Terminated THEN SubSeq(file, pos + 1, LineEnd - Len(eol))
                      ELSE SubSeq(file, pos + 1, Len(file))
Lines == IF Terminated THEN {Text} ELSE {Text \o g : g \in Leftovers}

\* The function returns NULL: at the end of the file, and for a blank line.
NoLine(line) == pos = Len(file) \/ line = <<>>

----------------------------------------------------------------------------
(* RS_sqlite_import() *)

\* The scan of a line stops at its end, and at a CR or LF: one that is part of a
\* separator already found was stepped over with it.
ScanStops(line, z) == z > Len(line) \/ line[z] \in {"CR", "LF"}

FirstTokenAt(line, z) == line[z] = separator[1]
SeparatorAt(line, z) ==
  /\ z + Len(separator) - 1 <= Len(line)
  /\ SubSeq(line, z, z + Len(separator) - 1) = separator

\* Where the separators start: those found from left to right.  The code steps
\* over the rest of a separator only while i < nCol; after that it may count more
\* of them than there are here, in a line that has too many columns already.
NextToken == Len(separator)
Cuts(line) ==
  LET cuts[z \in 1..Len(line) + Len(separator)] ==
        IF ScanStops(line, z) THEN <<>>
        ELSE IF SeparatorAt(line, z) THEN <<z>> \o cuts[z + NextToken]
        ELSE cuts[z + 1]
  IN  cuts[1]

\* azCol[]: every separator is overwritten by a zero.
Fields(line) ==
  LET cuts == Cuts(line)
      start(j) == IF j = 1 THEN 1 ELSE cuts[j - 1] + Len(separator)
      end(j)   == IF j > Len(cuts) THEN Len(line) ELSE cuts[j] - 1
  IN  [j \in 1..Len(cuts) + 1 |-> SubSeq(line, start(j), end(j))]

\* A field that begins with "\N" is bound as NULL.
Null == <<"NULL">>
Value(field) == IF field # <<>> /\ field[1] = "NA" THEN Null ELSE field
RowOf(line) == [j \in 1..nCol |-> Value(Fields(line)[j])]

Advance == pos' = LineEnd /\ lineno' = lineno + 1

SkipLineTooMany == lineno <= skip
SkipsLine == lineno < skip

SkipLine ==
  /\ status = "reading"
  /\ \E line \in Lines : ~NoLine(line)
  /\ SkipsLine
  /\ Advance
  /\ begun' = LineEnd
  /\ UNCHANGED <<inputVars, status, rows, spans>>

InsertRow ==
  /\ status = "reading" /\ ~SkipsLine
  /\ \E line \in Lines :
       /\ ~NoLine(line)
       /\ Len(Fields(line)) = nCol
       /\ rows' = Append(rows, RowOf(line))
  /\ spans' = Append(spans, <<pos + 1, pos + Len(Text)>>)
  /\ Advance
  /\ UNCHANGED <<inputVars, status, begun>>

\* "expected %d columns of data but found %d"
WrongColumns ==
  /\ status = "reading" /\ ~SkipsLine
  /\ \E line \in Lines : ~NoLine(line) /\ Len(Fields(line)) # nCol
  /\ status' = "columns"
  /\ Advance
  /\ UNCHANGED <<inputVars, rows, spans, begun>>

\* sqlite3_step() refuses the row, for a constraint of the table.
InsertFails ==
  /\ status = "reading" /\ ~SkipsLine
  /\ \E line \in Lines : ~NoLine(line) /\ Len(Fields(line)) = nCol
  /\ status' = "insert"
  /\ Advance
  /\ UNCHANGED <<inputVars, rows, spans, begun>>

Finish ==
  /\ status = "reading"
  /\ \E line \in Lines : NoLine(line)
  /\ status' = "done"
  /\ pos' = LineEnd
  /\ UNCHANGED <<inputVars, lineno, rows, spans, begun>>

Next == SkipLine \/ InsertRow \/ WrongColumns \/ InsertFails \/ Finish

Spec == Init /\ [][Next]_vars

----------------------------------------------------------------------------
(* Properties *)

TextOf(r) == SubSeq(file, spans[r][1], spans[r][2])
Occurs(text, p) == p + Len(text) - 1 <= Len(file) /\ SubSeq(file, p, p + Len(text) - 1) = text

\* The line of row r ends with an end-of-line.
Ended(r) == Occurs(eol, spans[r][2] + 1)
Join(row) == row[1] \o FlattenSeq([j \in 1..Len(row) - 1 |-> separator \o row[j + 1]])

\* Writing the fields of a row with separators between them gives back its line,
\* and no field holds a separator, unless a CR or LF comes before it: nothing is
\* lost, invented or left unsplit, except in a NULL and in a last line without an
\* end-of-line.
RowsSpellTheirLines ==
  \A r \in DOMAIN rows :
    Ended(r) /\ (\A j \in 1..nCol : rows[r][j] # Null) =>
      /\ Join(rows[r]) = TextOf(r)
      /\ \A j \in 1..nCol :
           \/ ToSet(rows[r][j]) \cap {"CR", "LF"} # {}
           \/ separator \notin SubSeqs(rows[r][j])

\* The lines of the rows follow each other in the file, from the first that was
\* not skipped on, with one end-of-line after each: none is left out or split.
LinesFollow ==
  \A r \in DOMAIN rows :
    /\ spans[r][1] = IF r = 1 THEN begun + 1 ELSE spans[r - 1][2] + Len(eol) + 1
    /\ r < Len(rows) => Ended(r)
    /\ eol \notin SubSeqs(TextOf(r))

\* An import that succeeds has read the file to its end, or to a blank line, where
\* it stops without a word; every line before was skipped or is a row of the table.
SuccessIsComplete ==
  status = "done" =>
    /\ \/ pos = Len(file)
       \/ /\ pos >= Len(eol) /\ Occurs(eol, pos - Len(eol) + 1)
          /\ \/ pos = Len(eol)
             \/ pos >= 2 * Len(eol) /\ Occurs(eol, pos - 2 * Len(eol) + 1)
    /\ Len(rows) = IF lineno > skip THEN lineno - skip ELSE 0
=============================================================================
