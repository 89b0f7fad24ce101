--------------------------- MODULE ScannerProofs ---------------------------
(***************************************************************************)
(* Proofs about the two scanners of text: RS_sqlite_import() with          *)
(* RS_sqlite_getline(), and sqlite3AffinityType().                         *)
(*                                                                         *)
(* The invariant of the import, IInv, is that the file is read up to an    *)
(* end-of-line and that each line not skipped is a row.  That the rows     *)
(* spell their lines needs what the scan of a line finds: where it stops,  *)
(* where it cuts (Cuts, a recursive function) and that the fields with     *)
(* separators between them are the line again (Join, a FlattenSeq).        *)
(*                                                                         *)
(* The scan of a declared type keeps the entry of the table for the        *)
(* characters read so far.                                                 *)
(***************************************************************************)
EXTENDS Import, SequenceLemmas

CONSTANTS Char, Lower
VARIABLES type, at, h, aff, done

\* The scan of a declared type has read at characters.
Declared == INSTANCE Affinity WITH pos <- at

----------------------------------------------------------------------------
(* The invariant of the import *)

\* The types of what does not change, and where the file is read.
Inputs ==
  /\ file \in Seq(Tokens) /\ separator \in Seq(Tokens) \ {<<>>}
  /\ eol \in Seq(Tokens) \ {<<>>} /\ skip \in Nat /\ nCol \in Nat \ {0}

Reading ==
  /\ status \in {"reading", "done", "columns", "insert"}
  /\ pos \in 0..Len(file) /\ lineno \in Nat /\ begun \in Nat
  /\ spans \in Seq(Nat \X Nat) /\ rows \in Seq(Seq(Seq(Tokens \cup {"NULL"})))
  /\ Len(rows) = Len(spans)

\* The file is read up to an end-of-line, or to its end.
EolBefore(p) == p >= Len(eol) /\ Occurs(eol, p - Len(eol) + 1)
PosInv ==
  status = "reading" =>
    /\ pos = 0 \/ pos = Len(file) \/ EolBefore(pos)
    /\ rows = <<>> => pos = begun
    /\ rows # <<>> => \/ pos = Len(file)
                      \/ Ended(Len(rows)) /\ pos = spans[Len(rows)][2] + Len(eol)

\* Lines are skipped first, and each of the others is a row.
CountInv ==
  status \in {"reading", "done"} =>
    Len(rows) = IF lineno > skip THEN lineno - skip ELSE 0

IInv ==
  /\ Inputs /\ Reading /\ PosInv /\ CountInv
  /\ LinesFollow /\ SuccessIsComplete /\ RowsSpellTheirLines

----------------------------------------------------------------------------
(* What RS_sqlite_getline() finds *)

\* A part of a part is a part.
LEMMA PartOfPart ==
  ASSUME NEW S, NEW s \in Seq(S), NEW m \in Nat, NEW n \in Nat, n <= Len(s),
         NEW a \in Nat, NEW b \in Nat, a < b, m + b <= n
  PROVE  /\ SubSeq(s, m + 1, n) \in Seq(S) /\ Len(SubSeq(s, m + 1, n)) = n - m
         /\ SubSeq(SubSeq(s, m + 1, n), a + 1, b) = SubSeq(s, m + a + 1, m + b)
<1> DEFINE t == SubSeq(s, m + 1, n)
           u == SubSeq(t, a + 1, b)
           v == SubSeq(s, m + a + 1, m + b)
<1>1. Len(s) \in Nat /\ m + 1 <= n /\ \A i \in 1..Len(s) : s[i] \in S
  OBVIOUS
<1>2. /\ t \in Seq(S) /\ Len(t) = n - m
      /\ \A i \in 1..n - m : t[i] = s[m + i]
  <2>1. /\ t \in Seq(S) /\ Len(t) = IF m + 1 <= n THEN n - (m + 1) + 1 ELSE 0
        /\ \A i \in 1..n - (m + 1) + 1 : t[i] = s[(m + 1) + i - 1]
    BY <1>1, SubSeqProperties
  <2>2. \A i \in 1..n - m : (m + 1) + i - 1 = m + i
    OBVIOUS
  <2> HIDE DEF t
  <2> QED BY <1>1, <2>1, <2>2
<1> HIDE DEF t
<1>3. /\ u \in Seq(S) /\ Len(u) = b - a
      /\ \A i \in 1..b - a : u[i] = t[a + i]
  <2>1. \A i \in a + 1..b : t[i] \in S
    BY <1>1, <1>2
  <2>2. /\ u \in Seq(S) /\ Len(u) = IF a + 1 <= b THEN b - (a + 1) + 1 ELSE 0
        /\ \A i \in 1..b - (a + 1) + 1 : u[i] = t[(a + 1) + i - 1]
    BY <2>1, SubSeqProperties
  <2>3. \A i \in 1..b - a : (a + 1) + i - 1 = a + i
    OBVIOUS
  <2> HIDE DEF u
  <2> QED BY <2>2, <2>3
<1> HIDE DEF u
<1>4. /\ v \in Seq(S) /\ Len(v) = b - a
      /\ \A i \in 1..b - a : v[i] = s[m + a + i]
  <2>1. \A i \in m + a + 1..m + b : s[i] \in S
    BY <1>1
  <2>2. /\ v \in Seq(S)
        /\ Len(v) = IF m + a + 1 <= m + b THEN (m + b) - (m + a + 1) + 1 ELSE 0
        /\ \A i \in 1..(m + b) - (m + a + 1) + 1 : v[i] = s[(m + a + 1) + i - 1]
    BY <2>1, SubSeqProperties, SMTT(30)
  <2>3. /\ (m + b) - (m + a + 1) + 1 = b - a
        /\ \A i \in 1..b - a : (m + a + 1) + i - 1 = m + a + i
    OBVIOUS
  <2> HIDE DEF v
  <2> QED BY <1>1, <2>2, <2>3
<1> HIDE DEF v
<1>5. \A i \in 1..b - a : a + i \in 1..n - m /\ m + (a + i) = m + a + i
  BY <1>1
<1>6. \A i \in 1..b - a : u[i] = v[i]
  BY <1>2, <1>3, <1>4, <1>5
<1>7. u = v
  BY <1>3, <1>4, <1>6
<1> QED BY <1>2, <1>7 DEF t, u, v

\* The first end-of-line after pos.
LEMMA FirstEolIs ==
  ASSUME Inputs, pos \in 0..Len(file), Terminated
  PROVE  /\ FirstEol \in pos + 1..Len(file) /\ EolAt(FirstEol)
         /\ \A d \in pos + 1..FirstEol - 1 : ~EolAt(d)
<1> DEFINE S == {e \in pos + 1..Len(file) : EolAt(e)}
<1>1. S \subseteq Nat /\ S # {} /\ Len(file) \in Nat
  BY DEF Inputs, Terminated
<1>2. PICK m \in S : \A x \in S : m <= x
  <2> HIDE DEF S
  <2> QED BY <1>1, LeastNumber
<1>3. \A d \in pos + 1..m - 1 : d \in pos + 1..Len(file) /\ ~(m <= d)
  BY <1>1, <1>2
<1>4. m \in pos + 1..Len(file) /\ EolAt(m) /\ \A d \in pos + 1..m - 1 : ~EolAt(d)
  BY <1>2, <1>3
<1> QED BY <1>4, Zenon DEF FirstEol

\* A line ends before the first end-of-line, or with the file, and holds none.
LEMMA LineIs ==
  ASSUME Inputs, pos \in 0..Len(file)
  PROVE  /\ Text = SubSeq(file, pos + 1, pos + Len(Text)) /\ Text \in Seq(Tokens)
         /\ LineEnd \in pos..Len(file)
         /\ Terminated => /\ LineEnd = pos + Len(Text) + Len(eol)
                          /\ Occurs(eol, pos + Len(Text) + 1)
         /\ ~Terminated => LineEnd = Len(file) /\ Len(Text) = Len(file) - pos
         /\ eol \notin SubSeqs(Text)
<1>1. /\ file \in Seq(Tokens) /\ Len(file) \in Nat /\ pos \in Nat /\ pos <= Len(file)
      /\ eol \in Seq(Tokens) /\ Len(eol) \in Nat \ {0}
  BY DEF Inputs
<1> DEFINE n == IF Terminated THEN LineEnd - Len(eol) ELSE Len(file)
<1>2. Text = SubSeq(file, pos + 1, n)
  BY DEF Text
<1>3. /\ Terminated => /\ LineEnd \in pos + 1..Len(file) /\ EolAt(LineEnd)
                       /\ \A d \in pos + 1..LineEnd - 1 : ~EolAt(d)
      /\ ~Terminated => LineEnd = Len(file)
  BY FirstEolIs DEF LineEnd
<1>4. n \in pos..Len(file)
  BY <1>1, <1>3 DEF EolAt
<1>5. Text \in Seq(Tokens) /\ Len(Text) = n - pos
  <2>1. \A i \in pos + 1..n : file[i] \in Tokens
    BY <1>1, <1>4
  <2>2. Text \in Seq(Tokens) /\ Len(Text) = IF pos + 1 <= n THEN n - (pos + 1) + 1 ELSE 0
    BY <1>1, <1>2, <1>4, <2>1, SubSeqProperties
  <2> HIDE DEF n
  <2> QED BY <1>1, <1>4, <2>2
<1>6. pos + Len(Text) = n
  BY <1>1, <1>4, <1>5
<1>7. Terminated => /\ LineEnd = pos + Len(Text) + Len(eol)
                    /\ Occurs(eol, pos + Len(Text) + 1)
  <2> SUFFICES ASSUME Terminated
               PROVE  /\ LineEnd = pos + Len(Text) + Len(eol)
                      /\ Occurs(eol, pos + Len(Text) + 1)
    OBVIOUS
  <2>1. LineEnd = n + Len(eol) /\ LineEnd \in pos + 1..Len(file) /\ EolAt(LineEnd)
    BY <1>1, <1>3
  <2>2. LineEnd - Len(eol) + 1 = n + 1 /\ (n + 1) + Len(eol) - 1 = LineEnd
    BY <1>1, <1>4, <2>1
  <2>3. SubSeq(file, n + 1, LineEnd) = eol /\ LineEnd <= Len(file)
    BY <2>1, <2>2 DEF EolAt
  <2> QED BY <1>6, <2>1, <2>2, <2>3 DEF Occurs
<1>8. eol \notin SubSeqs(Text)
  <2> SUFFICES ASSUME NEW a \in 0..Len(Text), NEW b \in 0..Len(Text),
                      eol = SubSeq(Text, a + 1, b)
               PROVE  FALSE
    BY DEF SubSeqs
  <2>1. a \in Nat /\ b \in Nat /\ a < b /\ pos + b <= n
    <3>1. Len(eol) = IF a + 1 <= b THEN b - (a + 1) + 1 ELSE 0
      <4>1. \A i \in a + 1..b : Text[i] \in Tokens
        BY <1>5
      <4> QED BY <4>1, <1>1, <1>4, <1>5, SubSeqProperties
    <3> QED BY <1>1, <1>4, <1>5, <3>1
  <2>2. eol = SubSeq(file, pos + a + 1, pos + b)
    BY <1>1, <1>2, <1>4, <2>1, PartOfPart
  <2>3. Len(eol) = b - a
    <3>1. \A i \in pos + a + 1..pos + b : file[i] \in Tokens
      BY <1>1, <1>4, <2>1
    <3>2. Len(eol) = IF pos + a + 1 <= pos + b THEN (pos + b) - (pos + a + 1) + 1 ELSE 0
      BY <1>1, <2>1, <2>2, <3>1, SubSeqProperties
    <3> QED BY <1>1, <2>1, <3>2
  <2> DEFINE e == pos + b
  <2>4. e - Len(eol) = pos + a /\ e \in pos + 1..Len(file) /\ e <= n
    BY <1>1, <1>4, <2>1, <2>3
  <2>5. EolAt(e)
    BY <1>1, <2>1, <2>2, <2>4 DEF EolAt
  <2> HIDE DEF e
  <2>6. Terminated
    BY <2>4, <2>5 DEF Terminated
  <2>7. LineEnd = n + Len(eol) /\ LineEnd \in Nat /\ n \in Nat
    BY <1>1, <1>3, <1>4, <2>6
  <2>8. e \in pos + 1..LineEnd - 1
    <3> HIDE DEF n
    <3> QED BY <1>1, <2>4, <2>7
  <2> QED BY <1>3, <2>5, <2>6, <2>8
<1>9. LineEnd \in pos..Len(file)
  BY <1>1, <1>3
<1> QED BY <1>1, <1>2, <1>3, <1>4, <1>5, <1>6, <1>7, <1>8, <1>9

----------------------------------------------------------------------------
(* How RS_sqlite_import() splits a line *)

\* The equation of the recursion in Cuts, which looks ahead only.
CutsFrom(f, z, line) ==
  IF ScanStops(line, z) THEN <<>>
  ELSE IF SeparatorAt(line, z) THEN <<z>> \o f[z + NextToken]
  ELSE f[z + 1]

\* Cuts is the value at the first token of a function that exists.
LEMMA CutsDefined ==
  ASSUME Inputs, NEW line \in Seq(Tokens)
  PROVE  \E f : /\ \A z \in 1..Len(line) + Len(separator) : f[z] = CutsFrom(f, z, line)
                /\ Cuts(line) = f[1]
<1> DEFINE s == Len(line) + 1
           n == Len(line) + Len(separator)
           From(f, m) == \A z \in 1..n : z >= s - m => f[z] = CutsFrom(f, z, line)
           Some(m) == \E f : f = [z \in 1..n |-> f[z]] /\ From(f, m)
           P == {m \in Nat : Some(m)}
<1>1. s \in Nat \ {0} /\ Len(separator) \in Nat \ {0} /\ NextToken = Len(separator)
  BY DEF Inputs, NextToken
<1>2. 0 \in P
  <2> DEFINE f == [z \in 1..n |-> <<>>]
  <2>1. f = [z \in 1..n |-> f[z]]
    OBVIOUS
  <2>2. From(f, 0)
    <3> SUFFICES ASSUME NEW z \in 1..n, z >= s - 0 PROVE f[z] = CutsFrom(f, z, line)
      OBVIOUS
    <3>1. f[z] = <<>> /\ ScanStops(line, z)
      BY <1>1 DEF ScanStops
    <3> QED BY <3>1, Zenon DEF CutsFrom
  <2> HIDE DEF f, From
  <2> QED BY <2>1, <2>2
<1>3. ASSUME NEW m \in Nat, m \in P PROVE m + 1 \in P
  <2>1. PICK f : f = [z \in 1..n |-> f[z]] /\ From(f, m)
    <3> HIDE DEF From
    <3> QED BY <1>3
  <2> DEFINE a == s - (m + 1)
             g == [z \in 1..n |-> IF z = a THEN CutsFrom(f, z, line) ELSE f[z]]
  <2>2. g = [z \in 1..n |-> g[z]]
    OBVIOUS
  <2>3. /\ \A z \in 1..n : z # a => g[z] = f[z]
        /\ a \in 1..n => g[a] = CutsFrom(f, a, line)
    <3> HIDE DEF a
    <3> QED OBVIOUS
  <2> HIDE DEF g
  <2>4. ASSUME NEW z \in 1..n, z >= a
        PROVE  CutsFrom(f, z, line) = CutsFrom(g, z, line)
    <3>1. CASE z >= s
      <4>1. ScanStops(line, z)
        BY <3>1 DEF ScanStops
      <4> QED BY <4>1, Zenon DEF CutsFrom
    <3>2. CASE ~(z >= s)
      <4>1. /\ z + NextToken \in 1..n /\ z + NextToken # a
            /\ z + 1 \in 1..n /\ z + 1 # a
        BY <1>1, <2>4, <3>2
      <4>2. g[z + NextToken] = f[z + NextToken] /\ g[z + 1] = f[z + 1]
        BY <2>3, <4>1
      <4> QED BY <4>2, Zenon DEF CutsFrom
    <3> QED BY <3>1, <3>2
  <2>5. From(g, m + 1)
    <3> SUFFICES ASSUME NEW z \in 1..n, z >= a PROVE g[z] = CutsFrom(g, z, line)
      OBVIOUS
    <3>1. CASE z = a
      BY <2>3, <2>4, <3>1
    <3>2. CASE z # a
      <4>1. z >= s - m
        BY <1>1, <3>2
      <4>2. f[z] = CutsFrom(f, z, line)
        BY <2>1, <4>1
      <4> QED BY <2>3, <2>4, <3>2, <4>2
    <3> QED BY <3>1, <3>2
  <2> HIDE DEF From
  <2>6. Some(m + 1)
    BY <2>2, <2>5
  <2> HIDE DEF Some
  <2> QED BY <2>6
<1> DEFINE D(f) == f = [z \in 1..n |-> CutsFrom(f, z, line)]
<1>4. \E f : D(f)
  <2> HIDE DEF P
  <2>1. s \in P
    BY <1>1, <1>2, <1>3, Induction
  <2>2. PICK f : f = [z \in 1..n |-> f[z]] /\ From(f, s)
    <3> HIDE DEF From
    <3> QED BY <2>1 DEF P
  <2>3. \A z \in 1..n : z >= s - s
    BY <1>1
  <2>4. \A z \in 1..n : f[z] = CutsFrom(f, z, line)
    BY <2>2, <2>3
  <2>5. [z \in 1..n |-> f[z]] = [z \in 1..n |-> CutsFrom(f, z, line)]
    BY <2>4, Zenon
  <2> QED BY <2>2, <2>5
<1>5. Cuts(line) = (CHOOSE f : D(f))[1]
  BY Zenon DEF Cuts, CutsFrom
<1>6. PICK f : D(f) /\ f = CHOOSE g : D(g)
  <2> HIDE DEF D
  <2> QED BY <1>4
<1>7. \A z \in 1..n : f[z] = CutsFrom(f, z, line)
  BY <1>6, Zenon
<1> QED BY <1>5, <1>6, <1>7

\* Token p is in one of the separators that begin at c.
InCut(c, p) == \E i \in 1..Len(c) : c[i] <= p /\ p < c[i] + Len(separator)

\* A CR or LF from z to p stops the scan: it is after every cut.
StoppedBy(c, z, p, line) ==
  \E q \in Nat : /\ z <= q /\ q <= p /\ line[q] \in {"CR", "LF"}
                /\ \A i \in 1..Len(c) : c[i] + Len(separator) <= q

\* c are the cuts from z on: separators apart from each other, and every
\* separator begins in one of them, or after the scan has stopped.
CutsOK(c, z, line) ==
  /\ c \in Seq(Nat)
  /\ \A i \in 1..Len(c) : c[i] >= z /\ SeparatorAt(line, c[i])
  /\ \A i, k \in 1..Len(c) : i < k => c[i] + Len(separator) <= c[k]
  /\ \A p \in Nat : p >= z /\ SeparatorAt(line, p) =>
       InCut(c, p) \/ StoppedBy(c, z, p, line)

\* One more cut, at the front.
LEMMA CutBefore ==
  ASSUME Inputs, NEW line \in Seq(Tokens), NEW z \in Nat,
         SeparatorAt(line, z), NEW d, CutsOK(d, z + Len(separator), line)
  PROVE  CutsOK(<<z>> \o d, z, line)
<1> DEFINE c == <<z>> \o d
           L == Len(separator)
<1>1. L \in Nat \ {0} /\ d \in Seq(Nat) /\ Len(d) \in Nat
  BY DEF Inputs, CutsOK
<1>2. /\ c \in Seq(Nat) /\ Len(c) = Len(d) + 1 /\ c[1] = z
      /\ \A i \in 1..Len(d) : c[i + 1] = d[i]
  BY <1>1
<1> HIDE DEF c
<1>3. \A i \in 1..Len(c) : i = 1 \/ i - 1 \in 1..Len(d)
  BY <1>1, <1>2
<1>4. \A i \in 1..Len(c) : i # 1 => c[i] = d[i - 1]
  <2> SUFFICES ASSUME NEW i \in 1..Len(c), i # 1 PROVE c[i] = d[i - 1]
    OBVIOUS
  <2>1. i - 1 \in 1..Len(d) /\ (i - 1) + 1 = i
    BY <1>3
  <2> QED BY <1>2, <2>1
<1>5. /\ \A i \in 1..Len(d) : d[i] \in Nat /\ d[i] >= z + L /\ SeparatorAt(line, d[i])
      /\ \A i, k \in 1..Len(d) : i < k => d[i] + L <= d[k]
      /\ \A p \in Nat : p >= z + L /\ SeparatorAt(line, p) =>
           InCut(d, p) \/ StoppedBy(d, z + L, p, line)
  BY <1>1 DEF CutsOK
<1>6. ASSUME NEW i \in 1..Len(c)
      PROVE  c[i] >= z /\ SeparatorAt(line, c[i])
  <2>1. CASE i = 1
    BY <1>1, <1>2, <2>1
  <2>2. CASE i # 1
    <3>1. i - 1 \in 1..Len(d) /\ c[i] = d[i - 1]
      BY <1>3, <1>4, <2>2
    <3>2. d[i - 1] \in Nat /\ d[i - 1] >= z + L /\ SeparatorAt(line, d[i - 1])
      BY <1>5, <3>1
    <3>3. c[i] \in Nat /\ c[i] >= z + L /\ SeparatorAt(line, c[i])
      BY <3>1, <3>2, Zenon
    <3> QED BY <1>1, <3>3
  <2> QED BY <2>1, <2>2
<1>7. ASSUME NEW i \in 1..Len(c), NEW k \in 1..Len(c), i < k
      PROVE  c[i] + L <= c[k]
  <2>1. k # 1 /\ k - 1 \in 1..Len(d) /\ c[k] = d[k - 1]
    BY <1>2, <1>3, <1>4, <1>7
  <2>2. d[k - 1] \in Nat /\ d[k - 1] >= z + L
    BY <1>5, <2>1
  <2>3. CASE i = 1
    BY <1>1, <1>2, <2>1, <2>2, <2>3
  <2>4. CASE i # 1
    <3>1. i - 1 \in 1..Len(d) /\ c[i] = d[i - 1] /\ i - 1 < k - 1
      BY <1>3, <1>4, <1>7, <2>4
    <3>2. d[i - 1] + L <= d[k - 1]
      BY <1>5, <2>1, <3>1
    <3> QED BY <2>1, <3>1, <3>2
  <2> QED BY <2>3, <2>4
<1>8. ASSUME NEW p \in Nat, p >= z, SeparatorAt(line, p)
      PROVE  InCut(c, p) \/ StoppedBy(c, z, p, line)
  <2>1. CASE p < z + L
    <3>1. 1 \in 1..Len(c) /\ c[1] <= p /\ p < c[1] + L
      BY <1>1, <1>2, <1>8, <2>1
    <3> QED BY <3>1 DEF InCut
  <2>2. CASE ~(p < z + L)
    <3>1. InCut(d, p) \/ StoppedBy(d, z + L, p, line)
      <4>1. p >= z + L
        BY <1>1, <2>2
      <4> QED BY <1>5, <1>8, <4>1, Zenon
    <3>2. CASE InCut(d, p)
      <4>1. PICK i \in 1..Len(d) : d[i] <= p /\ p < d[i] + L
        BY <3>2 DEF InCut
      <4>2. i + 1 \in 1..Len(c) /\ c[i + 1] = d[i]
        BY <1>1, <1>2, <4>1
      <4> QED BY <4>1, <4>2 DEF InCut
    <3>3. CASE StoppedBy(d, z + L, p, line)
      <4>1. PICK q \in Nat : /\ z + L <= q /\ q <= p /\ line[q] \in {"CR", "LF"}
                            /\ \A i \in 1..Len(d) : d[i] + L <= q
        BY <3>3 DEF StoppedBy
      <4>2. ASSUME NEW i \in 1..Len(c) PROVE c[i] + L <= q
        <5>1. CASE i = 1
          BY <1>2, <4>1, <5>1
        <5>2. CASE i # 1
          BY <1>3, <1>4, <4>1, <5>2
        <5> QED BY <5>1, <5>2
      <4>3. z <= q
        BY <1>1, <4>1
      <4> QED BY <4>1, <4>2, <4>3 DEF StoppedBy
    <3> QED BY <3>1, <3>2, <3>3
  <2> QED BY <2>1, <2>2
<1> QED BY <1>2, <1>6, <1>7, <1>8 DEF CutsOK, c

\* The scan finds the separators from left to right.
LEMMA CutsAre ==
  ASSUME Inputs, NEW line \in Seq(Tokens)
  PROVE  CutsOK(Cuts(line), 1, line)
<1> DEFINE L == Len(separator)
           n == Len(line) + L
           s == Len(line) + 1
<1>1. PICK f : /\ \A z \in 1..n : f[z] = CutsFrom(f, z, line)
               /\ Cuts(line) = f[1]
  BY CutsDefined
<1>2. /\ s \in Nat \ {0} /\ Len(line) \in Nat /\ n \in Nat
      /\ L \in Nat \ {0} /\ NextToken = L
  BY DEF Inputs, NextToken
<1> DEFINE P == {m \in Nat : \A z \in 1..n : z >= s - m => CutsOK(f[z], z, line)}
\* Where the scan stops there are no more cuts.
<1>0. ASSUME NEW z \in 1..n, ScanStops(line, z) PROVE CutsOK(f[z], z, line)
  <2>1. f[z] = CutsFrom(f, z, line)
    BY <1>1, Zenon
  <2>2. f[z] = <<>>
    BY <1>0, <2>1, Zenon DEF CutsFrom
  <2>3. ASSUME NEW p \in Nat, p >= z, SeparatorAt(line, p)
        PROVE  StoppedBy(<<>>, z, p, line)
    <3>1. p <= Len(line)
      BY <1>2, <2>3 DEF SeparatorAt
    <3>2. z \in Nat /\ z <= p /\ ~(z > Len(line))
      BY <1>2, <2>3, <3>1
    <3>3. line[z] \in {"CR", "LF"}
      BY <1>0, <3>2, Zenon DEF ScanStops
    <3> QED BY <3>2, <3>3 DEF StoppedBy
  <2> QED BY <2>2, <2>3 DEF CutsOK
<1>3. 0 \in P
  <2> SUFFICES ASSUME NEW z \in 1..n, z >= s - 0 PROVE CutsOK(f[z], z, line)
    OBVIOUS
  <2>1. ScanStops(line, z)
    BY <1>2 DEF ScanStops
  <2> QED BY <1>0, <2>1
<1>4. ASSUME NEW m \in Nat, m \in P PROVE m + 1 \in P
  <2> SUFFICES ASSUME NEW z \in 1..n, z >= s - (m + 1)
               PROVE  CutsOK(f[z], z, line)
    OBVIOUS
  <2>0. \A y \in 1..n : y >= s - m => CutsOK(f[y], y, line)
    BY <1>4
  <2>1. CASE z >= s - m
    BY <2>0, <2>1
  <2>2. CASE ScanStops(line, z)
    BY <1>0, <2>2
  <2>3. CASE ~(z >= s - m) /\ ~ScanStops(line, z)
    <3>1. /\ z \in Nat /\ z + L \in 1..n /\ z + L >= s - m
          /\ z + 1 \in 1..n /\ z + 1 >= s - m
      BY <1>2, <2>3
    <3>2. f[z] = CutsFrom(f, z, line)
      BY <1>1, Zenon
    <3>3. ~ScanStops(line, z)
      BY <2>3
    <3>4. CASE SeparatorAt(line, z)
      <4>1. f[z] = <<z>> \o f[z + L]
        BY <1>2, <3>4, <3>2, <3>3, Zenon DEF CutsFrom
      <4>2. CutsOK(f[z + L], z + L, line)
        BY <2>0, <3>1
      <4> QED BY <3>1, <3>4, <4>1, <4>2, CutBefore
    <3>5. CASE ~SeparatorAt(line, z)
      <4>1. f[z] = f[z + 1]
        BY <3>5, <3>2, <3>3, Zenon DEF CutsFrom
      <4> DEFINE c == f[z]
      <4>2. CutsOK(c, z + 1, line)
        BY <2>0, <3>1, <4>1
      <4>3. c \in Seq(Nat) /\ \A i \in 1..Len(c) : c[i] \in Nat /\ c[i] >= z + 1
        BY <4>2, SMTT(30) DEF CutsOK
      <4>4. \A i \in 1..Len(c) : c[i] >= z
        <5> HIDE DEF c
        <5>1. \A x \in Nat : x >= z + 1 => x >= z
          OBVIOUS
        <5> QED BY <4>3, <5>1
      <4>5. \A p \in Nat : p >= z /\ SeparatorAt(line, p) => p >= z + 1
        <5>1. \A p \in Nat : p >= z => p = z \/ p >= z + 1
          BY <3>1
        <5> QED BY <3>5, <5>1
      <4> HIDE DEF c
      <4>6. ASSUME NEW p \in Nat, p >= z, SeparatorAt(line, p)
            PROVE  InCut(c, p) \/ StoppedBy(c, z, p, line)
        <5>1. p >= z + 1
          BY <4>5, <4>6
        <5>2. InCut(c, p) \/ StoppedBy(c, z + 1, p, line)
          BY <4>2, <4>6, <5>1, Zenon DEF CutsOK
        <5>3. ASSUME StoppedBy(c, z + 1, p, line) PROVE StoppedBy(c, z, p, line)
          <6>1. PICK q \in Nat : /\ z + 1 <= q /\ q <= p /\ line[q] \in {"CR", "LF"}
                                /\ \A i \in 1..Len(c) : c[i] + Len(separator) <= q
            BY <5>3 DEF StoppedBy
          <6>2. z <= q
            BY <3>1, <6>1
          <6> QED BY <6>1, <6>2 DEF StoppedBy
        <5> QED BY <5>2, <5>3
      <4>7. CutsOK(c, z, line)
        BY <4>2, <4>4, <4>6 DEF CutsOK
      <4> QED BY <4>7 DEF c
    <3> QED BY <3>4, <3>5
  <2> QED BY <2>1, <2>2, <2>3
<1> HIDE DEF P
<1>5. s \in P
  BY <1>2, <1>3, <1>4, Induction
<1>6. 1 \in 1..n /\ 1 >= s - s
  BY <1>2
<1> QED BY <1>1, <1>5, <1>6 DEF P

\* The fields F of a line lie from b[j] to e[j] in it, a separator after each
\* but the last.
SplitInto(F, b, e, line) ==
  /\ F \in Seq(Seq(Tokens)) /\ F # <<>> /\ b[1] = 1 /\ e[Len(F)] = Len(line)
  /\ \A j \in 1..Len(F) :
       /\ b[j] \in Nat \ {0} /\ e[j] \in Nat /\ b[j] <= e[j] + 1 /\ e[j] <= Len(line)
       /\ F[j] \in Seq(Tokens) /\ Len(F[j]) = e[j] - b[j] + 1
       /\ F[j] = SubSeq(line, b[j], e[j])
       /\ \A i \in 1..Len(F[j]) : F[j][i] = line[b[j] + i - 1]
  /\ \A j \in 1..Len(F) - 1 :
       /\ b[j + 1] = e[j] + Len(separator) + 1
       /\ \A i \in 1..Len(separator) : line[e[j] + i] = separator[i]

\* The fields of a line are the parts of it between the cuts.
LEMMA FieldsAre ==
  ASSUME Inputs, NEW line \in Seq(Tokens)
  PROVE  /\ Len(Fields(line)) = Len(Cuts(line)) + 1
         /\ \E b, e : /\ SplitInto(Fields(line), b, e, line)
                      /\ \A j \in 1..Len(Cuts(line)) : e[j] + 1 = Cuts(line)[j]
<1> DEFINE c == Cuts(line)
           F == Fields(line)
           L == Len(separator)
           n == Len(c) + 1
           b == [j \in 1..n |-> IF j = 1 THEN 1 ELSE c[j - 1] + L]
           e == [j \in 1..n |-> IF j > Len(c) THEN Len(line) ELSE c[j] - 1]
<1>1. /\ c \in Seq(Nat) /\ Len(c) \in Nat /\ n \in Nat \ {0} /\ Len(line) \in Nat
      /\ L \in Nat \ {0} /\ separator \in Seq(Tokens)
  BY CutsAre, SMTT(30) DEF Inputs, CutsOK
<1>2. /\ \A j \in 1..Len(c) : c[j] \in Nat /\ c[j] >= 1
      /\ \A j \in 1..Len(c) : SeparatorAt(line, c[j])
      /\ \A i, k \in 1..Len(c) : i < k => c[i] + L <= c[k]
  BY CutsAre DEF CutsOK
<1>3. F = [j \in 1..n |-> SubSeq(line, IF j = 1 THEN 1 ELSE c[j - 1] + L,
                                       IF j > Len(c) THEN Len(line) ELSE c[j] - 1)]
  BY Zenon DEF Fields
<1> HIDE DEF F, c
<1>4. /\ \A j \in 1..n : F[j] = SubSeq(line, b[j], e[j])
      /\ DOMAIN F = 1..n
  BY <1>3
<1>5. /\ b[1] = 1 /\ e[n] = Len(line)
      /\ \A j \in 1..Len(c) : e[j] = c[j] - 1 /\ b[j + 1] = c[j] + L
      /\ \A j \in 1..n : j # n => j \in 1..Len(c)
      /\ \A j \in 1..n : j # 1 => j - 1 \in 1..Len(c) /\ b[j] = c[j - 1] + L
  BY <1>1
<1> HIDE DEF b, e
<1>6. \A j \in 1..Len(c) :
        /\ c[j] + L - 1 <= Len(line)
        /\ \A i \in 1..L : line[c[j] + i - 1] = separator[i]
  <2> SUFFICES ASSUME NEW j \in 1..Len(c)
               PROVE  /\ c[j] + L - 1 <= Len(line)
                      /\ \A i \in 1..L : line[c[j] + i - 1] = separator[i]
    OBVIOUS
  <2> DEFINE z == c[j]
  <2>1. /\ z \in Nat /\ z >= 1 /\ z + L - 1 <= Len(line)
        /\ SubSeq(line, z, z + L - 1) = separator
    BY <1>2 DEF SeparatorAt
  <2> HIDE DEF z
  <2>2. /\ \A i \in z..z + L - 1 : line[i] \in Tokens
        /\ (z + L - 1) - z + 1 = L
    BY <1>1, <2>1
  <2>3. \A i \in 1..(z + L - 1) - z + 1 : SubSeq(line, z, z + L - 1)[i] = line[z + i - 1]
    BY <1>1, <2>1, <2>2, SubSeqProperties
  <2> QED BY <2>1, <2>2, <2>3 DEF z
<1>7. ASSUME NEW j \in 1..n
      PROVE  b[j] \in Nat \ {0} /\ e[j] \in Nat /\ b[j] <= e[j] + 1 /\ e[j] <= Len(line)
  <2>1. b[j] \in Nat \ {0} /\ b[j] <= Len(line) + 1
    <3>1. CASE j = 1
      BY <1>1, <1>5, <3>1
    <3>2. CASE j # 1
      <4>1. j - 1 \in 1..Len(c) /\ b[j] = c[j - 1] + L
        BY <1>5, <3>2
      <4>2. c[j - 1] \in Nat /\ c[j - 1] + L - 1 <= Len(line)
        BY <1>2, <1>6, <4>1
      <4> QED BY <1>1, <4>1, <4>2, SMTT(30)
    <3> QED BY <3>1, <3>2
  <2>2. CASE j = n
    BY <1>1, <1>5, <2>1, <2>2
  <2>3. CASE j # n
    <3>1. j \in 1..Len(c) /\ e[j] = c[j] - 1 /\ c[j] \in Nat /\ c[j] >= 1
      BY <1>2, <1>5, <2>3
    <3>2. c[j] + L - 1 <= Len(line)
      BY <1>6, <3>1
    <3>3. b[j] <= c[j]
      <4>1. CASE j = 1
        BY <1>5, <3>1, <4>1
      <4>2. CASE j # 1
        <5>1. j - 1 \in 1..Len(c) /\ j - 1 < j /\ b[j] = c[j - 1] + L
          BY <1>5, <4>2
        <5> QED BY <1>2, <3>1, <5>1
      <4> QED BY <4>1, <4>2
    <3> QED BY <1>1, <2>1, <3>1, <3>2, <3>3, SMTT(30)
  <2> QED BY <2>2, <2>3
<1>8. ASSUME NEW j \in 1..n
      PROVE  /\ F[j] \in Seq(Tokens) /\ Len(F[j]) = e[j] - b[j] + 1
             /\ \A i \in 1..Len(F[j]) : F[j][i] = line[b[j] + i - 1]
  <2> DEFINE m == b[j]
             k == e[j]
  <2>1. /\ m \in Nat \ {0} /\ k \in Nat /\ m <= k + 1 /\ k <= Len(line)
        /\ F[j] = SubSeq(line, m, k)
    BY <1>4, <1>7
  <2> HIDE DEF m, k
  <2>2. \A i \in m..k : line[i] \in Tokens
    BY <1>1, <2>1
  <2>3. /\ F[j] \in Seq(Tokens) /\ Len(F[j]) = IF m <= k THEN k - m + 1 ELSE 0
        /\ \A i \in 1..k - m + 1 : F[j][i] = line[m + i - 1]
    BY <2>1, <2>2, SubSeqProperties
  <2>4. Len(F[j]) = k - m + 1
    BY <2>1, <2>3
  <2> QED BY <2>3, <2>4 DEF m, k
<1>9. ASSUME NEW j \in 1..n - 1
      PROVE  /\ b[j + 1] = e[j] + L + 1
             /\ \A i \in 1..L : line[e[j] + i] = separator[i]
  <2>1. /\ j \in 1..Len(c) /\ c[j] \in Nat /\ e[j] = c[j] - 1 /\ b[j + 1] = c[j] + L
        /\ \A i \in 1..L : line[c[j] + i - 1] = separator[i]
    <3>1. j \in 1..Len(c)
      BY <1>1
    <3> QED BY <1>2, <1>5, <1>6, <3>1
  <2>2. ASSUME NEW i \in 1..L PROVE line[e[j] + i] = separator[i]
    <3>1. c[j] + i - 1 = e[j] + i
      BY <2>1
    <3>2. line[c[j] + i - 1] = separator[i]
      BY <2>1
    <3> QED BY <3>1, <3>2, Zenon
  <2>3. b[j + 1] = e[j] + L + 1
    BY <1>1, <2>1
  <2> QED BY <2>2, <2>3
<1>10. F \in Seq(Seq(Tokens)) /\ Len(F) = n
  <2>1. F = [j \in 1..n |-> F[j]]
    BY <1>3, <1>4, Zenon
  <2> QED BY <1>1, <1>8, <2>1
<1>11. SplitInto(F, b, e, line)
  BY <1>1, <1>4, <1>5, <1>7, <1>8, <1>9, <1>10 DEF SplitInto
<1>12. \A j \in 1..Len(c) : e[j] + 1 = c[j]
  BY <1>2, <1>5
<1> QED BY <1>10, <1>11, <1>12 DEF F, c

\* Fields and separators put together again are the line.
LEMMA JoinIs ==
  ASSUME Inputs, NEW line \in Seq(Tokens), NEW F, NEW b, NEW e, SplitInto(F, b, e, line)
  PROVE  Join(F) = line
<1> DEFINE n == Len(F)
           L == Len(separator)
           G == [j \in 1..n - 1 |-> separator \o F[j + 1]]
           o == [k \in 1..n |-> e[k] - e[1]]
           fs == FlattenSeq(G)
<1>1. /\ n \in Nat \ {0} /\ L \in Nat \ {0} /\ separator \in Seq(Tokens)
      /\ Len(line) \in Nat /\ b[1] = 1 /\ e[n] = Len(line)
  BY DEF SplitInto, Inputs
<1>2. \A j \in 1..n :
        /\ b[j] \in Nat \ {0} /\ e[j] \in Nat /\ b[j] <= e[j] + 1 /\ e[j] <= Len(line)
        /\ F[j] \in Seq(Tokens) /\ Len(F[j]) = e[j] - b[j] + 1
        /\ \A i \in 1..Len(F[j]) : F[j][i] = line[b[j] + i - 1]
  BY DEF SplitInto
<1>3. \A j \in 1..n - 1 :
        /\ b[j + 1] = e[j] + L + 1
        /\ \A i \in 1..L : line[e[j] + i] = separator[i]
  BY DEF SplitInto
<1>4. ASSUME NEW j \in 1..n - 1
      PROVE  /\ G[j] \in Seq(Tokens) /\ Len(G[j]) = e[j + 1] - e[j]
             /\ \A i \in 1..Len(G[j]) : G[j][i] = line[e[j] + i]
  <2> DEFINE f == F[j + 1]
  <2>1. j \in 1..n /\ j + 1 \in 1..n
    BY <1>1
  <2>2. /\ f \in Seq(Tokens) /\ Len(f) = e[j + 1] - b[j + 1] + 1 /\ Len(f) \in Nat
        /\ e[j] \in Nat /\ e[j + 1] \in Nat /\ b[j + 1] = e[j] + L + 1
        /\ \A i \in 1..Len(f) : f[i] = line[b[j + 1] + i - 1]
        /\ \A i \in 1..L : line[e[j] + i] = separator[i]
    BY <1>2, <1>3, <2>1
  <2> DEFINE g == separator \o f
  <2>3. G[j] = g
    OBVIOUS
  <2> HIDE DEF f, G
  <2>4. /\ g \in Seq(Tokens) /\ Len(g) = L + Len(f)
        /\ \A i \in 1..L + Len(f) : g[i] = IF i <= L THEN separator[i] ELSE f[i - L]
    <3>1. f \in Seq(Tokens) /\ separator \in Seq(Tokens)
      BY <1>1, <2>2
    <3>2. /\ g \in Seq(Tokens) /\ Len(g) = Len(separator) + Len(f)
          /\ \A i \in 1..Len(separator) + Len(f) :
               g[i] = IF i <= Len(separator) THEN separator[i] ELSE f[i - Len(separator)]
      BY <3>1, ConcatProperties, Zenon
    <3> HIDE DEF g
    <3> QED BY <3>2, Zenon DEF L
  <2> HIDE DEF g, L
  <2>p. PICK x \in Nat, y \in Nat, w \in Nat :
          /\ x = e[j] /\ y = e[j + 1] /\ w = Len(f)
          /\ b[j + 1] = x + L + 1 /\ w = y - (x + L + 1) + 1
    BY <2>2
  <2>q. Len(g) = L + w
    BY <2>4, <2>p, Zenon
  <2>5. Len(g) = e[j + 1] - e[j]
    <3>1. w = y - (x + L + 1) + 1
      BY <2>p, Zenon
    <3>2. L + w = y - x
      BY <1>1, <3>1
    <3> QED BY <2>p, <2>q, <3>2, Zenon
  <2>6. ASSUME NEW i \in 1..Len(g) PROVE g[i] = line[e[j] + i]
    <3>1. CASE i <= L
      <4>1. i \in 1..L /\ i \in 1..L + Len(f)
        BY <1>1, <2>2, <2>4, <3>1
      <4>2. g[i] = separator[i]
        BY <2>4, <3>1, <4>1
      <4> QED BY <2>2, <4>1, <4>2
    <3>2. CASE ~(i <= L)
      <4>1. i - L \in 1..Len(f) /\ b[j + 1] + (i - L) - 1 = e[j] + i
        <5>1. i \in 1..L + w
          BY <2>6, <2>q, Zenon
        <5>2. i - L \in 1..w /\ (x + L + 1) + (i - L) - 1 = x + i
          BY <1>1, <3>2, <5>1
        <5> QED BY <2>p, <5>2, Zenon
      <4>2. f[i - L] = line[b[j + 1] + (i - L) - 1]
        BY <2>2, <4>1
      <4> QED BY <1>1, <2>4, <2>6, <3>2, <4>1, <4>2
    <3> QED BY <3>1, <3>2
  <2> QED BY <2>3, <2>4, <2>5, <2>6
<1>5. G \in Seq(Seq(Tokens)) /\ Len(G) = n - 1
  <2>1. G = [j \in 1..n - 1 |-> G[j]]
    OBVIOUS
  <2> HIDE DEF G
  <2> QED BY <1>1, <1>4, <2>1
<1>6. IsOffsets(o, G)
  <2>1. DOMAIN o = 1..Len(G) + 1 /\ o[1] = 0
    <3>1. 1 \in 1..n /\ e[1] \in Nat /\ Len(G) + 1 = n
      BY <1>1, <1>2, <1>5
    <3> HIDE DEF G
    <3> QED BY <1>1, <3>1
  <2>2. ASSUME NEW k \in 1..Len(G) PROVE o[k + 1] = o[k] + Len(G[k])
    <3>1. /\ k \in 1..n - 1 /\ k \in 1..n /\ k + 1 \in 1..n /\ 1 \in 1..n
      BY <1>1, <1>5, <2>2
    <3>2. Len(G[k]) = e[k + 1] - e[k] /\ e[k] \in Nat /\ e[k + 1] \in Nat /\ e[1] \in Nat
      BY <1>2, <1>4, <3>1
    <3>3. o[k] = e[k] - e[1] /\ o[k + 1] = e[k + 1] - e[1]
      BY <3>1
    <3> HIDE DEF G, o
    <3> QED BY <3>2, <3>3
  <2> HIDE DEF G, o
  <2> QED BY <2>1, <2>2 DEF IsOffsets
<1>7. /\ \A k \in 1..n : o[k] = e[k] - e[1]
      /\ 1 \in 1..n /\ n \in 1..n /\ e[1] \in Nat
  BY <1>1, <1>2
<1> HIDE DEF o, G
<1>8. fs \in Seq(Tokens) /\ InPlace(fs, o, G)
  BY <1>5, <1>6, FlattenPlaces
<1> HIDE DEF fs
<1>9. Len(fs) = Len(line) - e[1]
  <2>1. Len(fs) = o[Len(G) + 1]
    BY <1>8, Zenon DEF InPlace
  <2>2. Len(G) + 1 = n
    BY <1>1, <1>5
  <2>3. Len(fs) = o[n]
    BY <2>1, <2>2, Zenon
  <2> QED BY <1>1, <1>7, <2>3
<1>10. ASSUME NEW p \in 1..Len(fs) PROVE fs[p] = line[e[1] + p]
  <2>1. PICK k \in 1..Len(G), i \in Nat : i \in 1..Len(G[k]) /\ p = o[k] + i
    BY <1>8 DEF InPlace
  <2>2. /\ fs[o[k] + i] = G[k][i] /\ k \in 1..n - 1 /\ k \in 1..n
    <3>1. \A x \in 1..Len(G), y \in Nat : y \in 1..Len(G[x]) => fs[o[x] + y] = G[x][y]
      BY <1>8, Zenon DEF InPlace
    <3>2. k \in 1..n - 1 /\ k \in 1..n
      BY <1>1, <1>5, <2>1
    <3> QED BY <2>1, <3>1, <3>2, Zenon
  <2>3. G[k][i] = line[e[k] + i] /\ o[k] = e[k] - e[1] /\ e[k] \in Nat
    BY <1>2, <1>4, <1>7, <2>1, <2>2
  <2>4. e[1] + p = e[k] + i
    BY <1>7, <2>1, <2>3, SMTT(30)
  <2> QED BY <2>1, <2>2, <2>3, <2>4
<1>11. /\ F[1] \in Seq(Tokens) /\ Len(F[1]) = e[1]
       /\ \A i \in 1..e[1] : F[1][i] = line[i]
  <2>1. /\ F[1] \in Seq(Tokens) /\ Len(F[1]) = e[1] - 1 + 1
        /\ \A i \in 1..Len(F[1]) : F[1][i] = line[1 + i - 1]
    <3>1. /\ F[1] \in Seq(Tokens) /\ Len(F[1]) = e[1] - b[1] + 1
          /\ \A i \in 1..Len(F[1]) : F[1][i] = line[b[1] + i - 1]
      BY <1>2, <1>7, Zenon
    <3> QED BY <1>1, <3>1, Zenon
  <2>2. \A i \in Nat : 1 + i - 1 = i
    OBVIOUS
  <2> QED BY <1>7, <2>1, <2>2
<1> DEFINE w == F[1] \o fs
<1>12. /\ w \in Seq(Tokens) /\ Len(w) = Len(line)
       /\ \A i \in 1..Len(w) : w[i] = IF i <= e[1] THEN F[1][i] ELSE fs[i - e[1]]
  <2>1. /\ w \in Seq(Tokens) /\ Len(w) = Len(F[1]) + Len(fs)
        /\ \A i \in 1..Len(F[1]) + Len(fs) :
             w[i] = IF i <= Len(F[1]) THEN F[1][i] ELSE fs[i - Len(F[1])]
    BY <1>8, <1>11, ConcatProperties
  <2>2. Len(w) = Len(line)
    BY <1>1, <1>7, <1>9, <1>11, <2>1
  <2> HIDE DEF w
  <2> QED BY <1>11, <2>1, <2>2
<1> HIDE DEF w
<1>13. ASSUME NEW i \in 1..Len(line) PROVE w[i] = line[i]
  <2>1. CASE i <= e[1]
    BY <1>7, <1>11, <1>12, <2>1
  <2>2. CASE ~(i <= e[1])
    <3>1. i - e[1] \in 1..Len(fs) /\ e[1] + (i - e[1]) = i
      BY <1>1, <1>7, <1>9, <2>2
    <3>2. fs[i - e[1]] = line[i]
      BY <1>10, <3>1
    <3> QED BY <1>12, <2>2, <3>2
  <2> QED BY <2>1, <2>2
<1>14. w = line
  BY <1>1, <1>12, <1>13
<1>15. Join(F) = F[1] \o FlattenSeq([j \in 1..Len(F) - 1 |-> separator \o F[j + 1]])
  BY Zenon DEF Join
<1> QED BY <1>14, <1>15 DEF w, fs, G

\* The parts of a sequence.
LEMMA PartsAre ==
  ASSUME NEW f, NEW t, t \in SubSeqs(f)
  PROVE  \E x \in 0..Len(f), y \in 0..Len(f) : t = SubSeq(f, x + 1, y)
<1>1. t \in {SubSeq(f, x + 1, y) : x, y \in 0..Len(f)}
  BY SMT DEF SubSeqs
<1> QED BY <1>1, SMT

\* What a part of a line holds is in the line.
LEMMA InPart ==
  ASSUME NEW line \in Seq(Tokens), NEW m \in Nat \ {0}, NEW k \in Nat, m <= k + 1,
         k <= Len(line)
  PROVE  /\ \A q \in m..k : line[q] \in ToSet(SubSeq(line, m, k))
         /\ \A t \in Seq(Tokens) \ {<<>>} : t \in SubSeqs(SubSeq(line, m, k)) =>
              \E p \in Nat : /\ p >= m /\ p + Len(t) - 1 <= k
                             /\ t = SubSeq(line, p, p + Len(t) - 1)
                             /\ \A i \in 1..Len(t) : line[p + i - 1] = t[i]
<1> DEFINE f == SubSeq(line, m, k)
<1>1. \A q \in m..k : line[q] \in Tokens
  OBVIOUS
<1>2. /\ f \in Seq(Tokens) /\ Len(f) = IF m <= k THEN k - m + 1 ELSE 0
      /\ \A i \in 1..k - m + 1 : f[i] = line[m + i - 1]
  BY <1>1, SubSeqProperties
<1> HIDE DEF f
<1>3. Len(f) = k - m + 1 /\ Len(f) \in Nat /\ DOMAIN f = 1..Len(f)
  BY <1>2
<1>4. ASSUME NEW q \in m..k PROVE line[q] \in ToSet(f)
  <2>1. q - m + 1 \in 1..k - m + 1 /\ m + (q - m + 1) - 1 = q
    OBVIOUS
  <2>2. f[q - m + 1] = line[q]
    BY <1>2, <2>1
  <2>3. q - m + 1 \in DOMAIN f
    BY <1>3, <2>1
  <2> QED BY <2>2, <2>3 DEF ToSet
<1>5. ASSUME NEW t \in Seq(Tokens) \ {<<>>}, t \in SubSeqs(f)
      PROVE  \E p \in Nat : /\ p >= m /\ p + Len(t) - 1 <= k
                            /\ t = SubSeq(line, p, p + Len(t) - 1)
                            /\ \A i \in 1..Len(t) : line[p + i - 1] = t[i]
  <2>1. PICK x \in 0..Len(f), y \in 0..Len(f) : t = SubSeq(f, x + 1, y)
    BY <1>5, PartsAre, Zenon
  <2>2. \A i \in x + 1..y : f[i] \in Tokens
    BY <1>2, <1>3
  <2>3. Len(t) = IF x + 1 <= y THEN y - (x + 1) + 1 ELSE 0
    BY <1>3, <2>1, <2>2, SubSeqProperties
  <2>4. x \in Nat /\ y \in Nat /\ x < y /\ Len(t) = y - x /\ y <= k - m + 1
    <3>1. Len(t) \in Nat \ {0}
      OBVIOUS
    <3> QED BY <1>3, <2>3, <3>1
  <2>5. t = SubSeq(line, m + x, m + y - 1)
    <3> DEFINE l == m - 1
    <3>1. l \in Nat /\ f = SubSeq(line, l + 1, k) /\ l + y <= k
      BY <2>4 DEF f
    <3> HIDE DEF l
    <3>2. SubSeq(f, x + 1, y) = SubSeq(line, l + x + 1, l + y)
      BY <2>4, <3>1, PartOfPart
    <3>3. l + x + 1 = m + x /\ l + y = m + y - 1
      BY <2>4 DEF l
    <3> QED BY <2>1, <3>2, <3>3, Zenon
  <2> DEFINE p == m + x
  <2>6. p \in Nat /\ p >= m /\ p + Len(t) - 1 = m + y - 1 /\ m + y - 1 <= k
    BY <2>4
  <2>7. t = SubSeq(line, p, p + Len(t) - 1)
    BY <2>5, <2>6, Zenon
  <2> HIDE DEF p
  <2>8. \A i \in 1..Len(t) : line[p + i - 1] = t[i]
    <3>1. \A i \in p..p + Len(t) - 1 : line[i] \in Tokens
      BY <2>6
    <3>2. (p + Len(t) - 1) - p + 1 = Len(t)
      BY <2>6
    <3>3. \A i \in 1..(p + Len(t) - 1) - p + 1 :
            SubSeq(line, p, p + Len(t) - 1)[i] = line[p + i - 1]
      BY <2>6, <3>1, SubSeqProperties
    <3> QED BY <2>7, <3>2, <3>3
  <2> QED BY <2>6, <2>7, <2>8
<1> QED BY <1>4, <1>5 DEF f

\* A field holds a separator only if the scan stopped in it or before it, at a
\* CR or LF that is also in the field.
LEMMA NoSeparatorLeft ==
  ASSUME Inputs, NEW line \in Seq(Tokens), NEW j \in 1..Len(Cuts(line)) + 1,
         separator \in SubSeqs(Fields(line)[j])
  PROVE  ToSet(Fields(line)[j]) \cap {"CR", "LF"} # {}
<1> DEFINE c == Cuts(line)
           F == Fields(line)
           L == Len(separator)
<1>1. PICK b, e : /\ SplitInto(F, b, e, line)
                  /\ \A k \in 1..Len(c) : e[k] + 1 = c[k]
  BY FieldsAre
<1>2. Len(F) = Len(c) + 1
  BY FieldsAre
<1>3. /\ Len(c) \in Nat /\ L \in Nat \ {0} /\ separator \in Seq(Tokens) \ {<<>>}
      /\ Len(line) \in Nat
  <2>1. separator \in Seq(Tokens) \ {<<>>} /\ L \in Nat \ {0}
    BY DEF Inputs
  <2>2. CutsOK(c, 1, line)
    BY CutsAre
  <2>3. Len(c) \in Nat
    <3> HIDE DEF c
    <3> QED BY <2>2 DEF CutsOK
  <2> HIDE DEF c, L
  <2> QED BY <2>1, <2>3
<1>4. /\ \A i \in 1..Len(c) : c[i] \in Nat
      /\ \A i, k \in 1..Len(c) : i < k => c[i] + L <= c[k]
      /\ \A p \in Nat : p >= 1 /\ SeparatorAt(line, p) =>
           InCut(c, p) \/ StoppedBy(c, 1, p, line)
  BY CutsAre DEF CutsOK
<1>5. j \in 1..Len(F)
  BY <1>2
<1> HIDE DEF c, F, L
<1>6. PICK m \in Nat \ {0}, k \in Nat :
        /\ m = b[j] /\ k = e[j] /\ m <= k + 1 /\ k <= Len(line)
        /\ F[j] = SubSeq(line, m, k)
  <2>1. /\ b[j] \in Nat \ {0} /\ e[j] \in Nat /\ b[j] <= e[j] + 1 /\ e[j] <= Len(line)
        /\ F[j] = SubSeq(line, b[j], e[j])
    BY <1>1, <1>5, Zenon DEF SplitInto
  <2> QED BY <2>1
<1>7. /\ j = 1 => m = 1
      /\ j <= Len(c) => j \in 1..Len(c) /\ k + 1 = c[j]
      /\ j # 1 => /\ j - 1 \in 1..Len(c) /\ m = c[j - 1] + L
                  /\ \A i \in 1..L : line[c[j - 1] + i - 1] = separator[i]
  <2>1. j = 1 => m = 1
    BY <1>1, <1>6 DEF SplitInto
  <2>2. j <= Len(c) => j \in 1..Len(c) /\ k + 1 = c[j]
    BY <1>1, <1>3, <1>6 DEF c
  <2>3. ASSUME j # 1
        PROVE  /\ j - 1 \in 1..Len(c) /\ m = c[j - 1] + L
               /\ \A i \in 1..L : line[c[j - 1] + i - 1] = separator[i]
    <3> DEFINE n == j - 1
    <3>1. n \in 1..Len(c) /\ n \in 1..Len(F) /\ n \in 1..Len(F) - 1 /\ n + 1 = j
      BY <1>2, <1>3, <2>3 DEF c
    <3> HIDE DEF n
    <3>2. /\ b[n + 1] = e[n] + L + 1 /\ e[n] \in Nat
          /\ \A i \in 1..L : line[e[n] + i] = separator[i]
      BY <1>1, <3>1 DEF SplitInto, L
    <3>3. e[n] + 1 = c[n] /\ c[n] \in Nat
      BY <1>1, <1>4, <3>1
    <3>4. \A i \in 1..L : c[n] + i - 1 = e[n] + i
      BY <1>3, <3>2, <3>3
    <3>5. m = c[n] + L
      BY <1>3, <1>6, <3>1, <3>2, <3>3, SMTT(30)
    <3>6. \A i \in 1..L : line[c[n] + i - 1] = separator[i]
      BY <3>2, <3>4
    <3> QED BY <3>1, <3>5, <3>6 DEF n
  <2> QED BY <2>1, <2>2, <2>3
<1>8. PICK p \in Nat : /\ p >= m /\ p + L - 1 <= k
                       /\ separator = SubSeq(line, p, p + L - 1)
                       /\ \A i \in 1..L : line[p + i - 1] = separator[i]
  <2>1. separator \in SubSeqs(SubSeq(line, m, k))
    BY <1>6 DEF F
  <2>2. m <= k + 1 /\ k <= Len(line)
    BY <1>6
  <2>3. separator \in Seq(Tokens) \ {<<>>}
    BY <1>3
  <2>4. \A t \in Seq(Tokens) \ {<<>>} : t \in SubSeqs(SubSeq(line, m, k)) =>
          \E p \in Nat : /\ p >= m /\ p + Len(t) - 1 <= k
                         /\ t = SubSeq(line, p, p + Len(t) - 1)
                         /\ \A i \in 1..Len(t) : line[p + i - 1] = t[i]
    BY <2>2, InPart, Zenon
  <2> QED BY <2>1, <2>3, <2>4, Zenon DEF L
<1>9. SeparatorAt(line, p)
  BY <1>3, <1>6, <1>8, SMTT(30) DEF SeparatorAt, L
<1>10. ~InCut(c, p)
  <2> SUFFICES ASSUME NEW i \in 1..Len(c), c[i] <= p /\ p < c[i] + L PROVE FALSE
    BY DEF InCut, L
  <2>1. c[i] <= p /\ p < c[i] + L
    OBVIOUS
  <2>2. c[i] \in Nat /\ i \in Nat
    BY <1>3, <1>4
  <2>p. PICK a \in Nat, q \in Nat \ {0} : a = c[i] /\ q = L
    BY <1>3, <2>2
  <2>q. p >= m /\ p + q - 1 <= k /\ a <= p /\ p < a + q
    BY <1>8, <2>1, <2>p, Zenon
  <2>3. CASE i >= j
    <3>1. k + 1 = c[j] /\ j \in 1..Len(c)
      BY <1>3, <1>7, <2>3
    <3>2. i = j \/ c[j] + L <= c[i]
      BY <1>3, <1>4, <2>3, <3>1
    <3>3. c[j] <= c[i]
      BY <1>3, <2>2, <3>1, <3>2
    <3>4. k + 1 <= a
      BY <2>p, <3>1, <3>3, Zenon
    <3> QED BY <2>q, <3>4
  <2>4. CASE ~(i >= j)
    <3>1. j # 1 /\ (i = j - 1 \/ i < j - 1)
      BY <1>3, <2>4
    <3>2. j - 1 \in 1..Len(c) /\ m = c[j - 1] + L /\ c[j - 1] \in Nat
      BY <1>4, <1>7, <3>1
    <3>3. i = j - 1 \/ c[i] + L <= c[j - 1]
      BY <1>4, <3>1, <3>2
    <3>4. PICK z \in Nat : z = c[j - 1]
      BY <3>2
    <3>5. m = z + q
      BY <2>p, <3>2, <3>4, Zenon
    <3>6. a = z \/ a + q <= z
      BY <2>p, <3>3, <3>4, Zenon
    <3> QED BY <2>q, <3>5, <3>6
  <2> QED BY <2>3, <2>4
<1>11. PICK s \in Nat : /\ s >= 1 /\ s <= p /\ line[s] \in {"CR", "LF"}
                        /\ \A i \in 1..Len(c) : c[i] + L <= s
  <2>1. p >= 1
    BY <1>6, <1>8
  <2>2. StoppedBy(c, 1, p, line)
    BY <1>4, <1>9, <1>10, <2>1, Zenon
  <2> QED BY <2>2 DEF StoppedBy, L
<1>12. s \in m..k
  <2>1. s >= m
    <3>1. CASE j = 1
      BY <1>7, <1>11, <3>1
    <3>2. CASE j # 1
      BY <1>7, <1>11, <3>2
    <3> QED BY <3>1, <3>2
  <2> QED BY <1>3, <1>8, <1>11, <2>1
<1>13. line[s] \in ToSet(F[j])
  <2>1. \A q \in m..k : line[q] \in ToSet(SubSeq(line, m, k))
    BY <1>6, InPart
  <2>2. line[s] \in ToSet(SubSeq(line, m, k))
    BY <1>12, <2>1, Zenon
  <2> QED BY <1>6, <2>2
<1> QED BY <1>11, <1>13 DEF F

\* What a caller writes for a row is its line.
Spelled(row, text) ==
  /\ Join(row) = text
  /\ \A j \in 1..nCol :
       \/ ToSet(row[j]) \cap {"CR", "LF"} # {}
       \/ separator \notin SubSeqs(row[j])

\* A line with as many fields as there are columns is what they spell.
LEMMA LineSpelled ==
  ASSUME Inputs, NEW line \in Seq(Tokens), Len(Fields(line)) = nCol
  PROVE  /\ RowOf(line) \in Seq(Seq(Tokens \cup {"NULL"}))
         /\ (\A j \in 1..nCol : RowOf(line)[j] # Null) => Spelled(RowOf(line), line)
<1> DEFINE F == Fields(line)
           row == RowOf(line)
<1>1. nCol \in Nat \ {0} /\ Len(Cuts(line)) + 1 = nCol
  BY FieldsAre DEF Inputs
<1>2. PICK b, e : SplitInto(F, b, e, line)
  BY FieldsAre
<1>3. /\ F \in Seq(Seq(Tokens)) /\ Len(F) = nCol
      /\ \A j \in 1..nCol : F[j] \in Seq(Tokens)
  BY <1>2 DEF SplitInto
<1>4. row = [j \in 1..nCol |-> Value(F[j])]
  BY Zenon DEF RowOf
<1> HIDE DEF row, F
<1>5. \A j \in 1..nCol : Value(F[j]) \in {F[j], Null}
  BY DEF Value
<1>6. Null \in Seq(Tokens \cup {"NULL"})
  BY DEF Null
<1>7. \A j \in 1..nCol : row[j] \in Seq(Tokens \cup {"NULL"})
  <2>1. Seq(Tokens) \subseteq Seq(Tokens \cup {"NULL"})
    OBVIOUS
  <2> QED BY <1>3, <1>4, <1>5, <1>6, <2>1
<1>8. row \in Seq(Seq(Tokens \cup {"NULL"}))
  <2> DEFINE T == Seq(Tokens \cup {"NULL"})
  <2>1. row = [j \in 1..nCol |-> row[j]]
    BY <1>4
  <2>2. nCol \in Nat /\ \A j \in 1..nCol : row[j] \in T
    BY <1>1, <1>7
  <2> HIDE DEF T
  <2>3. row \in Seq(T)
    BY <2>1, <2>2
  <2> QED BY <2>3 DEF T
<1>9. ASSUME \A j \in 1..nCol : row[j] # Null PROVE Spelled(row, line)
  <2>1. \A j \in 1..nCol : row[j] = F[j]
    BY <1>4, <1>5, <1>9
  <2>2. row = F
    <3>1. Len(row) = nCol
      BY <1>1, <1>4
    <3> QED BY <1>1, <1>3, <1>4, <2>1, <3>1
  <2>3. Join(row) = line
    BY <1>2, <2>2, JoinIs
  <2>4. ASSUME NEW j \in 1..nCol, separator \in SubSeqs(F[j])
        PROVE  ToSet(F[j]) \cap {"CR", "LF"} # {}
    BY <1>1, <2>4, NoSeparatorLeft DEF F
  <2> QED BY <2>2, <2>3, <2>4 DEF Spelled
<1> QED BY <1>8, <1>9 DEF row

----------------------------------------------------------------------------
(* The steps *)

\* While the file is the same, so is what is found in it.
LEMMA InputsSame ==
  ASSUME UNCHANGED inputVars
  PROVE  /\ Inputs' <=> Inputs
         /\ \A text, p : Occurs(text, p)' <=> Occurs(text, p)
<1>1. /\ file' = file /\ separator' = separator /\ eol' = eol /\ skip' = skip
      /\ nCol' = nCol
  BY DEF inputVars
<1>2. Inputs' <=> Inputs
  BY <1>1 DEF Inputs
<1>3. \A text, p : Occurs(text, p)' <=> Occurs(text, p)
  BY <1>1 DEF Occurs
<1> QED BY <1>2, <1>3

\* The lines of the buffer are made of tokens, and the line of the file is one
\* of them if it ends with an end-of-line.
LEMMA LinesAre ==
  ASSUME Inputs, pos \in 0..Len(file), NEW line \in Lines
  PROVE  line \in Seq(Tokens) /\ (Terminated => line = Text)
<1>1. Text \in Seq(Tokens)
  BY LineIs
<1>2. CASE Terminated
  BY <1>1, <1>2 DEF Lines
<1>3. CASE ~Terminated
  <2>1. PICK g \in Leftovers : line = Text \o g
    BY <1>3 DEF Lines
  <2>2. g \in Seq(Tokens)
    BY ConstantsAssumption
  <2> QED BY <1>1, <1>3, <2>1, <2>2
<1> QED BY <1>2, <1>3

\* Reading a line moves past its end-of-line, or to the end of the file.
LEMMA AdvanceIs ==
  ASSUME Inputs, Reading, pos' = LineEnd, UNCHANGED inputVars
  PROVE  /\ pos' \in 0..Len(file') /\ pos' \in Nat
         /\ pos' = Len(file') \/ EolBefore(pos')
         /\ EolBefore(pos') => EolBefore(pos)'
         /\ Terminated => /\ pos' = pos + Len(Text) + Len(eol)
                          /\ Occurs(eol, pos + Len(Text) + 1)
         /\ ~Terminated => pos' = Len(file)
<1>1. /\ LineEnd \in pos..Len(file) /\ pos \in 0..Len(file) /\ Len(file) \in Nat
      /\ Text \in Seq(Tokens) /\ Len(Text) \in Nat /\ Len(eol) \in Nat
      /\ Terminated => /\ LineEnd = pos + Len(Text) + Len(eol)
                       /\ Occurs(eol, pos + Len(Text) + 1)
      /\ ~Terminated => LineEnd = Len(file)
  BY LineIs DEF Inputs, Reading
<1>2. file' = file
  BY DEF inputVars
<1>4. EolBefore(pos') => EolBefore(pos)'
  BY DEF EolBefore, Occurs, inputVars
<1>3. Terminated => EolBefore(pos')
  <2> SUFFICES ASSUME Terminated PROVE EolBefore(pos')
    OBVIOUS
  <2>1. /\ pos' = pos + Len(Text) + Len(eol) /\ Occurs(eol, pos + Len(Text) + 1)
        /\ pos \in Nat
    BY <1>1
  <2>2. pos' >= Len(eol) /\ pos' - Len(eol) + 1 = pos + Len(Text) + 1
    BY <1>1, <2>1
  <2> QED BY <2>1, <2>2 DEF EolBefore
<1> QED BY <1>1, <1>2, <1>3, <1>4

\* Rows and spans as they were follow each other as they did.
LEMMA RowsSame ==
  ASSUME UNCHANGED <<inputVars, rows, spans>>
  PROVE  /\ \A r \in DOMAIN rows : Ended(r)' <=> Ended(r)
         /\ begun' = begun \/ rows = <<>> => (LinesFollow => LinesFollow')
         /\ RowsSpellTheirLines => RowsSpellTheirLines'
<1>1. rows' = rows /\ spans' = spans /\ eol' = eol /\ file' = file /\ nCol' = nCol
      /\ separator' = separator
  BY DEF inputVars
<1>2. \A r : Ended(r)' <=> Ended(r)
  BY <1>1 DEF Ended, Occurs
<1>3. \A r : TextOf(r)' = TextOf(r)
  BY <1>1 DEF TextOf
<1>4. begun' = begun \/ rows = <<>> => (LinesFollow => LinesFollow')
  <2>1. CASE rows = <<>>
    BY <1>1, <2>1 DEF LinesFollow
  <2>2. CASE begun' = begun
    BY <1>1, <1>2, <1>3, <2>2 DEF LinesFollow
  <2> QED BY <2>1, <2>2
<1>5. \A r : Join(rows[r])' = Join(rows[r])
  BY <1>1, Zenon DEF Join
<1>6. RowsSpellTheirLines => RowsSpellTheirLines'
  BY <1>1, <1>2, <1>3, <1>5 DEF RowsSpellTheirLines
<1> QED BY <1>2, <1>4, <1>6

\* Nothing is read at first.
LEMMA InitInv == Init => IInv
<1> SUFFICES ASSUME Init PROVE IInv
  OBVIOUS
<1>1. Inputs
  <2>1. PICK d \in Dialects : separator = d[1] /\ eol = d[2]
    BY DEF Init
  <2>2. /\ separator \in Seq(Tokens) \ {<<>>} /\ eol \in Seq(Tokens) \ {<<>>}
        /\ skip \in Nat /\ nCol \in Nat \ {0}
    BY <2>1, ConstantsAssumption DEF Init
  <2>3. file \in Seq(Tokens)
    <3>1. PICK m \in 0..MaxFile : file \in [1..m -> Tokens]
      BY DEF Init, BoundedSeq, SeqOf
    <3>2. m \in Nat
      BY ConstantsAssumption
    <3> QED BY <3>1, <3>2
  <2> QED BY <2>2, <2>3 DEF Inputs
<1>2. /\ status = "reading" /\ pos = 0 /\ lineno = 0 /\ begun = 0
      /\ rows = <<>> /\ spans = <<>>
  BY DEF Init
<1>3. Len(file) \in Nat /\ Len(<<>>) = 0 /\ DOMAIN rows = {}
  BY <1>1, <1>2 DEF Inputs
<1>4. Reading
  BY <1>2, <1>3 DEF Reading
<1>5. PosInv /\ CountInv
  BY <1>1, <1>2, <1>3 DEF PosInv, CountInv, Inputs
<1>6. LinesFollow /\ SuccessIsComplete /\ RowsSpellTheirLines
  BY <1>2, <1>3 DEF LinesFollow, SuccessIsComplete, RowsSpellTheirLines
<1> QED BY <1>1, <1>4, <1>5, <1>6 DEF IInv

\* A line that is skipped moves the beginning, before any row.
LEMMA SkipLineInv == IInv /\ SkipLine => IInv'
<1> SUFFICES ASSUME IInv, SkipLine PROVE IInv'
  OBVIOUS
<1>1. /\ status = "reading" /\ lineno < skip /\ pos' = LineEnd /\ lineno' = lineno + 1
      /\ begun' = LineEnd /\ UNCHANGED inputVars
      /\ status' = status /\ rows' = rows /\ spans' = spans /\ skip' = skip
  BY DEF SkipLine, SkipsLine, Advance, inputVars
<1>2. Inputs /\ Reading /\ CountInv /\ LinesFollow /\ RowsSpellTheirLines
  BY DEF IInv
<1>3. rows = <<>>
  <2>1. Len(rows) = 0
    BY <1>1, <1>2 DEF CountInv, Reading, Inputs
  <2> QED BY <1>2, <2>1 DEF Reading
<1>4. Inputs' /\ pos' \in 0..Len(file') /\ pos' \in Nat
      /\ (pos' = Len(file') \/ EolBefore(pos)')
  BY <1>1, <1>2, AdvanceIs, InputsSame
<1>5. Reading'
  BY <1>1, <1>2, <1>4 DEF Reading
<1>6. PosInv'
  BY <1>1, <1>3, <1>4 DEF PosInv
<1>7. CountInv'
  BY <1>1, <1>2, <1>3 DEF CountInv, Reading, Inputs
<1>8. LinesFollow' /\ RowsSpellTheirLines'
  BY <1>1, <1>2, <1>3, RowsSame
<1>9. SuccessIsComplete'
  BY <1>1 DEF SuccessIsComplete
<1> QED BY <1>4, <1>5, <1>6, <1>7, <1>8, <1>9 DEF IInv

\* An import that fails says nothing of the file any more.
LEMMA FailureInv == IInv /\ (WrongColumns \/ InsertFails) => IInv'
<1> SUFFICES ASSUME IInv, WrongColumns \/ InsertFails PROVE IInv'
  OBVIOUS
<1>1. /\ status' \in {"columns", "insert"} /\ pos' = LineEnd /\ lineno' = lineno + 1
      /\ begun' = begun /\ UNCHANGED inputVars /\ rows' = rows /\ spans' = spans
  BY DEF WrongColumns, InsertFails, Advance
<1>2. Inputs /\ Reading /\ LinesFollow /\ RowsSpellTheirLines
  BY DEF IInv
<1>3. Inputs' /\ pos' \in 0..Len(file')
  BY <1>1, <1>2, AdvanceIs, InputsSame
<1>4. Reading'
  BY <1>1, <1>2, <1>3 DEF Reading
<1>5. PosInv' /\ CountInv' /\ SuccessIsComplete'
  BY <1>1 DEF PosInv, CountInv, SuccessIsComplete
<1>6. LinesFollow' /\ RowsSpellTheirLines'
  BY <1>1, <1>2, RowsSame
<1> QED BY <1>3, <1>4, <1>5, <1>6 DEF IInv

\* The end is the end of the file, or a blank line.
LEMMA FinishInv == IInv /\ Finish => IInv'
<1> SUFFICES ASSUME IInv, Finish PROVE IInv'
  OBVIOUS
<1>1. /\ status = "reading" /\ status' = "done" /\ pos' = LineEnd /\ lineno' = lineno
      /\ begun' = begun /\ UNCHANGED inputVars /\ rows' = rows /\ spans' = spans
  BY DEF Finish
<1>2. Inputs /\ Reading /\ LinesFollow /\ RowsSpellTheirLines /\ PosInv /\ CountInv
  BY DEF IInv
<1>3. /\ Inputs' /\ pos' \in 0..Len(file') /\ file' = file /\ eol' = eol /\ skip' = skip
      /\ pos' = Len(file') \/ EolBefore(pos')
      /\ Terminated => pos' = pos + Len(Text) + Len(eol)
      /\ ~Terminated => pos' = Len(file)
  BY <1>1, <1>2, AdvanceIs, InputsSame DEF inputVars
<1>4. Reading'
  BY <1>1, <1>2, <1>3 DEF Reading
<1>5. PosInv' /\ CountInv'
  BY <1>1, <1>2, <1>3 DEF PosInv, CountInv
<1>6. LinesFollow' /\ RowsSpellTheirLines'
  BY <1>1, <1>2, RowsSame
<1>7. SuccessIsComplete'
  <2>1. PICK line \in Lines : pos = Len(file) \/ line = <<>>
    BY DEF Finish, NoLine
  <2>2. /\ pos \in Nat /\ Len(file) \in Nat /\ Len(eol) \in Nat \ {0}
        /\ pos <= Len(file) /\ pos' \in Nat /\ pos' <= Len(file)
    BY <1>2, <1>3 DEF Inputs, Reading
  <2>3. CASE pos' = Len(file)
    BY <1>1, <1>2, <1>3, <2>3 DEF SuccessIsComplete, CountInv
  <2>4. CASE pos' # Len(file)
    <3>1. Terminated /\ Text = <<>>
      <4>1. Terminated
        BY <1>3, <2>4
      <4>2. Text \in Seq(Tokens) /\ Len(Text) \in Nat /\ line = Text
        BY <1>2, <4>1, LineIs, LinesAre DEF Reading
      <4>3. pos # Len(file)
        BY <1>3, <2>2, <4>1, <4>2
      <4> QED BY <2>1, <4>1, <4>2, <4>3
    <3>2. pos' = pos + Len(eol) /\ EolBefore(pos')
      BY <1>3, <2>2, <2>4, <3>1
    <3>3. pos = 0 \/ EolBefore(pos)
      BY <1>1, <1>2, <2>2, <3>2 DEF PosInv
    <3>4. /\ pos' >= Len(eol) /\ Occurs(eol, pos' - Len(eol) + 1)
      BY <3>2 DEF EolBefore
    <3>5. CASE pos = 0
      <4>1. pos' = Len(eol)
        BY <2>2, <3>2, <3>5
      <4> QED BY <1>1, <1>2, <1>3, <3>4, <4>1 DEF SuccessIsComplete, CountInv, Occurs
    <3>6. CASE EolBefore(pos)
      <4>1. pos' >= 2 * Len(eol) /\ pos' - 2 * Len(eol) + 1 = pos - Len(eol) + 1
        BY <2>2, <3>2, <3>6 DEF EolBefore
      <4>2. Occurs(eol, pos' - 2 * Len(eol) + 1)
        BY <3>6, <4>1 DEF EolBefore
      <4> QED BY <1>1, <1>2, <1>3, <3>4, <4>1, <4>2 DEF SuccessIsComplete, CountInv, Occurs
    <3> QED BY <3>3, <3>5, <3>6
  <2> QED BY <2>3, <2>4
<1> QED BY <1>3, <1>4, <1>5, <1>6, <1>7 DEF IInv

\* A row is added, with its line after those of the others.
LEMMA InsertRowInv == IInv /\ InsertRow => IInv'
<1> SUFFICES ASSUME IInv, InsertRow PROVE IInv'
  OBVIOUS
<1>1. PICK line \in Lines :
        /\ pos # Len(file) /\ line # <<>> /\ Len(Fields(line)) = nCol
        /\ rows' = Append(rows, RowOf(line))
  BY DEF InsertRow, NoLine
<1>2. /\ status = "reading" /\ status' = status /\ ~(lineno < skip)
      /\ pos' = LineEnd /\ lineno' = lineno + 1 /\ begun' = begun /\ UNCHANGED inputVars
      /\ file' = file /\ eol' = eol /\ separator' = separator /\ nCol' = nCol
      /\ skip' = skip
      /\ spans' = Append(spans, <<pos + 1, pos + Len(Text)>>)
  BY DEF InsertRow, SkipsLine, Advance, inputVars
<1>3. /\ Inputs /\ Reading /\ PosInv /\ CountInv /\ LinesFollow
      /\ RowsSpellTheirLines
  BY DEF IInv
<1>4. /\ Inputs' /\ pos' \in 0..Len(file) /\ pos' \in Nat
      /\ pos' = Len(file) \/ EolBefore(pos')
      /\ EolBefore(pos') => EolBefore(pos)'
      /\ Terminated => /\ pos' = pos + Len(Text) + Len(eol)
                       /\ Occurs(eol, pos + Len(Text) + 1)
      /\ ~Terminated => pos' = Len(file)
  BY <1>2, <1>3, AdvanceIs, InputsSame
<1>5. /\ line \in Seq(Tokens)
      /\ Terminated => line = Text
      /\ Text \in Seq(Tokens) /\ Len(Text) \in Nat /\ pos \in Nat /\ Len(file) \in Nat
      /\ Len(eol) \in Nat \ {0}
      /\ ~Terminated => Len(Text) = Len(file) - pos
      /\ Text = SubSeq(file, pos + 1, pos + Len(Text)) /\ eol \notin SubSeqs(Text)
  BY <1>3, LineIs, LinesAre DEF Inputs, Reading
<1>6. /\ RowOf(line) \in Seq(Seq(Tokens \cup {"NULL"}))
      /\ (\A j \in 1..nCol : RowOf(line)[j] # Null) => Spelled(RowOf(line), line)
  BY <1>1, <1>3, <1>5, LineSpelled
<1>7. PICK N \in Nat : N = Len(rows)
  BY <1>3 DEF Reading
<1>8. /\ Len(rows) = N /\ Len(spans) = N /\ DOMAIN rows = 1..N /\ DOMAIN rows' = 1..N + 1
      /\ Len(rows') = N + 1 /\ Len(spans') = N + 1
      /\ rows'[N + 1] = RowOf(line) /\ spans'[N + 1] = <<pos + 1, pos + Len(Text)>>
      /\ \A r \in 1..N : rows'[r] = rows[r] /\ spans'[r] = spans[r]
      /\ rows' \in Seq(Seq(Seq(Tokens \cup {"NULL"}))) /\ spans' \in Seq(Nat \X Nat)
  <2>1. /\ rows \in Seq(Seq(Seq(Tokens \cup {"NULL"}))) /\ Len(rows) = N /\ spans \in Seq(Nat \X Nat)
        /\ Len(spans) = N /\ <<pos + 1, pos + Len(Text)>> \in Nat \X Nat
    BY <1>3, <1>5, <1>7 DEF Reading
  <2>2. /\ rows' \in Seq(Seq(Seq(Tokens \cup {"NULL"}))) /\ Len(rows') = N + 1
        /\ \A r \in 1..N : rows'[r] = rows[r]
        /\ rows'[N + 1] = RowOf(line)
    BY <1>1, <1>6, <2>1, AppendProperties
  <2>3. /\ spans' \in Seq(Nat \X Nat) /\ Len(spans') = N + 1
        /\ \A r \in 1..N : spans'[r] = spans[r]
        /\ spans'[N + 1] = <<pos + 1, pos + Len(Text)>>
    BY <1>2, <2>1, AppendProperties
  <2>4. DOMAIN rows = 1..N
    BY <2>1
  <2>5. DOMAIN rows' = 1..N + 1
    BY <2>2
  <2> QED BY <2>1, <2>2, <2>3, <2>4, <2>5, Zenon
<1>9. /\ \A r \in 1..N : Ended(r)' <=> Ended(r)
      /\ \A r \in 1..N : TextOf(r)' = TextOf(r)
      /\ \A r \in 1..N : Join(rows[r])' = Join(rows[r])
  <2>1. \A r \in 1..N : Ended(r)' <=> Ended(r)
    BY <1>2, <1>8 DEF Ended, Occurs
  <2>2. \A r \in 1..N : TextOf(r)' = TextOf(r)
    BY <1>2, <1>8 DEF TextOf
  <2>3. \A r \in 1..N : Join(rows[r])' = Join(rows[r])
    BY <1>2, <1>8, Zenon DEF Join
  <2> QED BY <2>1, <2>2, <2>3
<1>10. Ended(N + 1)' <=> Terminated
  <2>1. Ended(N + 1)' <=> Occurs(eol, pos + Len(Text) + 1)
    <3>1. spans'[N + 1][2] = pos + Len(Text)
      BY <1>8
    <3> QED BY <1>2, <3>1, Zenon DEF Ended, Occurs
  <2>2. ~Terminated => ~Occurs(eol, pos + Len(Text) + 1)
    BY <1>5 DEF Occurs
  <2> QED BY <1>4, <2>1, <2>2
<1>11. TextOf(N + 1)' = Text
  BY <1>2, <1>5, <1>8, SMTT(30) DEF TextOf
<1>12. Reading'
  BY <1>2, <1>3, <1>4, <1>8 DEF Reading
<1>13. PosInv'
  <2>1. pos' = 0 \/ pos' = Len(file') \/ EolBefore(pos)'
    BY <1>2, <1>4
  <2>2. rows' # <<>>
    BY <1>8
  <2>3. Terminated => Ended(N + 1)' /\ pos' = spans'[N + 1][2] + Len(eol')
    BY <1>2, <1>4, <1>8, <1>10
  <2>4. ~Terminated => pos' = Len(file')
    BY <1>2, <1>4
  <2> QED BY <1>8, <2>1, <2>2, <2>3, <2>4 DEF PosInv
<1>14. CountInv'
  <2>1. lineno \in Nat /\ skip \in Nat /\ lineno >= skip
    BY <1>2, <1>3 DEF Reading, Inputs
  <2>2. N = IF lineno > skip THEN lineno - skip ELSE 0
    BY <1>2, <1>3, <1>8 DEF CountInv
  <2>3. N + 1 = IF lineno + 1 > skip THEN (lineno + 1) - skip ELSE 0
    BY <2>1, <2>2
  <2> QED BY <1>2, <1>8, <2>3 DEF CountInv
<1>15. N # 0 => Ended(N) /\ pos = spans[N][2] + Len(eol)
  BY <1>1, <1>2, <1>3, <1>8 DEF PosInv
<1>16. LinesFollow'
  <2> SUFFICES ASSUME NEW r \in 1..N + 1
               PROVE  /\ spans'[r][1] = IF r = 1 THEN begun' + 1
                                        ELSE spans'[r - 1][2] + Len(eol') + 1
                      /\ r < Len(rows') => Ended(r)'
                      /\ eol' \notin SubSeqs(TextOf(r)')
    BY <1>8 DEF LinesFollow
  <2>1. CASE r = N + 1
    <3>1. spans'[r][1] = pos + 1 /\ ~(r < Len(rows'))
      BY <1>8, <2>1
    <3>2. eol' \notin SubSeqs(TextOf(r)')
      BY <1>2, <1>5, <1>11, <2>1
    <3>3. CASE N = 0
      <4>1. pos = begun /\ r = 1
        BY <1>2, <1>3, <1>8, <2>1, <3>3 DEF PosInv, Reading
      <4> QED BY <1>2, <3>1, <3>2, <4>1
    <3>4. CASE N # 0
      <4>1. r # 1 /\ r - 1 = N /\ N \in 1..N
        BY <1>8, <2>1, <3>4
      <4>2. spans'[r - 1] = spans[N]
        BY <1>8, <4>1
      <4> QED BY <1>2, <1>15, <3>1, <3>2, <3>4, <4>1, <4>2
    <3> QED BY <3>3, <3>4
  <2>2. CASE r \in 1..N
    <3>1. /\ spans[r][1] = IF r = 1 THEN begun + 1 ELSE spans[r - 1][2] + Len(eol) + 1
          /\ r < N => Ended(r)
          /\ eol \notin SubSeqs(TextOf(r))
      BY <1>3, <1>8, <2>2 DEF LinesFollow
    <3>2. spans'[r] = spans[r] /\ TextOf(r)' = TextOf(r) /\ Ended(r)' <=> Ended(r)
      BY <1>8, <1>9, <2>2
    <3>3. r # 1 => spans'[r - 1] = spans[r - 1]
      <4>1. r # 1 => r - 1 \in 1..N
        BY <2>2
      <4> QED BY <1>8, <4>1, Zenon
    <3>4. r = N => Ended(r)
      BY <1>8, <1>15, <2>2
    <3>5. Ended(r)
      BY <1>8, <2>2, <3>1, <3>4
    <3> QED BY <1>2, <1>8, <3>1, <3>2, <3>3, <3>5
  <2> QED BY <1>8, <2>1, <2>2
<1>17. RowsSpellTheirLines'
  <2> SUFFICES ASSUME NEW r \in 1..N + 1, Ended(r)', \A j \in 1..nCol : rows'[r][j] # Null
               PROVE  /\ Join(rows[r])' = TextOf(r)'
                      /\ \A j \in 1..nCol :
                           \/ ToSet(rows'[r][j]) \cap {"CR", "LF"} # {}
                           \/ separator \notin SubSeqs(rows'[r][j])
    BY <1>2, <1>8 DEF RowsSpellTheirLines
  <2>1. CASE r = N + 1
    <3>1. Terminated /\ rows'[r] = RowOf(line) /\ TextOf(r)' = line
      BY <1>5, <1>8, <1>10, <1>11, <2>1
    <3>2. Spelled(rows'[r], line)
      BY <1>6, <3>1
    <3>3. Join(rows[r])' = Join(rows'[r])
      BY <1>2, Zenon DEF Join
    <3> QED BY <3>1, <3>2, <3>3 DEF Spelled
  <2>2. CASE r \in 1..N
    BY <1>3, <1>8, <1>9, <2>2 DEF RowsSpellTheirLines
  <2> QED BY <1>8, <2>1, <2>2, SMTT(30)
<1>18. SuccessIsComplete'
  BY <1>2 DEF SuccessIsComplete
<1> QED BY <1>4, <1>12, <1>13, <1>14, <1>16, <1>17, <1>18 DEF IInv

----------------------------------------------------------------------------
(* The theorems *)

\* Every reachable state of an import satisfies the invariant.
THEOREM Inductive == Spec => []IInv
<1>1. IInv /\ [Next]_vars => IInv'
  <2> SUFFICES ASSUME IInv, [Next]_vars PROVE IInv'
    OBVIOUS
  <2>1. CASE UNCHANGED vars
    <3>1. /\ UNCHANGED inputVars /\ UNCHANGED <<inputVars, rows, spans>>
          /\ status' = status /\ pos' = pos /\ lineno' = lineno /\ begun' = begun
          /\ rows' = rows /\ spans' = spans /\ file' = file /\ eol' = eol /\ skip' = skip
      BY <2>1 DEF vars, inputVars
    <3>2. Inputs' /\ LinesFollow' /\ RowsSpellTheirLines'
      BY <3>1, InputsSame, RowsSame DEF IInv
    <3>3. Reading' /\ CountInv'
      BY <3>1 DEF IInv, Reading, CountInv
    <3>4. PosInv'
      BY <3>1 DEF IInv, PosInv, EolBefore, Occurs, Ended
    <3>5. SuccessIsComplete'
      BY <3>1 DEF IInv, SuccessIsComplete, Occurs
    <3> QED BY <3>2, <3>3, <3>4, <3>5 DEF IInv
  <2> QED BY <2>1, SkipLineInv, InsertRowInv, FailureInv, FinishInv DEF Next
<1> QED BY InitInv, <1>1, PTL DEF Spec

\* The rows spell the lines of the file, whatever the separator and the
\* end-of-line.
THEOREM RowsAreSpelled == Spec => []RowsSpellTheirLines
<1>1. IInv => RowsSpellTheirLines
  BY DEF IInv
<1> QED BY <1>1, Inductive, PTL

\* The lines of the rows follow each other in the file.
THEOREM LinesAreInOrder == Spec => []LinesFollow
<1>1. IInv => LinesFollow
  BY DEF IInv
<1> QED BY <1>1, Inductive, PTL

\* An import that succeeds has read the file to its end or to a blank line.
THEOREM SuccessMeansAll == Spec => []SuccessIsComplete
<1>1. IInv => SuccessIsComplete
  BY DEF IInv
<1> QED BY <1>1, Inductive, PTL

----------------------------------------------------------------------------
(* The scan of a declared type *)

\* h is the last four characters and aff is right for those read so far; the
\* loop goes on until INT is found or the type ends.
ScanInv ==
  /\ type \in Seq(Char) /\ at \in 0..Len(type) /\ done \in BOOLEAN
  /\ h = Declared!WordAt(type, at)
  /\ aff = Declared!Table(type, at)
  /\ ~done => ~Declared!IntOccurs(type, at)
  /\ done => at = Len(type) \/ Declared!IntOccurs(type, at)

\* One more character: a word occurs if it did before or if it ends here.
LEMMA OccursNext ==
  ASSUME NEW t, NEW p \in Nat, NEW words
  PROVE  /\ Declared!Occurs(words, t, p + 1) <=> Declared!Occurs(words, t, p) \/ Declared!WordAt(t, p + 1) \in words
         /\ Declared!IntOccurs(t, p + 1) <=> Declared!IntOccurs(t, p) \/ Declared!IsInt(Declared!WordAt(t, p + 1))
<1>1. \A k : k \in 1..(p + 1) <=> k \in 1..p \/ k = p + 1
  OBVIOUS
<1>2. Declared!Occurs(words, t, p + 1) <=> Declared!Occurs(words, t, p) \/ Declared!WordAt(t, p + 1) \in words
  BY <1>1 DEF Declared!Occurs
<1>3. Declared!IntOccurs(t, p + 1) <=> Declared!IntOccurs(t, p) \/ Declared!IsInt(Declared!WordAt(t, p + 1))
  BY <1>1 DEF Declared!IntOccurs
<1> QED BY <1>2, <1>3

\* Four characters are a word of one row of the table at most.
LEMMA WordsDiffer ==
  ASSUME NEW g
  PROVE  /\ g \in Declared!TextWords => g \notin Declared!BlobWords /\ g \notin Declared!RealWords /\ ~Declared!IsInt(g)
         /\ g \in Declared!BlobWords => g \notin Declared!RealWords /\ ~Declared!IsInt(g)
         /\ g \in Declared!RealWords => ~Declared!IsInt(g)
  BY DEF Declared!TextWords, Declared!BlobWords, Declared!RealWords, Declared!IsInt

\* What the chain of else-ifs makes of the word that ends at position p + 1.
LEMMA TableNext ==
  ASSUME NEW t, NEW p \in Nat, ~Declared!IntOccurs(t, p)
  PROVE  Declared!NewAff(Declared!Table(t, p), Declared!WordAt(t, p + 1)) = Declared!Table(t, p + 1)
<1> DEFINE g == Declared!WordAt(t, p + 1)
<1>1. /\ Declared!Occurs(Declared!TextWords, t, p + 1) <=> Declared!Occurs(Declared!TextWords, t, p) \/ g \in Declared!TextWords
      /\ Declared!Occurs(Declared!BlobWords, t, p + 1) <=> Declared!Occurs(Declared!BlobWords, t, p) \/ g \in Declared!BlobWords
      /\ Declared!Occurs(Declared!RealWords, t, p + 1) <=> Declared!Occurs(Declared!RealWords, t, p) \/ g \in Declared!RealWords
      /\ Declared!IntOccurs(t, p + 1) <=> Declared!IsInt(g)
  BY OccursNext
<1>2. /\ g \in Declared!TextWords => g \notin Declared!BlobWords /\ g \notin Declared!RealWords /\ ~Declared!IsInt(g)
      /\ g \in Declared!BlobWords => g \notin Declared!RealWords /\ ~Declared!IsInt(g)
      /\ g \in Declared!RealWords => ~Declared!IsInt(g)
  BY WordsDiffer
<1> HIDE DEF g
<1>3. Declared!NewAff(Declared!Table(t, p), g) = Declared!Table(t, p + 1)
  BY <1>1, <1>2 DEF Declared!NewAff, Declared!Table
<1> QED BY <1>3 DEF g

\* No word ends before the first character.
LEMMA ScanInit == Declared!Init => ScanInv
<1> SUFFICES ASSUME Declared!Init PROVE ScanInv
  OBVIOUS
<1>1. type \in Seq(Char) /\ Len(type) \in Nat /\ at = 0 /\ done = FALSE
  BY DEF Declared!Init
<1>2. \A k : ~(k \in 1..0)
  OBVIOUS
<1>3. h = Declared!WordAt(type, 0)
  BY <1>1 DEF Declared!Init, Declared!WordAt, Declared!CharAt
<1>4. /\ ~Declared!IntOccurs(type, 0) /\ ~Declared!Occurs(Declared!TextWords, type, 0)
      /\ ~Declared!Occurs(Declared!BlobWords, type, 0) /\ ~Declared!Occurs(Declared!RealWords, type, 0)
  BY <1>2 DEF Declared!IntOccurs, Declared!Occurs
<1>5. aff = Declared!Table(type, 0)
  BY <1>4 DEF Declared!Init, Declared!Table
<1>6. at \in 0..Len(type)
  BY <1>1
<1>7. done \in BOOLEAN
  BY <1>1
<1>8. h = Declared!WordAt(type, at) /\ aff = Declared!Table(type, at) /\ ~Declared!IntOccurs(type, at)
  BY <1>1, <1>3, <1>4, <1>5
<1> QED BY <1>1, <1>6, <1>7, <1>8 DEF ScanInv

\* A step of the scan reads one more character or leaves the loop.
LEMMA ScanStep == ScanInv /\ [Declared!Next]_Declared!vars => ScanInv'
<1> SUFFICES ASSUME ScanInv, [Declared!Next]_Declared!vars PROVE ScanInv'
  OBVIOUS
<1>0. /\ type \in Seq(Char) /\ Len(type) \in Nat /\ at \in 0..Len(type) /\ at \in Nat
      /\ done \in BOOLEAN /\ h = Declared!WordAt(type, at) /\ aff = Declared!Table(type, at)
      /\ ~done => ~Declared!IntOccurs(type, at)
      /\ done => at = Len(type) \/ Declared!IntOccurs(type, at)
  BY DEF ScanInv
<1>1. CASE Declared!Scan
  <2>1. /\ ~done /\ at < Len(type) /\ at' = at + 1 /\ type' = type
        /\ h' = Declared!Shift(Lower[type[at + 1]]) /\ aff' = Declared!NewAff(aff, h') /\ done' = Declared!IsInt(h')
    BY <1>1 DEF Declared!Scan
  <2>2. h' = Declared!WordAt(type, at + 1)
    <3>1. Declared!CharAt(type, at + 1) = Lower[type[at + 1]]
      BY <1>0, <2>1 DEF Declared!CharAt
    <3>2. /\ h[2] = Declared!CharAt(type, at - 2) /\ h[3] = Declared!CharAt(type, at - 1)
          /\ h[4] = Declared!CharAt(type, at)
      BY <1>0 DEF Declared!WordAt
    <3>3. (at + 1) - 3 = at - 2 /\ (at + 1) - 2 = at - 1 /\ (at + 1) - 1 = at
      BY <1>0
    <3> QED BY <2>1, <3>1, <3>2, <3>3 DEF Declared!Shift, Declared!WordAt
  <2>3. aff' = Declared!Table(type, at + 1)
    BY <1>0, <2>1, <2>2, TableNext
  <2>4. Declared!IntOccurs(type, at + 1) <=> Declared!IsInt(h')
    BY <1>0, <2>1, <2>2, OccursNext
  <2>5. at' \in 0..Len(type') /\ done' \in BOOLEAN /\ type' \in Seq(Char)
    BY <1>0, <2>1 DEF Declared!IsInt
  <2> QED BY <2>1, <2>2, <2>3, <2>4, <2>5 DEF ScanInv
<1>2. CASE Declared!Stop
  BY <1>0, <1>2 DEF Declared!Stop, ScanInv
<1>3. CASE UNCHANGED Declared!vars
  BY <1>0, <1>3 DEF Declared!vars, ScanInv
<1> QED BY <1>1, <1>2, <1>3 DEF Declared!Next

\* Whatever the declared type, the affinity is that of the table: of several
\* words in it the one further up wins, wherever in the type it stands.
THEOREM ScanFollowsTable == Declared!Spec => []Declared!FollowsTable
<1>1. ScanInv => Declared!FollowsTable
  <2> SUFFICES ASSUME ScanInv, done PROVE aff = Declared!Table(type, Len(type))
    BY DEF Declared!FollowsTable
  <2>1. at \in 0..Len(type) /\ Len(type) \in Nat /\ aff = Declared!Table(type, at)
    BY DEF ScanInv
  <2>2. CASE at = Len(type)
    BY <2>1, <2>2
  <2>3. CASE Declared!IntOccurs(type, at)
    <3>1. Declared!IntOccurs(type, Len(type))
      BY <2>1, <2>3 DEF Declared!IntOccurs
    <3> QED BY <2>1, <2>3, <3>1 DEF Declared!Table
  <2> QED BY <2>2, <2>3 DEF ScanInv
<1> QED BY ScanInit, ScanStep, <1>1, PTL DEF Declared!Spec
=============================================================================
