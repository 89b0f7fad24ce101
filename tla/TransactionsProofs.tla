------------------------- MODULE TransactionsProofs -------------------------
(***************************************************************************)
(* A table write is one step on the table: Transactions implements         *)
(* AtomicStore, for any rows, names, depth of savepoints and number of     *)
(* failures.                                                               *)
(*                                                                         *)
(* While a write runs, its own savepoint lies on top of those the user     *)
(* had, which are as they were (Inside), or SQLite has thrown away the     *)
(* whole transaction (Aborted), and what remains are clean-ups that fail.  *)
(***************************************************************************)
EXTENDS Transactions, SequenceTheorems, WellFoundedInduction, TLAPS

Parts == {Table, OldRow} \cup Rows
Savepoint == [name : Names, content : SUBSET Parts]
Database == [content : SUBSET Parts, disk : SUBSET Parts, stack : Seq(Savepoint),
             begun : BOOLEAN, locked : BOOLEAN]

\* Rows are in a table, and outside a transaction the table is on disk.
Whole(c) == c \in SUBSET Parts /\ (c = {} \/ Table \in c)
DbOK(d) ==
  /\ d \in Database
  /\ Whole(d.content) /\ Whole(d.disk)
  /\ \A k \in 1..Len(d.stack) : Whole(d.stack[k].content)
  /\ ~InTransaction(d) => d.content = d.disk /\ ~d.locked

----------------------------------------------------------------------------
(* What the operators of Savepoints do *)

\* A set of numbers from 1 to n that is not empty has a largest.
LEMMA MaxExists ==
  ASSUME NEW n \in Nat, NEW T, T \subseteq 1..n, T # {}
  PROVE  Max(T) \in T /\ \A t \in T : Max(T) >= t
<1> DEFINE R == {r \in Nat \X Nat : r[1] < r[2]}
           U == {n - t : t \in T}
<1>1. IsWellFoundedOn(R, Nat)
  BY NatLessThanWellFounded DEF OpToRel
<1>2. U \subseteq Nat /\ U # {}
  <2>1. \A t \in T : n - t \in Nat
    OBVIOUS
  <2>2. PICK t \in T : TRUE
    OBVIOUS
  <2>3. n - t \in U
    OBVIOUS
  <2> QED BY <2>1, <2>3
<1>3. PICK u \in U : \A y \in U : <<y, u>> \notin R
  <2> HIDE DEF R, U
  <2> QED BY <1>1, <1>2, WFMin
<1>4. PICK t \in T : u = n - t
  OBVIOUS
<1>5. \A s \in T : t >= s
  <2> TAKE s \in T
  <2>1. n - s \in U /\ n - s \in Nat /\ u \in Nat
    BY <1>2
  <2>2. ~(n - s < u)
    BY <1>3, <2>1
  <2> QED BY <2>2, <1>4
<1> QED BY <1>5 DEF Max

\* The innermost savepoint of a name is one of that name, and none above it is.
LEMMA InnermostIs ==
  ASSUME NEW d, d.stack \in Seq(Savepoint), NEW n, Known(d, n)
  PROVE  /\ Innermost(d, n) \in 1..Len(d.stack)
         /\ d.stack[Innermost(d, n)].name = n
         /\ \A k \in 1..Len(d.stack) : d.stack[k].name = n => k <= Innermost(d, n)
<1> DEFINE T == {k \in DOMAIN d.stack : d.stack[k].name = n}
<1>1. DOMAIN d.stack = 1..Len(d.stack) /\ Len(d.stack) \in Nat
  OBVIOUS
<1>2. T # {} /\ T \subseteq 1..Len(d.stack)
  BY <1>1 DEF Known
<1>3. Max(T) \in T /\ \A t \in T : Max(T) >= t
  BY <1>1, <1>2, MaxExists
<1>4. Innermost(d, n) = Max(T)
  BY DEF Innermost
<1> QED BY <1>1, <1>3, <1>4

\* A savepoint is found by its name if there is none of that name above it.
LEMMA InnermostAt ==
  ASSUME NEW d, d.stack \in Seq(Savepoint), NEW n, NEW j \in 1..Len(d.stack),
         d.stack[j].name = n,
         \A k \in (j + 1)..Len(d.stack) : d.stack[k].name # n
  PROVE  Known(d, n) /\ Innermost(d, n) = j
<1>1. Known(d, n)
  BY DEF Known
<1>2. Innermost(d, n) >= j /\ Innermost(d, n) \in 1..Len(d.stack)
      /\ d.stack[Innermost(d, n)].name = n
  BY <1>1, InnermostIs
<1> QED BY <1>1, <1>2

\* A prefix of a savepoint stack.
LEMMA CutIs ==
  ASSUME NEW s \in Seq(Savepoint), NEW k \in 0..Len(s)
  PROVE  /\ SubSeq(s, 1, k) \in Seq(Savepoint) /\ Len(SubSeq(s, 1, k)) = k
         /\ \A i \in 1..k : SubSeq(s, 1, k)[i] = s[i]
         /\ SubSeq(s, 1, k) = <<>> <=> k = 0
  OBVIOUS

\* BEGIN, COMMIT, ROLLBACK and a read leave a sound database.
LEMMA PlainOK ==
  ASSUME NEW d, DbOK(d)
  PROVE  DbOK(Begun(d)) /\ DbOK(Committed(d)) /\ DbOK(RolledBack(d)) /\ DbOK(Read(d))
<1>1. DbOK(Begun(d))
  BY DEF DbOK, Begun, Database, InTransaction
<1>2. DbOK(Committed(d))
  <2>1. /\ Committed(d) \in Database /\ Committed(d).content = d.content
        /\ Committed(d).disk = d.content /\ Committed(d).stack = <<>> /\ ~Committed(d).locked
    BY EmptySeq DEF DbOK, Committed, Database
  <2> QED BY <2>1 DEF DbOK
<1>3. DbOK(RolledBack(d))
  <2>1. /\ RolledBack(d) \in Database /\ RolledBack(d).content = d.disk
        /\ RolledBack(d).disk = d.disk /\ RolledBack(d).stack = <<>> /\ ~RolledBack(d).locked
    BY EmptySeq DEF DbOK, RolledBack, Database
  <2> QED BY <2>1 DEF DbOK
<1>4. DbOK(Read(d))
  BY DEF DbOK, Read, Database, InTransaction
<1> QED BY <1>1, <1>2, <1>3, <1>4
\* A savepoint more.
LEMMA SavedIs ==
  ASSUME NEW d, DbOK(d), NEW n \in Names
  PROVE  LET e == Saved(d, n)
         IN  /\ DbOK(e)
             /\ e.content = d.content /\ e.disk = d.disk /\ e.begun = d.begun /\ e.locked = d.locked
             /\ Len(e.stack) = Len(d.stack) + 1
             /\ \A k \in 1..Len(d.stack) : e.stack[k] = d.stack[k]
             /\ e.stack[Len(d.stack) + 1] = [name |-> n, content |-> d.content]
<1> DEFINE e == Saved(d, n)
           p == [name |-> n, content |-> d.content]
<1>1. d \in Database /\ p \in Savepoint
  BY DEF DbOK, Database, Savepoint
<1>2. /\ e.content = d.content /\ e.disk = d.disk /\ e.begun = d.begun /\ e.locked = d.locked
      /\ e.stack = Append(d.stack, p)
  BY <1>1 DEF Saved, Database
<1>3. /\ Append(d.stack, p) # <<>>
      /\ Append(d.stack, p) \in Seq(Savepoint) /\ Len(Append(d.stack, p)) = Len(d.stack) + 1
      /\ \A k \in 1..Len(d.stack) : Append(d.stack, p)[k] = d.stack[k]
      /\ Append(d.stack, p)[Len(d.stack) + 1] = p
  BY <1>1, AppendProperties DEF Database
<1>4. e \in Database
  BY <1>1, <1>3 DEF Saved, Database
<1>5. InTransaction(e)
  BY <1>2, <1>3 DEF InTransaction
<1>6. ASSUME NEW k \in 1..Len(e.stack) PROVE Whole(e.stack[k].content)
  <2>1. Len(d.stack) \in Nat /\ Len(e.stack) = Len(d.stack) + 1
    BY <1>1, <1>2, <1>3 DEF Database
  <2>2. k \in 1..Len(d.stack) \/ k = Len(d.stack) + 1
    BY <2>1
  <2> QED BY <2>2, <1>2, <1>3 DEF DbOK
<1>7. DbOK(e)
  BY <1>2, <1>4, <1>5, <1>6 DEF DbOK
<1> QED BY <1>2, <1>3, <1>7

\* RELEASE, inside a transaction and of the outermost savepoint.
LEMMA ReleasedIs ==
  ASSUME NEW d, DbOK(d), NEW n, Known(d, n)
  PROVE  LET e == Released(d, n)
             j == Innermost(d, n) - 1
         IN  /\ DbOK(e)
             /\ e.content = d.content
             /\ d.begun \/ j # 0 =>
                  /\ e.disk = d.disk /\ e.begun = d.begun /\ e.locked = d.locked
                  /\ e.stack = SubSeq(d.stack, 1, j)
             /\ ~d.begun /\ j = 0 =>
                  e.disk = d.content /\ e.stack = <<>> /\ ~e.begun /\ ~e.locked
<1> DEFINE j == Innermost(d, n) - 1
           s == SubSeq(d.stack, 1, j)
           left == [d EXCEPT !.stack = s]
           e == Released(d, n)
<1>1. d \in Database /\ d.stack \in Seq(Savepoint) /\ Len(d.stack) \in Nat
  BY DEF DbOK, Database
<1>2. Innermost(d, n) \in 1..Len(d.stack)
  BY <1>1, InnermostIs
<1>3. j \in 0..Len(d.stack)
  BY <1>1, <1>2
<1>4. /\ s \in Seq(Savepoint) /\ Len(s) = j
      /\ \A i \in 1..j : s[i] = d.stack[i]
      /\ s = <<>> <=> j = 0
  BY <1>1, <1>3, CutIs
<1>5. /\ left \in Database /\ left.content = d.content /\ left.disk = d.disk
      /\ left.begun = d.begun /\ left.locked = d.locked /\ left.stack = s
  BY <1>1, <1>4 DEF Database
<1>6. InTransaction(left) <=> d.begun \/ j # 0
  BY <1>4, <1>5 DEF InTransaction
<1>7. e = IF InTransaction(left) THEN left ELSE Committed(left)
  BY DEF Released
<1>8. CASE d.begun \/ j # 0
  <2>1. e = left
    BY <1>6, <1>7, <1>8
  <2>2. DbOK(left)
    <3>1. \A k \in 1..Len(left.stack) : Whole(left.stack[k].content)
      BY <1>3, <1>4, <1>5 DEF DbOK
    <3> QED BY <1>5, <1>6, <1>8, <3>1 DEF DbOK
  <2> HIDE DEF left, e, s, j
  <2> QED BY <2>1, <2>2, <1>5, <1>8 DEF e, s, j
<1>9. CASE ~d.begun /\ j = 0
  <2>1. e = Committed(left)
    BY <1>6, <1>7, <1>9
  <2>2. /\ e \in Database /\ e.content = d.content /\ e.disk = d.content
        /\ e.stack = <<>> /\ ~e.begun /\ ~e.locked
    <3> HIDE DEF left, e, s
    <3> QED BY <2>1, <1>5, EmptySeq DEF Committed, Database
  <2>3. DbOK(e)
    BY <2>2 DEF DbOK
  <2> QED BY <2>2, <2>3, <1>9
<1> QED BY <1>8, <1>9

\* ROLLBACK TO.
LEMMA RolledBackToIs ==
  ASSUME NEW d, DbOK(d), NEW n, Known(d, n)
  PROVE  LET e == RolledBackTo(d, n)
             j == Innermost(d, n)
         IN  /\ DbOK(e)
             /\ e.content = d.stack[j].content /\ e.disk = d.disk
             /\ e.begun = d.begun /\ e.locked = d.locked
             /\ e.stack = SubSeq(d.stack, 1, j)
<1> DEFINE j == Innermost(d, n)
           s == SubSeq(d.stack, 1, j)
           e == RolledBackTo(d, n)
<1>1. d \in Database /\ d.stack \in Seq(Savepoint) /\ Len(d.stack) \in Nat
  BY DEF DbOK, Database
<1>2. j \in 1..Len(d.stack) /\ j \in 0..Len(d.stack)
  BY <1>1, InnermostIs
<1>3. /\ s \in Seq(Savepoint) /\ Len(s) = j
      /\ \A i \in 1..j : s[i] = d.stack[i]
      /\ s # <<>>
  BY <1>1, <1>2, CutIs
<1>4. Whole(d.stack[j].content)
  BY <1>2 DEF DbOK
<1>5. /\ e \in Database /\ e.content = d.stack[j].content /\ e.disk = d.disk
      /\ e.begun = d.begun /\ e.locked = d.locked /\ e.stack = s
  BY <1>1, <1>3, <1>4 DEF RolledBackTo, Database, Whole
<1>6. \A k \in 1..Len(e.stack) : Whole(e.stack[k].content)
  BY <1>2, <1>3, <1>5 DEF DbOK
<1>7. DbOK(e)
  BY <1>3, <1>4, <1>5, <1>6 DEF DbOK, InTransaction
<1> QED BY <1>5, <1>7

\* A write, in a transaction and by itself.
LEMMA WrittenIs ==
  ASSUME NEW d, DbOK(d), NEW c, Whole(c)
  PROVE  LET e == Written(d, c)
         IN  /\ DbOK(e)
             /\ e.content = c /\ e.stack = d.stack /\ e.begun = d.begun
             /\ InTransaction(d) => e.disk = d.disk /\ e.locked
<1> DEFINE e == Written(d, c)
<1>1. /\ e \in Database /\ e.content = c /\ e.stack = d.stack /\ e.begun = d.begun
      /\ InTransaction(d) => e.disk = d.disk /\ e.locked
      /\ ~InTransaction(d) => e.disk = c /\ e.locked = d.locked
  BY DEF DbOK, Written, Database, Whole
<1>2. DbOK(e)
  <2> HIDE DEF e
  <2> QED BY <1>1 DEF DbOK, InTransaction
<1> QED BY <1>1, <1>2

\* A read takes a lock inside a transaction and changes nothing else.
LEMMA ReadIs ==
  ASSUME NEW d, DbOK(d)
  PROVE  LET e == Read(d)
         IN  /\ DbOK(e)
             /\ e.content = d.content /\ e.disk = d.disk /\ e.stack = d.stack
             /\ e.begun = d.begun /\ e.locked = InTransaction(d)
<1>1. DbOK(Read(d))
  BY PlainOK
<1> QED BY <1>1 DEF DbOK, Read, Database

\* After a rollback of everything there is only what is on disk.
LEMMA RolledBackIs ==
  ASSUME NEW d, DbOK(d)
  PROVE  LET e == RolledBack(d)
         IN  /\ DbOK(e)
             /\ e = [content |-> d.disk, disk |-> d.disk, stack |-> <<>>,
                     begun |-> FALSE, locked |-> FALSE]
<1>1. DbOK(RolledBack(d))
  BY PlainOK
<1>2. RolledBack(d) \in Database
  BY <1>1 DEF DbOK
<1>3. /\ RolledBack(d).content = d.disk /\ RolledBack(d).disk = d.disk
      /\ RolledBack(d).stack = <<>>
      /\ RolledBack(d).begun = FALSE /\ RolledBack(d).locked = FALSE
  BY DEF RolledBack, DbOK, Database
<1>4. RolledBack(d) = [content |-> d.disk, disk |-> d.disk, stack |-> <<>>,
                       begun |-> FALSE, locked |-> FALSE]
  <2> DEFINE e == RolledBack(d)
  <2> HIDE DEF e
  <2>1. e = [content |-> e.content, disk |-> e.disk, stack |-> e.stack,
             begun |-> e.begun, locked |-> e.locked]
    BY <1>2 DEF Database, e
  <2> QED BY <1>3, <2>1 DEF e
<1> QED BY <1>1, <1>4

\* Another connection writes.
LEMMA ChangedIs ==
  ASSUME NEW d, DbOK(d), NEW c, Whole(c)
  PROVE  LET e == Changed(d, c)
         IN  /\ DbOK(e)
             /\ e.content = c /\ e.disk = c /\ e.begun = d.begun /\ e.locked = d.locked
             /\ Len(e.stack) = Len(d.stack)
             /\ \A k \in 1..Len(d.stack) :
                  e.stack[k] = [name |-> d.stack[k].name, content |-> c]
<1> DEFINE e == Changed(d, c)
           s == [k \in DOMAIN d.stack |-> [d.stack[k] EXCEPT !.content = c]]
<1>1. d \in Database /\ d.stack \in Seq(Savepoint) /\ Len(d.stack) \in Nat
      /\ DOMAIN d.stack = 1..Len(d.stack)
  BY DEF DbOK, Database
<1>2. ASSUME NEW k \in 1..Len(d.stack)
      PROVE  s[k] = [name |-> d.stack[k].name, content |-> c] /\ s[k] \in Savepoint
  <2>1. d.stack[k] \in Savepoint
    BY <1>1
  <2>2. s[k] = [d.stack[k] EXCEPT !.content = c]
    BY <1>1
  <2>3. s[k] \in Savepoint /\ s[k].name = d.stack[k].name /\ s[k].content = c
    <3> HIDE DEF s
    <3> QED BY <2>1, <2>2 DEF Savepoint, Whole
  <2> HIDE DEF s
  <2>4. s[k] = [name |-> s[k].name, content |-> s[k].content]
    BY <2>3 DEF Savepoint
  <2> QED BY <2>3, <2>4
<1>3. s \in Seq(Savepoint) /\ Len(s) = Len(d.stack)
  <2>1. s = [k \in 1..Len(d.stack) |-> s[k]]
    BY <1>1
  <2>2. s \in [1..Len(d.stack) -> Savepoint]
    <3> HIDE DEF s
    <3> QED BY <1>2, <2>1
  <2> HIDE DEF s
  <2> QED BY <1>1, <2>2
<1>4. /\ e \in Database /\ e.content = c /\ e.disk = c /\ e.begun = d.begun
      /\ e.locked = d.locked /\ e.stack = s
  <2> HIDE DEF s
  <2> QED BY <1>1, <1>3 DEF Changed, Database, Whole, s
<1>5. s = <<>> <=> d.stack = <<>>
  BY <1>1, <1>3
<1>6. DbOK(e)
  <2> HIDE DEF e, s
  <2>1. ASSUME NEW k \in 1..Len(e.stack) PROVE Whole(e.stack[k].content)
    <3>1. e.stack[k] = [name |-> d.stack[k].name, content |-> c]
      BY <1>2, <1>3, <1>4
    <3> QED BY <3>1
  <2> QED BY <1>4, <1>5, <2>1 DEF DbOK, InTransaction
<1> HIDE DEF e, s
<1> QED BY <1>2, <1>3, <1>4, <1>6 DEF e
----------------------------------------------------------------------------
(* The own savepoints of a write *)

\* In d a write has begun: its savepoint lies on those of b, the database at the
\* start; with n = 2 that of a nested dbAppendTable() is on top of it.
Inside(d, b, own, n) ==
  /\ d.disk = b.disk /\ d.begun = b.begun /\ (b.locked => d.locked)
  /\ Len(d.stack) = Len(b.stack) + n
  /\ \A k \in 1..Len(b.stack) : d.stack[k] = b.stack[k]
  /\ d.stack[Len(b.stack) + 1] = [name |-> own, content |-> b.content]
  /\ n = 2 => own = "write" /\ d.stack[Len(b.stack) + 2].name = "append"

\* Statements inside leave it so, unless SQLite gives the transaction up.
LEMMA InsideStays ==
  ASSUME NEW d, DbOK(d), NEW b, DbOK(b), NEW own, NEW n \in {1, 2}, Inside(d, b, own, n)
  PROVE  /\ InTransaction(d)
         /\ RolledBack(d) = RolledBack(b)
         /\ Inside(Read(d), b, own, n)
         /\ \A c : Whole(c) => Inside(Written(d, c), b, own, n)
<1>1. d.stack \in Seq(Savepoint) /\ b.stack \in Seq(Savepoint) /\ d.locked \in BOOLEAN
  BY DEF DbOK, Database
<1>2. Len(d.stack) # 0 /\ d.stack # <<>>
  BY <1>1 DEF Inside
<1>3. InTransaction(d)
  BY <1>2 DEF InTransaction
<1>4. RolledBack(d) = RolledBack(b)
  <2>1. RolledBack(d) = [content |-> d.disk, disk |-> d.disk, stack |-> <<>>,
                         begun |-> FALSE, locked |-> FALSE]
    BY RolledBackIs
  <2>2. RolledBack(b) = [content |-> b.disk, disk |-> b.disk, stack |-> <<>>,
                         begun |-> FALSE, locked |-> FALSE]
    BY RolledBackIs
  <2>3. d.disk = b.disk
    BY DEF Inside
  <2> QED BY <2>1, <2>2, <2>3
<1>5. Inside(Read(d), b, own, n)
  <2> DEFINE e == Read(d)
  <2>1. e.disk = d.disk /\ e.stack = d.stack /\ e.begun = d.begun /\ e.locked
    BY <1>3, ReadIs
  <2> HIDE DEF e
  <2>2. Inside(e, b, own, n)
    BY <2>1 DEF Inside
  <2> QED BY <2>2 DEF e
<1>6. ASSUME NEW c, Whole(c) PROVE Inside(Written(d, c), b, own, n)
  <2> DEFINE e == Written(d, c)
  <2>1. e.disk = d.disk /\ e.stack = d.stack /\ e.begun = d.begun /\ e.locked
    BY <1>3, <1>6, WrittenIs
  <2> HIDE DEF e
  <2>2. Inside(e, b, own, n)
    BY <2>1 DEF Inside
  <2> QED BY <2>2 DEF e
<1> QED BY <1>3, <1>4, <1>5, <1>6

\* The savepoints of a write and of its nested append are found by their names.
LEMMA OwnSavepoint ==
  ASSUME NEW d, DbOK(d), NEW b, DbOK(b), NEW own, NEW n \in {1, 2}, Inside(d, b, own, n)
  PROVE  /\ Known(d, own) /\ Innermost(d, own) = Len(b.stack) + 1
         /\ n = 2 => Known(d, "append") /\ Innermost(d, "append") = Len(b.stack) + 2
<1> DEFINE m == Len(b.stack)
<1>1. d.stack \in Seq(Savepoint) /\ b.stack \in Seq(Savepoint) /\ m \in Nat
      /\ Len(d.stack) = m + n
  BY DEF DbOK, Database, Inside
<1>2. d.stack[m + 1].name = own
  BY DEF Inside
<1>3. \A k \in (m + 1 + 1)..Len(d.stack) : d.stack[k].name # own
  BY <1>1 DEF Inside
<1>4. Known(d, own) /\ Innermost(d, own) = m + 1
  <2>1. m + 1 \in 1..Len(d.stack)
    BY <1>1
  <2> QED BY <1>1, <1>2, <1>3, <2>1, InnermostAt
<1>5. ASSUME n = 2 PROVE Known(d, "append") /\ Innermost(d, "append") = m + 2
  <2>1. m + 2 \in 1..Len(d.stack) /\ (m + 2 + 1)..Len(d.stack) = {}
    BY <1>1, <1>5
  <2>2. d.stack[m + 2].name = "append"
    BY <1>5 DEF Inside
  <2> QED BY <1>1, <2>1, <2>2, InnermostAt
<1> QED BY <1>4, <1>5

\* dbBegin() of a nested dbAppendTable() and of the write itself.
LEMMA SavedInside ==
  ASSUME NEW d, DbOK(d), NEW own \in {"write", "append"}
  PROVE  /\ Inside(Saved(d, own), d, own, 1)
         /\ \A b : DbOK(b) /\ Inside(d, b, "write", 1) => Inside(Saved(d, "append"), b, "write", 2)
<1>1. own \in Names /\ "append" \in Names
  BY DEF Names
<1>2. d.stack \in Seq(Savepoint)
  BY DEF DbOK, Database
<1>3. Inside(Saved(d, own), d, own, 1)
  <2> DEFINE e == Saved(d, own)
  <2>1. /\ e.disk = d.disk /\ e.begun = d.begun /\ e.locked = d.locked
        /\ Len(e.stack) = Len(d.stack) + 1
        /\ \A k \in 1..Len(d.stack) : e.stack[k] = d.stack[k]
        /\ e.stack[Len(d.stack) + 1] = [name |-> own, content |-> d.content]
    BY <1>1, SavedIs
  <2> HIDE DEF e
  <2>2. Inside(e, d, own, 1)
    BY <2>1 DEF Inside
  <2> QED BY <2>2 DEF e
<1>4. ASSUME NEW b, DbOK(b), Inside(d, b, "write", 1)
      PROVE  Inside(Saved(d, "append"), b, "write", 2)
  <2> DEFINE e == Saved(d, "append")
  <2>1. /\ e.disk = d.disk /\ e.begun = d.begun /\ e.locked = d.locked
        /\ Len(e.stack) = Len(d.stack) + 1
        /\ \A k \in 1..Len(d.stack) : e.stack[k] = d.stack[k]
        /\ e.stack[Len(d.stack) + 1] = [name |-> "append", content |-> d.content]
    BY <1>1, SavedIs
  <2>2. Len(b.stack) \in Nat /\ Len(d.stack) = Len(b.stack) + 1
    BY <1>4 DEF DbOK, Database, Inside
  <2> HIDE DEF e
  <2>3. Len(e.stack) = Len(b.stack) + 2
    BY <2>1, <2>2
  <2>4. \A k \in 1..(Len(b.stack) + 1) : e.stack[k] = d.stack[k]
    BY <2>1, <2>2
  <2>5. \A k \in 1..Len(b.stack) : e.stack[k] = b.stack[k]
    BY <1>4, <2>2, <2>4 DEF Inside
  <2>6. e.stack[Len(b.stack) + 2].name = "append"
    BY <2>1, <2>2
  <2>7. e.stack[Len(b.stack) + 1] = [name |-> "write", content |-> b.content]
    BY <1>4, <2>2, <2>4 DEF Inside
  <2>8. Inside(e, b, "write", 2)
    BY <1>4, <2>1, <2>3, <2>5, <2>6, <2>7 DEF Inside
  <2> QED BY <2>8 DEF e
<1> QED BY <1>3, <1>4
\* dbRollback() of the write takes it back to where it began, that of a nested
\* dbAppendTable() to where that began.
LEMMA RolledBackInside ==
  ASSUME NEW d, DbOK(d), NEW b, DbOK(b), NEW own, NEW n \in {1, 2}, Inside(d, b, own, n)
  PROVE  /\ LET e == RolledBackTo(d, own)
            IN  DbOK(e) /\ Inside(e, b, own, 1) /\ e.content = b.content
         /\ n = 2 => LET e == RolledBackTo(d, "append")
                     IN  DbOK(e) /\ Inside(e, b, own, 2)
<1> DEFINE m == Len(b.stack)
<1>1. d.stack \in Seq(Savepoint) /\ b.stack \in Seq(Savepoint) /\ m \in Nat
      /\ Len(d.stack) = m + n
  BY DEF DbOK, Database, Inside
<1>2. LET e == RolledBackTo(d, own)
      IN  DbOK(e) /\ Inside(e, b, own, 1) /\ e.content = b.content
  <2> DEFINE e == RolledBackTo(d, own)
  <2>1. Known(d, own) /\ Innermost(d, own) = m + 1
    BY OwnSavepoint
  <2>2. /\ DbOK(e) /\ e.content = d.stack[m + 1].content
        /\ e.disk = d.disk /\ e.begun = d.begun /\ e.locked = d.locked
        /\ e.stack = SubSeq(d.stack, 1, m + 1)
    BY <2>1, RolledBackToIs
  <2> HIDE DEF e
  <2>3. m + 1 \in 0..Len(d.stack)
    BY <1>1
  <2>4. Len(e.stack) = m + 1 /\ \A k \in 1..(m + 1) : e.stack[k] = d.stack[k]
    BY <1>1, <2>2, <2>3, CutIs
  <2>5. Inside(e, b, own, 1)
    BY <1>1, <2>2, <2>4 DEF Inside
  <2>6. e.content = b.content
    BY <2>2 DEF Inside
  <2> QED BY <2>2, <2>5, <2>6 DEF e
<1>3. ASSUME n = 2
      PROVE  LET e == RolledBackTo(d, "append") IN DbOK(e) /\ Inside(e, b, own, 2)
  <2> DEFINE e == RolledBackTo(d, "append")
  <2>1. Known(d, "append") /\ Innermost(d, "append") = m + 2
    BY <1>3, OwnSavepoint
  <2>2. /\ DbOK(e) /\ e.disk = d.disk /\ e.begun = d.begun /\ e.locked = d.locked
        /\ e.stack = SubSeq(d.stack, 1, m + 2)
    BY <2>1, RolledBackToIs
  <2> HIDE DEF e
  <2>3. m + 2 \in 0..Len(d.stack)
    BY <1>1, <1>3
  <2>4. Len(e.stack) = m + 2 /\ \A k \in 1..(m + 2) : e.stack[k] = d.stack[k]
    BY <1>1, <2>2, <2>3, CutIs
  <2>5. Inside(e, b, own, 2)
    BY <1>1, <1>3, <2>2, <2>4 DEF Inside
  <2> QED BY <2>2, <2>5 DEF e
<1> QED BY <1>2, <1>3

\* The end of a nested dbAppendTable() does not commit.
LEMMA ReleasedNested ==
  ASSUME NEW d, DbOK(d), NEW b, DbOK(b), NEW own, Inside(d, b, own, 2)
  PROVE  LET e == Released(d, "append")
         IN  /\ DbOK(e) /\ Inside(e, b, own, 1)
             /\ e.content = d.content /\ e.locked = d.locked
<1> DEFINE m == Len(b.stack)
           e == Released(d, "append")
<1>1. d.stack \in Seq(Savepoint) /\ b.stack \in Seq(Savepoint) /\ m \in Nat
      /\ Len(d.stack) = m + 2
  BY DEF DbOK, Database, Inside
<1>2. Known(d, "append") /\ Innermost(d, "append") = m + 2 /\ m + 2 - 1 = m + 1 /\ m + 1 # 0
  BY <1>1, OwnSavepoint
<1>3. /\ DbOK(e) /\ e.content = d.content
      /\ e.disk = d.disk /\ e.begun = d.begun /\ e.locked = d.locked
      /\ e.stack = SubSeq(d.stack, 1, m + 1)
  BY <1>2, ReleasedIs
<1> HIDE DEF e
<1>4. m + 1 \in 0..Len(d.stack)
  BY <1>1
<1>5. Len(e.stack) = m + 1 /\ \A k \in 1..(m + 1) : e.stack[k] = d.stack[k]
  BY <1>1, <1>3, <1>4, CutIs
<1>6. Inside(e, b, own, 1)
  BY <1>1, <1>3, <1>5 DEF Inside
<1> QED BY <1>3, <1>6 DEF e

\* Records of a database are equal if their fields are.
LEMMA SameDatabase ==
  ASSUME NEW d \in Database, NEW e \in Database,
         d.content = e.content, d.disk = e.disk, d.stack = e.stack,
         d.begun = e.begun, d.locked = e.locked
  PROVE  d = e
  BY DEF Database

\* The end of the write: to those who saw b, it was one statement, or none.
LEMMA ReleasedOwn ==
  ASSUME NEW d, DbOK(d), NEW b, DbOK(b), NEW own, Inside(d, b, own, 1)
  PROVE  LET e == Released(d, own)
         IN  /\ DbOK(e) /\ e.content = d.content
             /\ d.locked => e = Written(b, d.content)
             /\ d.content = b.content => e = b \/ e = Read(b)
<1> DEFINE m == Len(b.stack)
           e == Released(d, own)
           w == Written(b, d.content)
           r == Read(b)
<1>1. /\ d \in Database /\ b \in Database
      /\ d.stack \in Seq(Savepoint) /\ b.stack \in Seq(Savepoint) /\ m \in Nat
      /\ Len(d.stack) = m + 1 /\ d.locked \in BOOLEAN /\ b.locked \in BOOLEAN
  BY DEF DbOK, Database, Inside
<1>2. Known(d, own) /\ Innermost(d, own) = m + 1 /\ m + 1 - 1 = m
  BY <1>1, OwnSavepoint
<1>3. /\ DbOK(e) /\ e.content = d.content
      /\ d.begun \/ m # 0 =>
           /\ e.disk = d.disk /\ e.begun = d.begun /\ e.locked = d.locked
           /\ e.stack = SubSeq(d.stack, 1, m)
      /\ ~d.begun /\ m = 0 =>
           e.disk = d.content /\ e.stack = <<>> /\ ~e.begun /\ ~e.locked
  BY <1>2, ReleasedIs
<1>4. Whole(d.content)
  BY DEF DbOK
<1>5. DbOK(w) /\ DbOK(r)
  BY <1>4, WrittenIs, ReadIs
<1>6. e \in Database /\ w \in Database /\ r \in Database
  BY <1>3, <1>5 DEF DbOK
<1>7. InTransaction(b) <=> d.begun \/ m # 0
  BY <1>1 DEF InTransaction, Inside
<1>8. CASE d.begun \/ m # 0
  <2>1. SubSeq(d.stack, 1, m) = b.stack
    <3> DEFINE s == SubSeq(d.stack, 1, m)
    <3>1. m \in 0..Len(d.stack)
      BY <1>1
    <3>2. s \in Seq(Savepoint) /\ Len(s) = m /\ \A i \in 1..m : s[i] = d.stack[i]
      BY <1>1, <3>1, CutIs
    <3>3. \A i \in 1..m : s[i] = b.stack[i]
      BY <3>2 DEF Inside
    <3> HIDE DEF s
    <3>4. s = b.stack
      BY <1>1, <3>2, <3>3, SeqEqual
    <3> QED BY <3>4 DEF s
  <2>2. e.disk = b.disk /\ e.begun = b.begun /\ e.locked = d.locked /\ e.stack = b.stack
    BY <1>3, <1>8, <2>1 DEF Inside
  <2>3. /\ w.content = d.content /\ w.stack = b.stack /\ w.begun = b.begun
        /\ w.disk = b.disk /\ w.locked = TRUE
    BY <1>1, <1>7, <1>8 DEF Written, Database
  <2>4. /\ r.content = b.content /\ r.stack = b.stack /\ r.begun = b.begun
        /\ r.disk = b.disk /\ r.locked = TRUE
    BY <1>1, <1>7, <1>8 DEF Read, Database, InTransaction
  <2>5. e.locked \in BOOLEAN /\ (b.locked => d.locked)
    BY <1>6 DEF Database, Inside
  <2> HIDE DEF e, w, r
  <2>6. d.locked => e = w
    BY <1>3, <1>6, <2>2, <2>3, <2>5, SameDatabase
  <2>7. d.content = b.content => e = b \/ e = r
    BY <1>1, <1>3, <1>6, <2>2, <2>4, <2>5, SameDatabase
  <2> QED BY <1>3, <2>6, <2>7 DEF e, w, r
<1>9. CASE ~d.begun /\ m = 0
  <2>1. ~InTransaction(b) /\ b.content = b.disk /\ ~b.locked /\ b.stack = <<>>
    BY <1>1, <1>7, <1>9 DEF DbOK, InTransaction
  <2>2. b.begun = FALSE /\ b.locked = FALSE
    BY <1>1, <2>1 DEF InTransaction, Database
  <2>3. e.disk = d.content /\ e.stack = <<>> /\ e.begun = FALSE /\ e.locked = FALSE
    BY <1>3, <1>6, <1>9 DEF Database
  <2>4. /\ w.content = d.content /\ w.stack = b.stack /\ w.begun = b.begun
        /\ w.disk = d.content /\ w.locked = b.locked
    BY <1>1, <2>1 DEF Written, Database
  <2> HIDE DEF e, w, r
  <2>5. e = w
    BY <1>3, <1>6, <2>1, <2>2, <2>3, <2>4, SameDatabase
  <2>6. d.content = b.content => e = b
    BY <1>1, <1>3, <1>6, <2>1, <2>2, <2>3, SameDatabase
  <2> QED BY <1>3, <2>5, <2>6 DEF e, w, r
<1> QED BY <1>8, <1>9

\* Another connection writes: all savepoints stand for what it wrote.
LEMMA ChangedInside ==
  ASSUME NEW d, DbOK(d), NEW b, DbOK(b), NEW own, NEW n \in {1, 2}, Inside(d, b, own, n),
         NEW c, Whole(c)
  PROVE  Inside(Changed(d, c), Changed(b, c), own, n)
<1> DEFINE m == Len(b.stack)
           e == Changed(d, c)
           f == Changed(b, c)
<1>1. m \in Nat /\ Len(d.stack) = m + n
  BY DEF DbOK, Database, Inside
<1>2. /\ e.disk = c /\ e.begun = d.begun /\ e.locked = d.locked /\ Len(e.stack) = m + n
      /\ \A k \in 1..(m + n) : e.stack[k] = [name |-> d.stack[k].name, content |-> c]
  BY <1>1, ChangedIs
<1>3. /\ f.content = c /\ f.disk = c /\ f.begun = b.begun /\ f.locked = b.locked
      /\ Len(f.stack) = m
      /\ \A k \in 1..m : f.stack[k] = [name |-> b.stack[k].name, content |-> c]
  BY <1>1, ChangedIs
<1> HIDE DEF e, f
<1>4. ASSUME NEW k \in 1..m PROVE e.stack[k] = f.stack[k]
  <2>1. k \in 1..(m + n)
    BY <1>1
  <2>2. d.stack[k].name = b.stack[k].name
    BY DEF Inside
  <2>3. e.stack[k] = [name |-> d.stack[k].name, content |-> c]
    BY <1>2, <2>1
  <2>4. f.stack[k] = [name |-> b.stack[k].name, content |-> c]
    BY <1>3
  <2> QED BY <2>2, <2>3, <2>4
<1>5. e.stack[m + 1] = [name |-> own, content |-> c]
  <2>1. m + 1 \in 1..(m + n)
    BY <1>1
  <2>2. e.stack[m + 1] = [name |-> d.stack[m + 1].name, content |-> c]
    BY <1>2, <2>1
  <2>3. d.stack[m + 1].name = own
    BY DEF Inside
  <2> QED BY <2>2, <2>3
<1>6. ASSUME n = 2 PROVE e.stack[m + 2].name = "append"
  <2>1. m + 2 \in 1..(m + n)
    BY <1>1, <1>6
  <2>2. e.stack[m + 2] = [name |-> d.stack[m + 2].name, content |-> c]
    BY <1>2, <2>1
  <2>3. d.stack[m + 2].name = "append"
    BY <1>6 DEF Inside
  <2> QED BY <2>2, <2>3
<1>7. Inside(e, f, own, n)
  <2>1. \A k \in 1..m : e.stack[k] = f.stack[k]
    BY <1>4
  <2>2. (f.locked => e.locked) /\ e.begun = f.begun
    BY <1>2, <1>3 DEF Inside
  <2>3. n = 2 => own = "write"
    BY DEF Inside
  <2> QED BY <1>2, <1>3, <1>5, <1>6, <2>1, <2>2, <2>3 DEF Inside
<1> QED BY <1>7 DEF e, f
----------------------------------------------------------------------------
(* The running calls *)

Unarmed == {"begin", "rollback", "release"}
FrameAt(fn, pc, mode) == [fn |-> fn, pc |-> pc, armed |-> pc \notin Unarmed, mode |-> mode]

\* What changes in a frame, field by field.
LEMMA FrameIs ==
  ASSUME NEW fn, NEW p, NEW mode
  PROVE  /\ p \in Unarmed =>
              FrameAt(fn, p, mode) = [fn |-> fn, pc |-> p, armed |-> FALSE, mode |-> mode]
         /\ p \notin Unarmed =>
              FrameAt(fn, p, mode) = [fn |-> fn, pc |-> p, armed |-> TRUE, mode |-> mode]
<1>1. ASSUME p \in Unarmed PROVE (p \notin Unarmed) = FALSE
  BY <1>1
<1>2. ASSUME p \notin Unarmed PROVE (p \notin Unarmed) = TRUE
  BY <1>2
<1>3. ASSUME p \in Unarmed
      PROVE  FrameAt(fn, p, mode) = [fn |-> fn, pc |-> p, armed |-> FALSE, mode |-> mode]
  BY <1>1, <1>3, Zenon DEF FrameAt
<1>4. ASSUME p \notin Unarmed
      PROVE  FrameAt(fn, p, mode) = [fn |-> fn, pc |-> p, armed |-> TRUE, mode |-> mode]
  BY <1>2, <1>4, Zenon DEF FrameAt
<1> QED BY <1>3, <1>4

\* The fields of a frame that a step leaves alone.
LEMMA PcIs ==
  ASSUME NEW fn, NEW p, NEW armed, NEW mode, NEW pc
  PROVE  [[fn |-> fn, pc |-> p, armed |-> armed, mode |-> mode] EXCEPT !.pc = pc] =
           [fn |-> fn, pc |-> pc, armed |-> armed, mode |-> mode]
  OBVIOUS

\* The same for its on.exit().
LEMMA ArmedIs ==
  ASSUME NEW fn, NEW p, NEW armed, NEW mode, NEW arm
  PROVE  [[fn |-> fn, pc |-> p, armed |-> armed, mode |-> mode] EXCEPT !.armed = arm] =
           [fn |-> fn, pc |-> p, armed |-> arm, mode |-> mode]
  OBVIOUS

\* Two fields change at once or one after the other.
LEMMA PcThenArmed ==
  ASSUME NEW f, NEW pc, NEW arm
  PROVE  /\ [f EXCEPT !.pc = pc, !.armed = arm] = [[f EXCEPT !.pc = pc] EXCEPT !.armed = arm]
         /\ [f EXCEPT !.armed = arm, !.pc = pc] = [[f EXCEPT !.armed = arm] EXCEPT !.pc = pc]
  OBVIOUS

\* The three ways in which a frame changes.
WithPc(f, pc) == [f EXCEPT !.pc = pc]
WithExit(f, pc) == [f EXCEPT !.pc = pc, !.armed = TRUE]
Exiting(f) == [f EXCEPT !.armed = FALSE, !.pc = "rollback"]

\* Where a frame is after each of the three.
LEMMA FrameMoves ==
  ASSUME NEW fn, NEW p, NEW mode, NEW pc
  PROVE  /\ (pc \in Unarmed <=> p \in Unarmed) =>
              WithPc(FrameAt(fn, p, mode), pc) = FrameAt(fn, pc, mode)
         /\ pc \notin Unarmed => WithExit(FrameAt(fn, p, mode), pc) = FrameAt(fn, pc, mode)
         /\ Exiting(FrameAt(fn, p, mode)) = FrameAt(fn, "rollback", mode)
<1> DEFINE f == FrameAt(fn, p, mode)
           R(q, arm) == [fn |-> fn, pc |-> q, armed |-> arm, mode |-> mode]
<1>1. PICK arm \in BOOLEAN : f = R(p, arm) /\ (arm = FALSE <=> p \in Unarmed)
  BY FrameIs, Zenon
<1>2. "rollback" \in Unarmed
  BY DEF Unarmed
<1>3. ASSUME NEW q, NEW a PROVE [R(p, a) EXCEPT !.pc = q] = R(q, a)
  BY PcIs
<1>4. ASSUME NEW q, NEW a, NEW c PROVE [R(q, a) EXCEPT !.armed = c] = R(q, c)
  BY ArmedIs
<1>5. /\ pc \in Unarmed => FrameAt(fn, pc, mode) = R(pc, FALSE)
      /\ pc \notin Unarmed => FrameAt(fn, pc, mode) = R(pc, TRUE)
      /\ FrameAt(fn, "rollback", mode) = R("rollback", FALSE)
  BY <1>2, FrameIs, Zenon
<1> HIDE DEF f, R
<1>6. ASSUME pc \in Unarmed <=> p \in Unarmed PROVE WithPc(f, pc) = FrameAt(fn, pc, mode)
  <2>1. WithPc(f, pc) = R(pc, arm)
    BY <1>1, <1>3 DEF WithPc
  <2>2. FrameAt(fn, pc, mode) = R(pc, arm)
    BY <1>1, <1>5, <1>6
  <2> QED BY <2>1, <2>2
<1>7. ASSUME pc \notin Unarmed PROVE WithExit(f, pc) = FrameAt(fn, pc, mode)
  <2> DEFINE g == [f EXCEPT !.pc = pc]
  <2>1. g = R(pc, arm)
    BY <1>1, <1>3
  <2>2. WithExit(f, pc) = [g EXCEPT !.armed = TRUE]
    BY PcThenArmed DEF WithExit
  <2> HIDE DEF g
  <2>3. [g EXCEPT !.armed = TRUE] = R(pc, TRUE)
    BY <1>4, <2>1
  <2> QED BY <1>5, <1>7, <2>2, <2>3
<1>8. Exiting(f) = FrameAt(fn, "rollback", mode)
  <2> DEFINE g == [f EXCEPT !.armed = FALSE]
  <2>1. g = R(p, FALSE)
    BY <1>1, <1>4
  <2>2. Exiting(f) = [g EXCEPT !.pc = "rollback"]
    BY PcThenArmed DEF Exiting
  <2> HIDE DEF g
  <2>3. [g EXCEPT !.pc = "rollback"] = R("rollback", FALSE)
    BY <1>3, <2>1
  <2> QED BY <1>5, <2>2, <2>3
<1> QED BY <1>6, <1>7, <1>8 DEF f

\* Short sequences.
LEMMA ConcatOne ==
  ASSUME NEW S, NEW s \in Seq(S), NEW t \in Seq(S), Len(s) = 1, Len(t) = 1
  PROVE  (s \o t)[1] = s[1] /\ (s \o t)[2] = t[1]
<1>1. /\ 1 \in 1..(Len(s) + Len(t)) /\ 2 \in 1..(Len(s) + Len(t))
      /\ 2 - Len(s) = 1 /\ 1 <= Len(s) /\ ~(2 <= Len(s))
  OBVIOUS
<1>2. \A i \in 1..(Len(s) + Len(t)) : (s \o t)[i] = IF i <= Len(s) THEN s[i] ELSE t[i - Len(s)]
  BY ConcatProperties, Zenon
<1>3. (s \o t)[1] = s[1]
  BY <1>1, <1>2, Zenon
<1>4. (s \o t)[2] = t[1]
  BY <1>1, <1>2, Zenon
<1> QED BY <1>3, <1>4

\* The stacks of calls are of one or two frames: how they are built,
LEMMA Joined ==
  ASSUME NEW x, NEW y
  PROVE  <<x>> \o <<>> = <<x>> /\ <<x>> \o <<y>> = <<x, y>>
<1>1. <<x>> \o <<>> = <<x>>
  OBVIOUS
<1>2. <<x>> \o <<y>> = <<x, y>>
  <2> DEFINE S == {x, y}
             s == <<x>>
             t == <<y>>
             u == <<x, y>>
             r == s \o t
  <2>1. /\ s \in Seq(S) /\ t \in Seq(S) /\ u \in Seq(S)
        /\ Len(s) = 1 /\ Len(t) = 1 /\ Len(u) = 2
        /\ s[1] = x /\ t[1] = y /\ u[1] = x /\ u[2] = y
    OBVIOUS
  <2> HIDE DEF S, s, t, u
  <2>2. r \in Seq(S) /\ Len(r) = 2
    BY <2>1, ConcatProperties
  <2>3. r[1] = x /\ r[2] = y
    BY <2>1, ConcatOne
  <2> HIDE DEF r
  <2>4. r = u
    BY <2>1, <2>2, <2>3, SeqEqual
  <2> QED BY <2>4 DEF r, s, t, u
<1> QED BY <1>1, <1>2

\* and how they are taken apart.
LEMMA Parted ==
  ASSUME NEW x, NEW y
  PROVE  /\ SubSeq(<<x, y>>, 2, 2) = <<y>> /\ SubSeq(<<x, y>>, 3, 2) = <<>>
         /\ SubSeq(<<x>>, 2, 1) = <<>>
         /\ Tail(<<x>>) = <<>> /\ Tail(<<x, y>>) = <<y>>
<1>1. SubSeq(<<x, y>>, 2, 2) = <<y>>
  <2> DEFINE S == {x, y}
             s == <<x, y>>
             u == <<y>>
             r == SubSeq(s, 2, 2)
  <2>1. /\ s \in Seq(S) /\ s[2] = y /\ Len(s) = 2
        /\ u \in Seq(S) /\ Len(u) = 1 /\ u[1] = y
    OBVIOUS
  <2> HIDE DEF S, s, u
  <2>2. r \in Seq(S) /\ Len(r) = 1 /\ r[1] = s[2]
    BY <2>1
  <2> HIDE DEF r
  <2>3. r = u
    BY <2>1, <2>2, SeqEqual
  <2> QED BY <2>3 DEF r, s, u
<1>2. SubSeq(<<x, y>>, 3, 2) = <<>>
  OBVIOUS
<1>3. SubSeq(<<x>>, 2, 1) = <<>>
  OBVIOUS
<1>4. Tail(<<x>>) = <<>>
  OBVIOUS
<1>5. Tail(<<x, y>>) = <<y>>
  OBVIOUS
<1> QED BY <1>1, <1>2, <1>3, <1>4, <1>5

\* The innermost frame with an armed on.exit() is the next to run.
LEMMA UnwoundTo ==
  ASSUME NEW fs, NEW k, Armed(fs) # {}, Min(Armed(fs)) = k
  PROVE  Unwound(fs) = <<Exiting(fs[k])>> \o SubSeq(fs, k + 1, Len(fs))
  BY Zenon DEF Unwound, Exiting

\* An error in a call that is alone.
LEMMA UnwoundIs ==
  ASSUME NEW fn, NEW p, NEW mode
  PROVE  /\ Unwound(<<>>) = <<>>
         /\ p \in Unarmed => Unwound(<<FrameAt(fn, p, mode)>>) = <<>>
         /\ p \notin Unarmed =>
              Unwound(<<FrameAt(fn, p, mode)>>) = <<FrameAt(fn, "rollback", mode)>>
<1> DEFINE f == FrameAt(fn, p, mode)
<1>1. Unwound(<<>>) = <<>>
  BY DEF Unwound, Armed
<1>2. f.armed <=> p \notin Unarmed
  BY DEF FrameAt
<1>3. ASSUME p \in Unarmed PROVE Unwound(<<f>>) = <<>>
  <2> HIDE DEF f
  <2>1. Armed(<<f>>) = {}
    BY <1>2, <1>3 DEF Armed
  <2> QED BY <2>1 DEF Unwound
<1>4. ASSUME p \notin Unarmed PROVE Unwound(<<f>>) = <<FrameAt(fn, "rollback", mode)>>
  <2>1. Exiting(f) = FrameAt(fn, "rollback", mode)
    BY FrameMoves
  <2> DEFINE fs == <<f>>
  <2> HIDE DEF f
  <2>2. Armed(fs) = {1} /\ Len(fs) = 1 /\ fs[1] = f
    BY <1>2, <1>4 DEF Armed
  <2>3. Min({1}) = 1
    BY DEF Min
  <2>4. SubSeq(fs, 2, 1) = <<>>
    BY Parted
  <2> HIDE DEF fs
  <2>5. Unwound(fs) = <<FrameAt(fn, "rollback", mode)>> \o <<>>
    <3>1. Unwound(fs) = <<Exiting(fs[1])>> \o SubSeq(fs, 1 + 1, Len(fs))
      BY <2>2, <2>3, UnwoundTo
    <3>2. 1 + 1 = 2
      OBVIOUS
    <3> QED BY <2>1, <2>2, <2>4, <3>1, <3>2
  <2> QED BY <2>5, Joined DEF fs
<1> QED BY <1>1, <1>3, <1>4 DEF f

\* And in one that is nested in a call with an armed on.exit().
LEMMA UnwoundNested ==
  ASSUME NEW fn, NEW p, NEW mode, NEW outer, NEW q, NEW level, q \notin Unarmed
  PROVE  /\ p \in Unarmed =>
              Unwound(<<FrameAt(fn, p, mode), FrameAt(outer, q, level)>>) =
                <<FrameAt(outer, "rollback", level)>>
         /\ p \notin Unarmed =>
              Unwound(<<FrameAt(fn, p, mode), FrameAt(outer, q, level)>>) =
                <<FrameAt(fn, "rollback", mode), FrameAt(outer, q, level)>>
<1> DEFINE f == FrameAt(fn, p, mode)
           g == FrameAt(outer, q, level)
           fs == <<f, g>>
<1>1. g.armed
  BY DEF FrameAt
<1>2. f.armed <=> p \notin Unarmed
  BY DEF FrameAt
<1>3. Exiting(f) = FrameAt(fn, "rollback", mode)
  BY FrameMoves
<1>4. Exiting(g) = FrameAt(outer, "rollback", level)
  BY FrameMoves
<1> HIDE DEF f, g
<1>5. fs[1] = f /\ fs[2] = g /\ DOMAIN fs = {1, 2} /\ Len(fs) = 2
  OBVIOUS
<1>6. SubSeq(fs, 2, 2) = <<g>> /\ SubSeq(fs, 3, 2) = <<>>
  BY Parted
<1> HIDE DEF fs
<1>7. ASSUME p \in Unarmed PROVE Unwound(fs) = <<FrameAt(outer, "rollback", level)>>
  <2>1. Armed(fs) = {2}
    BY <1>1, <1>2, <1>5, <1>7 DEF Armed
  <2>2. Min({2}) = 2
    BY DEF Min
  <2>3. Unwound(fs) = <<FrameAt(outer, "rollback", level)>> \o <<>>
    <3>1. Unwound(fs) = <<Exiting(fs[2])>> \o SubSeq(fs, 2 + 1, Len(fs))
      BY <2>1, <2>2, UnwoundTo
    <3>2. 2 + 1 = 3
      OBVIOUS
    <3> QED BY <1>4, <1>5, <1>6, <3>1, <3>2
  <2> QED BY <2>3, Joined
<1>8. ASSUME p \notin Unarmed PROVE Unwound(fs) = <<FrameAt(fn, "rollback", mode), g>>
  <2>1. Armed(fs) = {1, 2}
    BY <1>1, <1>2, <1>5, <1>8 DEF Armed
  <2>2. Min({1, 2}) = 1
    BY DEF Min
  <2>3. Unwound(fs) = <<FrameAt(fn, "rollback", mode)>> \o <<g>>
    <3>1. Unwound(fs) = <<Exiting(fs[1])>> \o SubSeq(fs, 1 + 1, Len(fs))
      BY <2>1, <2>2, UnwoundTo
    <3>2. 1 + 1 = 2
      OBVIOUS
    <3> QED BY <1>3, <1>5, <1>6, <3>1, <3>2
  <2> QED BY <2>3, Joined
<1> QED BY <1>7, <1>8 DEF f, fs, g

\* A call that is alone goes on, returns or fails.
LEMMA OneFrame ==
  ASSUME NEW fn, NEW p, NEW mode, frames = <<FrameAt(fn, p, mode)>>
  PROVE  /\ frames # <<>> /\ Top = FrameAt(fn, p, mode) /\ Return = <<>>
         /\ \A pc : (pc \in Unarmed <=> p \in Unarmed) => Then(pc) = <<FrameAt(fn, pc, mode)>>
         /\ \A pc : pc \notin Unarmed => Guarded(pc) = <<FrameAt(fn, pc, mode)>>
         /\ p \in Unarmed => Unwound(frames) = <<>>
         /\ p \notin Unarmed => Unwound(frames) = <<FrameAt(fn, "rollback", mode)>>
         /\ Unwound(Return) = <<>>
<1>1. frames # <<>> /\ Top = FrameAt(fn, p, mode)
  BY DEF Top
<1>2. Tail(frames) = <<>>
  BY Parted
<1>3. ASSUME NEW pc, pc \in Unarmed <=> p \in Unarmed PROVE Then(pc) = <<FrameAt(fn, pc, mode)>>
  <2>1. WithPc(Top, pc) = FrameAt(fn, pc, mode)
    BY <1>1, <1>3, FrameMoves
  <2>2. Then(pc) = <<FrameAt(fn, pc, mode)>> \o <<>>
    BY <1>2, <2>1 DEF Then, WithPc
  <2> QED BY <2>2, Joined
<1>4. ASSUME NEW pc, pc \notin Unarmed PROVE Guarded(pc) = <<FrameAt(fn, pc, mode)>>
  <2>1. WithExit(Top, pc) = FrameAt(fn, pc, mode)
    BY <1>1, <1>4, FrameMoves
  <2>2. Guarded(pc) = <<FrameAt(fn, pc, mode)>> \o <<>>
    BY <1>2, <2>1 DEF Guarded, WithExit
  <2> QED BY <2>2, Joined
<1>5. Return = <<>> /\ Unwound(Return) = <<>>
  BY <1>2, UnwoundIs DEF Return
<1>6. /\ p \in Unarmed => Unwound(frames) = <<>>
      /\ p \notin Unarmed => Unwound(frames) = <<FrameAt(fn, "rollback", mode)>>
  BY UnwoundIs
<1> QED BY <1>1, <1>3, <1>4, <1>5, <1>6

\* So does one that is nested in a call with an armed on.exit().
LEMMA TwoFrames ==
  ASSUME NEW fn, NEW p, NEW mode, NEW outer, NEW q, NEW level, q \notin Unarmed,
         frames = <<FrameAt(fn, p, mode), FrameAt(outer, q, level)>>
  PROVE  /\ frames # <<>> /\ Top = FrameAt(fn, p, mode)
         /\ Return = <<FrameAt(outer, q, level)>>
         /\ \A pc : (pc \in Unarmed <=> p \in Unarmed) =>
              Then(pc) = <<FrameAt(fn, pc, mode), FrameAt(outer, q, level)>>
         /\ \A pc : pc \notin Unarmed =>
              Guarded(pc) = <<FrameAt(fn, pc, mode), FrameAt(outer, q, level)>>
         /\ p \in Unarmed => Unwound(frames) = <<FrameAt(outer, "rollback", level)>>
         /\ p \notin Unarmed =>
              Unwound(frames) = <<FrameAt(fn, "rollback", mode), FrameAt(outer, q, level)>>
         /\ Unwound(Return) = <<FrameAt(outer, "rollback", level)>>
<1> DEFINE g == FrameAt(outer, q, level)
<1>1. frames # <<>> /\ Top = FrameAt(fn, p, mode)
  BY DEF Top
<1>2. Tail(frames) = <<g>>
  BY Parted
<1>3. ASSUME NEW pc, pc \in Unarmed <=> p \in Unarmed
      PROVE  Then(pc) = <<FrameAt(fn, pc, mode), g>>
  <2>1. WithPc(Top, pc) = FrameAt(fn, pc, mode)
    BY <1>1, <1>3, FrameMoves
  <2>2. Then(pc) = <<FrameAt(fn, pc, mode)>> \o <<g>>
    BY <1>2, <2>1 DEF Then, WithPc
  <2> QED BY <2>2, Joined
<1>4. ASSUME NEW pc, pc \notin Unarmed
      PROVE  Guarded(pc) = <<FrameAt(fn, pc, mode), g>>
  <2>1. WithExit(Top, pc) = FrameAt(fn, pc, mode)
    BY <1>1, <1>4, FrameMoves
  <2>2. Guarded(pc) = <<FrameAt(fn, pc, mode)>> \o <<g>>
    BY <1>2, <2>1 DEF Guarded, WithExit
  <2> QED BY <2>2, Joined
<1>5. Return = <<g>> /\ Unwound(Return) = <<FrameAt(outer, "rollback", level)>>
  BY <1>2, UnwoundIs DEF Return
<1>6. ASSUME p \in Unarmed PROVE Unwound(frames) = <<FrameAt(outer, "rollback", level)>>
  BY <1>6, UnwoundNested
<1>7. ASSUME p \notin Unarmed PROVE Unwound(frames) = <<FrameAt(fn, "rollback", mode), g>>
  BY <1>7, UnwoundNested
<1> QED BY <1>1, <1>3, <1>4, <1>5, <1>6, <1>7
----------------------------------------------------------------------------
(* The inductive invariant *)

Own(c) == IF c.fn = "append" THEN "append" ELSE "write"
Base(b, c) == IF c.mode = "append" THEN b.content \cup {Table} ELSE {Table}
Goal(b, c) == Base(b, c) \cup c.rows

\* What holds when the call c, which began at b, is about to do pc; f: found.
OwnFacts(pc, d, b, c, f) ==
  \/ pc = "begin" /\ d = b
  \/ pc = "rollback" /\ \/ Inside(d, b, Own(c), 1)
                        \/ Inside(d, b, Own(c), 2)
                        \/ d = RolledBack(b)
  \/ /\ Inside(d, b, Own(c), 1)
     /\ \/ pc = "exists" /\ c.fn # "append" /\ d.content = b.content
        \/ pc = "insert" /\ c.fn = "append" /\ d.content = b.content
        \/ pc = "release" /\ d.content = b.content
        \/ /\ d.locked
           /\ \/ /\ pc = "remove" /\ c.fn # "append" /\ c.mode = "overwrite"
                 /\ f /\ Table \in d.content
              \/ /\ pc = "create" /\ c.fn # "append" /\ d.content = {}
                 /\ c.mode = "append" => b.content = {}
              \/ pc = "rows" /\ c.fn # "append" /\ d.content = Base(b, c)
              \/ pc = "commit" /\ d.content = Goal(b, c)

\* And in the dbAppendTable() nested in a dbWriteTable().
NestedFacts(pc, d, b, c) ==
  \/ pc = "begin" /\ Inside(d, b, "write", 1) /\ d.content = Base(b, c) /\ d.locked
  \/ pc = "rollback" /\ (Inside(d, b, "write", 2) \/ d = RolledBack(b))
  \/ /\ Inside(d, b, "write", 2)
     /\ \/ pc = "insert" /\ d.content = Base(b, c) /\ d.locked
        \/ pc = "commit" /\ d.content = Goal(b, c) /\ d.locked
        \/ pc = "release"

UserAt(n, pc, fs, c) == c = NoCall /\ fs = <<FrameAt(n, pc, "user")>>
OwnAt(pc, fs, d, b, c, f) ==
  /\ c.fn # "other" /\ fs = <<FrameAt(Own(c), pc, c.mode)>>
  /\ OwnFacts(pc, d, b, c, f)
NestedAt(pc, fs, d, b, c) ==
  /\ c.fn = "write"
  /\ fs = <<FrameAt("append", pc, "append"), FrameAt("write", "commit", c.mode)>>
  /\ NestedFacts(pc, d, b, c)

Control(fs, d, b, c, f) ==
  \/ fs = <<>>
  \/ \E n \in UserNames, pc \in {"rollback", "release"} : UserAt(n, pc, fs, c)
  \/ \E pc : OwnAt(pc, fs, d, b, c, f)
  \/ \E pc : NestedAt(pc, fs, d, b, c)

CallOK(c) ==
  /\ c \in [fn : {"other", "append", "write", "file"}, mode : Modes, rows : {{}, Rows}]
  /\ c.fn = "other" => c = NoCall
  /\ c.fn = "append" => c.mode = "append"
  /\ c.fn \in {"write", "file"} => c.mode \in {"fail", "overwrite", "append"}

Flags == found \in BOOLEAN /\ unclean \in BOOLEAN /\ faults \in Nat /\ result \in {"ok", "error"}

IInv ==
  /\ DbOK(db) /\ DbOK(before) /\ CallOK(call) /\ Flags
  /\ Control(frames, db, before, call, found)
  /\ AllOrNothing /\ FailedCallIsNotDurable

\* Where a running call is.
LEMMA AtPlace ==
  ASSUME IInv, NEW pc, At(pc)
  PROVE  \/ pc \in {"rollback", "release"} /\ \E n \in UserNames : UserAt(n, pc, frames, call)
         \/ OwnAt(pc, frames, db, before, call, found)
         \/ NestedAt(pc, frames, db, before, call)
<1>1. frames # <<>> /\ Top.pc = pc
  BY DEF At
<1>2. CASE \E n \in UserNames, q \in {"rollback", "release"} : UserAt(n, q, frames, call)
  <2>1. PICK n \in UserNames, q \in {"rollback", "release"} : UserAt(n, q, frames, call)
    BY <1>2
  <2>2. Top = FrameAt(n, q, "user")
    BY <2>1, OneFrame DEF UserAt
  <2>3. q = pc
    BY <1>1, <2>2 DEF FrameAt
  <2> QED BY <2>1, <2>3
<1>3. CASE \E q : OwnAt(q, frames, db, before, call, found)
  <2>1. PICK q : OwnAt(q, frames, db, before, call, found)
    BY <1>3
  <2>2. Top = FrameAt(Own(call), q, call.mode)
    BY <2>1, OneFrame DEF OwnAt
  <2>3. q = pc
    BY <1>1, <2>2 DEF FrameAt
  <2> QED BY <2>1, <2>3
<1>4. CASE \E q : NestedAt(q, frames, db, before, call)
  <2>1. PICK q : NestedAt(q, frames, db, before, call)
    BY <1>4
  <2>2. "commit" \notin Unarmed
    BY DEF Unarmed
  <2>3. Top = FrameAt("append", q, "append")
    BY <2>1, <2>2, TwoFrames DEF NestedAt
  <2>4. q = pc
    BY <1>1, <2>3 DEF FrameAt
  <2> QED BY <2>1, <2>4
<1> QED BY <1>1, <1>2, <1>3, <1>4 DEF IInv, Control

----------------------------------------------------------------------------
(* The abstract steps *)

\* AtomicStore and this module read the same Savepoints.
LEMMA SameOperators ==
  /\ \A d : Store!InTransaction(d) <=> InTransaction(d)
  /\ \A d, n : Store!Known(d, n) <=> Known(d, n)
  /\ \A d : Store!Begun(d) = Begun(d) /\ Store!Committed(d) = Committed(d)
  /\ \A d : Store!RolledBack(d) = RolledBack(d) /\ Store!Read(d) = Read(d)
  /\ \A d, n : Store!Saved(d, n) = Saved(d, n)
  /\ \A d, n : Store!Released(d, n) = Released(d, n)
  /\ \A d, n : Store!RolledBackTo(d, n) = RolledBackTo(d, n)
  /\ \A d, c : Store!Written(d, c) = Written(d, c)
  /\ \A d, c : Store!Changed(d, c) = Changed(d, c)
<1>1. \A d : Store!InTransaction(d) <=> InTransaction(d)
  BY DEF Store!InTransaction, InTransaction
<1>2. \A d, n : Store!Known(d, n) <=> Known(d, n)
  BY DEF Store!Known, Known
<1>3. \A d : Store!Begun(d) = Begun(d) /\ Store!Committed(d) = Committed(d)
  BY DEF Store!Begun, Begun, Store!Committed, Committed
<1>4. \A d : Store!RolledBack(d) = RolledBack(d) /\ Store!Read(d) = Read(d)
  BY DEF Store!RolledBack, RolledBack, Store!Read, Read, Store!InTransaction, InTransaction
<1>5. \A d, n : Store!Saved(d, n) = Saved(d, n)
  BY DEF Store!Saved, Saved
<1>6. \A d, n : Store!Innermost(d, n) = Innermost(d, n)
  BY DEF Store!Innermost, Innermost, Store!Max, Max
<1>7. \A d, n : Store!Released(d, n) = Released(d, n)
  <2> TAKE d, n
  <2> DEFINE left == [d EXCEPT !.stack = SubSeq(d.stack, 1, Innermost(d, n) - 1)]
  <2>1. Released(d, n) = IF InTransaction(left) THEN left ELSE Committed(left)
    BY DEF Released
  <2>2. Store!Innermost(d, n) = Innermost(d, n)
    BY <1>6
  <2>3. Store!Released(d, n) = IF Store!InTransaction(left) THEN left ELSE Store!Committed(left)
    BY <2>2, Zenon DEF Store!Released
  <2> HIDE DEF left
  <2> QED BY <1>1, <1>3, <2>1, <2>3
<1>8. \A d, n : Store!RolledBackTo(d, n) = RolledBackTo(d, n)
  BY <1>6 DEF Store!RolledBackTo, RolledBackTo
<1>9. \A d, c : Store!Written(d, c) = Written(d, c)
  BY DEF Store!Written, Written, Store!InTransaction, InTransaction
<1>10. \A d, c : Store!Changed(d, c) = Changed(d, c)
  BY DEF Store!Changed, Changed
<1> QED BY <1>1, <1>2, <1>3, <1>4, <1>5, <1>7, <1>8, <1>9, <1>10

\* What a user's statement may do is a step of AtomicStore.
LEMMA UserSteps ==
  /\ ~InTransaction(Seen) /\ Seen' = Begun(Seen) => Store!Next
  /\ InTransaction(Seen) /\ Seen' = Committed(Seen) => Store!Next
  /\ \A n \in UserNames : Seen' = Saved(Seen, n) => Store!Next
  /\ \A n \in UserNames : Known(Seen, n) /\ Seen' = Released(Seen, n) => Store!Next
  /\ \A n \in UserNames : Known(Seen, n) /\ Seen' = RolledBackTo(Seen, n) => Store!Next
  /\ \A c \in {{}, {Table}} : ~Seen.locked /\ Seen' = Changed(Seen, c) => Store!Next
<1>1. ~InTransaction(Seen) /\ Seen' = Begun(Seen) => Store!Next
  BY SameOperators DEF Store!Next, Store!Begin
<1>2. InTransaction(Seen) /\ Seen' = Committed(Seen) => Store!Next
  BY SameOperators DEF Store!Next, Store!Commit
<1>3. \A n \in UserNames : Seen' = Saved(Seen, n) => Store!Next
  BY SameOperators DEF Store!Next, Store!Save
<1>4. \A n \in UserNames : Known(Seen, n) /\ Seen' = Released(Seen, n) => Store!Next
  BY SameOperators DEF Store!Next, Store!Release
<1>5. \A n \in UserNames : Known(Seen, n) /\ Seen' = RolledBackTo(Seen, n) => Store!Next
  BY SameOperators DEF Store!Next, Store!RollbackTo
<1>6. \A c \in {{}, {Table}} : ~Seen.locked /\ Seen' = Changed(Seen, c) => Store!Next
  BY SameOperators DEF Store!Next, Store!Other, Store!Table, Table
<1> QED BY <1>1, <1>2, <1>3, <1>4, <1>5, <1>6

\* So is what a whole table write may do,
LEMMA WriteSteps ==
  /\ Seen' = RolledBack(Seen) => Store!Next
  /\ Seen' = Read(Seen) => Store!Next
  /\ \A rows \in {{}, Rows} :
       Table \in Seen.content /\ Seen' = Written(Seen, Seen.content \cup rows) => Store!Next
  /\ \A rows \in {{}, Rows} : Seen' = Written(Seen, {Table} \cup rows) => Store!Next
<1>1. Seen' = RolledBack(Seen) => Store!Next
  BY SameOperators DEF Store!Next, Store!Abort
<1>2. Seen' = Read(Seen) => Store!Next
  BY SameOperators DEF Store!Next, Store!Fail
<1>3. \A rows \in {{}, Rows} :
        Table \in Seen.content /\ Seen' = Written(Seen, Seen.content \cup rows) => Store!Next
  BY SameOperators DEF Store!Next, Store!Add, Store!Table, Table
<1>4. \A rows \in {{}, Rows} : Seen' = Written(Seen, {Table} \cup rows) => Store!Next
  BY SameOperators DEF Store!Next, Store!Make, Store!Table, Table
<1> QED BY <1>1, <1>2, <1>3, <1>4

\* and even one that leaves savepoints of its own behind.
LEMMA LeaveOpenStep ==
  ASSUME DbOK(Seen), DbOK(Seen'), NEW own \in {"write", "append"}, NEW n \in {1, 2},
         Inside(Seen', Seen, own, n)
  PROVE  Store!Next
<1> DEFINE b == Seen
           d == Seen'
           m == Len(b.stack)
           s == SubSeq(d.stack, 1, m)
<1>1. d.stack \in Seq(Savepoint) /\ b.stack \in Seq(Savepoint) /\ m \in Nat
      /\ Len(d.stack) = m + n
  BY DEF DbOK, Database, Inside
<1>2. s = b.stack
  <2>1. m \in 0..Len(d.stack)
    BY <1>1
  <2> HIDE DEF b, d, m
  <2>2. s \in Seq(Savepoint) /\ Len(s) = m /\ \A i \in 1..m : s[i] = d.stack[i]
    BY <1>1, <2>1, CutIs
  <2>3. \A i \in 1..m : s[i] = b.stack[i]
    BY <2>2 DEF Inside, b, d, m
  <2> HIDE DEF s
  <2> QED BY <1>1, <2>2, <2>3, SeqEqual DEF m
<1>3. d.stack[m + 1].content = b.content /\ d.disk = b.disk /\ d.begun = b.begun
  BY DEF Inside
<1>4. \A k \in (m + 1)..Len(d.stack) : d.stack[k].name \in {"write", "append"}
  <2> TAKE k \in (m + 1)..Len(d.stack)
  <2>1. k = m + 1 \/ (n = 2 /\ k = m + 2)
    BY <1>1
  <2> QED BY <2>1 DEF Inside
<1>5. Len(d.stack) > m
  BY <1>1
<1>6. Store!LeaveOpen
  BY <1>2, <1>3, <1>4, <1>5 DEF Store!LeaveOpen, Store!OwnNames
<1> QED BY <1>6 DEF Store!Next

\* What the caller sees of a database.
SeenOf(fs, d, b) ==
  IF fs # <<>> /\ fs[Len(fs)].mode # "user" /\ InTransaction(d) THEN b ELSE d

\* A dbAppendTable() or dbWriteTable() runs.
Live(fs, c) ==
  /\ c.fn # "other"
  /\ \/ \E pc : fs = <<FrameAt(Own(c), pc, c.mode)>>
     \/ c.fn = "write" /\ \E f : fs = <<f, FrameAt("write", "commit", c.mode)>>

\* The refinement mapping as a function of the calls and the database.
LEMMA SeenIs == Seen = SeenOf(frames, db, before) /\ Seen' = SeenOf(frames', db', before')
  BY DEF Seen, SeenOf, Running, InTransaction

\* A write that runs in its transaction is not seen; everything else is.
LEMMA SeenOfIs ==
  ASSUME NEW fs, NEW d, NEW b
  PROVE  /\ fs = <<>> \/ ~InTransaction(d) \/ d = b => SeenOf(fs, d, b) = d
         /\ \A n, pc, c : UserAt(n, pc, fs, c) => SeenOf(fs, d, b) = d
         /\ \A c : CallOK(c) /\ Live(fs, c) /\ InTransaction(d) => SeenOf(fs, d, b) = b
<1>1. fs = <<>> \/ ~InTransaction(d) \/ d = b => SeenOf(fs, d, b) = d
  BY DEF SeenOf
<1>2. ASSUME NEW n, NEW pc, NEW c, UserAt(n, pc, fs, c) PROVE SeenOf(fs, d, b) = d
  <2>1. FrameAt(n, pc, "user").mode = "user"
    BY DEF FrameAt
  <2>2. fs[Len(fs)] = FrameAt(n, pc, "user")
    BY <1>2 DEF UserAt
  <2> QED BY <2>1, <2>2 DEF SeenOf
<1>3. ASSUME NEW c, CallOK(c), Live(fs, c), InTransaction(d) PROVE SeenOf(fs, d, b) = b
  <2>1. c.mode # "user"
    BY <1>3 DEF CallOK, Live
  <2>2. fs # <<>> /\ fs[Len(fs)].mode = c.mode
    <3>1. CASE \E pc : fs = <<FrameAt(Own(c), pc, c.mode)>>
      <4>1. PICK pc : fs = <<FrameAt(Own(c), pc, c.mode)>>
        BY <3>1
      <4>2. FrameAt(Own(c), pc, c.mode).mode = c.mode
        BY DEF FrameAt
      <4> QED BY <4>1, <4>2
    <3>2. CASE \E f : fs = <<f, FrameAt("write", "commit", c.mode)>>
      <4>1. PICK f : fs = <<f, FrameAt("write", "commit", c.mode)>>
        BY <3>2
      <4>2. FrameAt("write", "commit", c.mode).mode = c.mode
        BY DEF FrameAt
      <4> QED BY <4>1, <4>2
    <3> QED BY <1>3, <3>1, <3>2 DEF Live
  <2> QED BY <1>3, <2>1, <2>2 DEF SeenOf
<1> QED BY <1>1, <1>2, <1>3

\* A write that runs has a frame.
LEMMA LiveIs ==
  ASSUME NEW fs, NEW d, NEW b, NEW c, NEW f, NEW pc
  PROVE  /\ OwnAt(pc, fs, d, b, c, f) \/ NestedAt(pc, fs, d, b, c) => Live(fs, c)
         /\ Live(fs, c) => fs # <<>>
  BY DEF Live, OwnAt, NestedAt

----------------------------------------------------------------------------
(* How a step of a running write ends *)

\* It goes on, perhaps with its on.exit().
LEMMA Goes ==
  ASSUME IInv, Live(frames, call), InTransaction(db) \/ db = before,
         call' = call, before' = before, Flags', Live(frames', call), DbOK(db'),
         Control(frames', db', before, call, found'),
         InTransaction(db') \/ db' = RolledBack(before)
  PROVE  IInv' /\ [Store!Next]_Seen
<1>1. Seen = before
  BY SeenIs, SeenOfIs DEF IInv
<1>2. frames' # <<>>
  BY LiveIs
<1>3. AllOrNothing' /\ FailedCallIsNotDurable'
  BY <1>2 DEF AllOrNothing, FailedCallIsNotDurable, Over
<1>4. IInv'
  BY <1>3 DEF IInv
<1>5. CASE InTransaction(db')
  <2>1. Seen' = before
    BY <1>5, SeenIs, SeenOfIs DEF IInv
  <2> QED BY <1>1, <1>4, <2>1
<1>6. CASE ~InTransaction(db')
  <2>1. Seen' = RolledBack(Seen)
    BY <1>1, <1>6, SeenIs, SeenOfIs
  <2> QED BY <1>4, <2>1, WriteSteps
<1> QED BY <1>5, <1>6

\* It returns without an error.
LEMMA Returns ==
  ASSUME IInv, Live(frames, call), InTransaction(db),
         call' = call, before' = before, Flags', frames' = <<>>, result' = "ok", DbOK(db'),
         db' = Written(before, Goal(before, call)), db'.content = Goal(before, call)
  PROVE  IInv' /\ [Store!Next]_Seen
<1>1. Seen = before /\ Seen' = db'
  BY SeenIs, SeenOfIs DEF IInv
<1>2. AllOrNothing' /\ FailedCallIsNotDurable'
  BY DEF AllOrNothing, FailedCallIsNotDurable, Over, Intended, Goal, Base
<1>3. IInv'
  BY <1>2 DEF IInv, Control
<1>4. call.rows \in {{}, Rows} /\ (before.content = {} \/ Table \in before.content)
  BY DEF IInv, CallOK, DbOK, Whole
<1>5. CASE call.mode = "append" /\ Table \in before.content
  <2>1. Goal(before, call) = before.content \cup call.rows
    BY <1>5 DEF Goal, Base
  <2> QED BY <1>1, <1>3, <1>4, <1>5, <2>1, WriteSteps
<1>6. CASE ~(call.mode = "append" /\ Table \in before.content)
  <2>1. Goal(before, call) = {Table} \cup call.rows
    BY <1>4, <1>6 DEF Goal, Base
  <2> QED BY <1>1, <1>3, <1>4, <2>1, WriteSteps
<1> QED BY <1>5, <1>6

\* It ends in an error.
LEMMA Fails ==
  ASSUME IInv, Live(frames, call), InTransaction(db) \/ db = before,
         call' = call, before' = before, Flags', frames' = <<>>, result' = "error", DbOK(db'),
         \/ db' \in {before, Read(before), RolledBack(before)}
         \/ /\ unclean' \/ (call.fn = "append" /\ db'.content = Goal(before, call))
            /\ \E n \in {1, 2} : Inside(db', before, Own(call), n)
  PROVE  IInv' /\ [Store!Next]_Seen
<1>1. Seen = before /\ Seen' = db'
  BY SeenIs, SeenOfIs DEF IInv
<1>2. DbOK(before) /\ Own(call) \in {"write", "append"}
  BY DEF IInv, Own
<1>3. CASE db' \in {before, Read(before), RolledBack(before)}
  <2>1. /\ db' \in {before, Read(before)} => db'.content = before.content /\ db'.disk = before.disk
        /\ db' = RolledBack(before) =>
             db'.content = before.disk /\ db'.disk = before.disk /\ ~InTransaction(db')
    <3>1. Read(before).content = before.content /\ Read(before).disk = before.disk
      BY <1>2, ReadIs
    <3>2. RolledBack(before) = [content |-> before.disk, disk |-> before.disk, stack |-> <<>>,
                                begun |-> FALSE, locked |-> FALSE]
      BY <1>2, RolledBackIs
    <3>3. /\ RolledBack(before).content = before.disk /\ RolledBack(before).disk = before.disk
          /\ ~InTransaction(RolledBack(before))
      BY <3>2 DEF InTransaction
    <3> QED BY <3>1, <3>3
  <2>2. AllOrNothing' /\ FailedCallIsNotDurable'
    <3>1. db'.disk = before.disk
      BY <1>3, <2>1
    <3>2. db'.content = before.content \/ (~InTransaction(db') /\ db'.content = before.disk)
      BY <1>3, <2>1
    <3>3. InTransaction(db)' <=> InTransaction(db')
      BY DEF InTransaction
    <3> QED BY <3>1, <3>2, <3>3 DEF AllOrNothing, FailedCallIsNotDurable
  <2>3. IInv'
    BY <2>2 DEF IInv, Control
  <2> QED BY <1>1, <1>3, <2>3, WriteSteps
<1>4. ASSUME unclean' \/ (call.fn = "append" /\ db'.content = Goal(before, call)),
             NEW n \in {1, 2}, Inside(db', before, Own(call), n)
      PROVE  IInv' /\ [Store!Next]_Seen
  <2>1. db'.disk = before.disk
    BY <1>4 DEF Inside
  <2>2. FailedCallIsNotDurable'
    BY <2>1 DEF FailedCallIsNotDurable
  <2>3. AllOrNothing'
    <3>1. CASE unclean'
      BY <3>1 DEF AllOrNothing
    <3>2. CASE call.fn = "append" /\ db'.content = Goal(before, call)
      <4>1. Known(db', "append")
        BY <1>2, <1>4, <3>2, OwnSavepoint DEF Own
      <4>2. LeftOpen'
        BY <3>2, <4>1 DEF LeftOpen, Known, Intended, Goal, Base
      <4> QED BY <4>2 DEF AllOrNothing
    <3> QED BY <1>4, <3>1, <3>2
  <2>4. IInv'
    BY <2>2, <2>3 DEF IInv, Control
  <2>5. Store!Next
    BY <1>1, <1>2, <1>4, LeaveOpenStep
  <2> QED BY <2>4, <2>5
<1> QED BY <1>3, <1>4

\* SQLite has given the transaction up, and a statement of its on.exit() fails.
LEMMA Gone ==
  ASSUME IInv, call.fn # "other", db = RolledBack(before),
         call' = call, before' = before, Flags', db' = db,
         \/ frames' = <<>> /\ result' = "error"
         \/ frames' # <<>> /\ Control(frames', db, before, call, found')
  PROVE  IInv' /\ [Store!Next]_Seen
<1>1. DbOK(before)
  BY DEF IInv
<1>2. ~InTransaction(db) /\ db.content = before.disk /\ db.disk = before.disk
  BY <1>1, RolledBackIs DEF InTransaction
<1>3. Seen' = Seen
  BY <1>2, SeenIs, SeenOfIs
<1>4. AllOrNothing' /\ FailedCallIsNotDurable'
  <2>1. InTransaction(db)' <=> InTransaction(db)
    BY DEF InTransaction
  <2> QED BY <1>2, <2>1 DEF AllOrNothing, FailedCallIsNotDurable, Over
<1>5. IInv'
  BY <1>4 DEF IInv, Control
<1> QED BY <1>3, <1>5
----------------------------------------------------------------------------
(* The frames of a step *)

\* In a write that is alone in its savepoint: on to the next statement.
LEMMA OwnMoves ==
  ASSUME IInv, NEW pc, OwnAt(pc, frames, db, before, call, found),
         Inside(db, before, Own(call), 1),
         NEW next, frames' = <<FrameAt(Own(call), next, call.mode)>>,
         call' = call, before' = before, Flags', DbOK(db'),
         Inside(db', before, Own(call), 1), OwnFacts(next, db', before, call, found')
  PROVE  IInv' /\ [Store!Next]_Seen
<1>1. DbOK(before) /\ DbOK(db)
  BY DEF IInv
<1>2. InTransaction(db) /\ InTransaction(db')
  BY <1>1, InsideStays
<1>3. OwnAt(next, frames', db', before, call, found')
  BY DEF OwnAt
<1>4. Live(frames, call) /\ Live(frames', call)
  BY <1>3, LiveIs
<1>5. Control(frames', db', before, call, found')
  BY <1>3 DEF Control
<1> QED BY <1>2, <1>4, <1>5, Goes

\* Or to its on.exit().
LEMMA OwnErr ==
  ASSUME IInv, NEW pc, OwnAt(pc, frames, db, before, call, found),
         InTransaction(db) \/ db = before,
         frames' = <<FrameAt(Own(call), "rollback", call.mode)>>,
         call' = call, before' = before, Flags', DbOK(db'),
         (\E n \in {1, 2} : Inside(db', before, Own(call), n)) \/ db' = RolledBack(before)
  PROVE  IInv' /\ [Store!Next]_Seen
<1>1. DbOK(before) /\ DbOK(db)
  BY DEF IInv
<1>2. InTransaction(db') \/ db' = RolledBack(before)
  BY <1>1, InsideStays
<1>3. OwnAt("rollback", frames', db', before, call, found')
  BY DEF OwnAt, OwnFacts
<1>4. Live(frames, call) /\ Live(frames', call)
  BY <1>3, LiveIs
<1>5. Control(frames', db', before, call, found')
  BY <1>3 DEF Control
<1> QED BY <1>2, <1>4, <1>5, Goes

\* The same for a nested dbAppendTable(), whose error may reach the outer call.
LEMMA NestedMoves ==
  ASSUME IInv, NEW pc, NestedAt(pc, frames, db, before, call), InTransaction(db),
         NEW next,
         frames' = <<FrameAt("append", next, "append"), FrameAt("write", "commit", call.mode)>>,
         call' = call, before' = before, Flags', DbOK(db'),
         InTransaction(db') \/ db' = RolledBack(before), NestedFacts(next, db', before, call)
  PROVE  IInv' /\ [Store!Next]_Seen
<1>1. NestedAt(next, frames', db', before, call)
  BY DEF NestedAt
<1>2. Live(frames, call) /\ Live(frames', call)
  BY <1>1, LiveIs
<1>3. Control(frames', db', before, call, found')
  BY <1>1 DEF Control
<1> QED BY <1>2, <1>3, Goes

\* A nested dbAppendTable() fails and hands over to the on.exit() of dbWriteTable().
LEMMA NestedErr ==
  ASSUME IInv, NEW pc, NestedAt(pc, frames, db, before, call), InTransaction(db),
         frames' = <<FrameAt("write", "rollback", call.mode)>>,
         call' = call, before' = before, Flags', DbOK(db'),
         (\E n \in {1, 2} : Inside(db', before, "write", n)) \/ db' = RolledBack(before)
  PROVE  IInv' /\ [Store!Next]_Seen
<1>1. DbOK(before) /\ call.fn = "write" /\ Own(call) = "write"
  BY DEF IInv, NestedAt, Own
<1>2. InTransaction(db') \/ db' = RolledBack(before)
  BY <1>1, InsideStays
<1>3. OwnAt("rollback", frames', db', before, call, found')
  BY <1>1 DEF OwnAt, OwnFacts
<1>4. Live(frames, call) /\ Live(frames', call)
  BY <1>3, LiveIs
<1>5. Control(frames', db', before, call, found')
  BY <1>3 DEF Control
<1> QED BY <1>2, <1>4, <1>5, Goes

\* The state of the database after a statement inside that fails.
LEMMA AfterFailure ==
  ASSUME NEW d, DbOK(d), NEW b, DbOK(b), NEW own, NEW n \in {1, 2}, Inside(d, b, own, n)
  PROVE  /\ InTransaction(d) /\ RolledBack(d) = RolledBack(b) /\ DbOK(RolledBack(d))
         /\ \A c : Whole(c) =>
              /\ DbOK(Written(d, c)) /\ Inside(Written(d, c), b, own, n)
              /\ Written(d, c).content = c /\ Written(d, c).locked
<1>1. InTransaction(d) /\ RolledBack(d) = RolledBack(b)
      /\ \A c : Whole(c) => Inside(Written(d, c), b, own, n)
  BY InsideStays
<1>2. DbOK(RolledBack(d))
  BY RolledBackIs
<1>3. \A c : Whole(c) => DbOK(Written(d, c)) /\ Written(d, c).content = c /\ Written(d, c).locked
  BY <1>1, WrittenIs
<1> QED BY <1>1, <1>2, <1>3

----------------------------------------------------------------------------
(* The actions of a running write *)

\* dbBegin() of the function's own savepoint.
LEMMA BeginOwnStep ==
  ASSUME IInv, BeginOwn
  PROVE  IInv' /\ [Store!Next]_Seen
<1>1. /\ At("begin") /\ call' = call /\ found' = found /\ before' = before /\ unclean' = unclean
      /\ faults' \in Nat /\ Flags'
  BY DEF BeginOwn, Execute, GoOn, Stop, IInv, Flags
<1>2. \/ db' = Saved(db, Top.fn) /\ frames' = Guarded(AfterBegin) /\ result' = "ok"
      \/ db' \in {RolledBack(db), db} /\ frames' = Unwound(frames) /\ result' = "error"
  BY DEF BeginOwn, Execute, GoOn, Stop, Save
<1>3. DbOK(db) /\ DbOK(before) /\ CallOK(call)
  BY DEF IInv
<1>4. "begin" \in Unarmed /\ "insert" \notin Unarmed /\ "exists" \notin Unarmed
      /\ "commit" \notin Unarmed
  BY DEF Unarmed
<1>5. \/ OwnAt("begin", frames, db, before, call, found)
      \/ NestedAt("begin", frames, db, before, call)
  BY <1>1, AtPlace
<1>6. CASE OwnAt("begin", frames, db, before, call, found)
  <2>1. /\ frames = <<FrameAt(Own(call), "begin", call.mode)>> /\ call.fn # "other"
        /\ db = before
    BY <1>6 DEF OwnAt, OwnFacts, Inside
  <2>2. /\ Top = FrameAt(Own(call), "begin", call.mode) /\ Unwound(frames) = <<>>
        /\ \A pc : pc \notin Unarmed => Guarded(pc) = <<FrameAt(Own(call), pc, call.mode)>>
    BY <1>4, <2>1, OneFrame
  <2>3. Top.fn = Own(call)
    BY <2>2 DEF FrameAt
  <2>4. Live(frames, call)
    BY <1>6, LiveIs
  <2>5. CASE db' = Saved(db, Top.fn) /\ frames' = Guarded(AfterBegin)
    <3>1. Own(call) \in {"write", "append"} /\ Own(call) \in Names
      BY DEF Own, Names
    <3>2. Inside(db', before, Own(call), 1)
      BY <1>3, <2>1, <2>3, <2>5, <3>1, SavedInside
    <3>3. DbOK(db') /\ db'.content = before.content
      <4>1. DbOK(Saved(db, Own(call))) /\ Saved(db, Own(call)).content = db.content
        BY <1>3, <3>1, SavedIs
      <4> QED BY <2>1, <2>3, <2>5, <4>1
    <3>4. frames' = <<FrameAt(Own(call), AfterBegin, call.mode)>>
      BY <1>4, <2>2, <2>5 DEF AfterBegin
    <3>5. OwnFacts(AfterBegin, db', before, call, found')
      BY <2>3, <3>2, <3>3 DEF OwnFacts, AfterBegin, Own
    <3>6. OwnAt(AfterBegin, frames', db', before, call, found')
      BY <2>1, <3>4, <3>5 DEF OwnAt
    <3>7. Live(frames', call) /\ Control(frames', db', before, call, found')
      BY <3>6, LiveIs DEF Control
    <3>8. InTransaction(db')
      BY <1>3, <3>2, <3>3, InsideStays
    <3> QED BY <1>1, <2>1, <2>4, <3>3, <3>7, <3>8, Goes
  <2>6. CASE db' \in {RolledBack(db), db} /\ frames' = Unwound(frames) /\ result' = "error"
    <3>1. DbOK(db') /\ db' \in {before, RolledBack(before)}
      BY <1>3, <2>1, <2>6, RolledBackIs
    <3> QED BY <1>1, <2>1, <2>2, <2>4, <2>6, <3>1, Fails
  <2> QED BY <1>2, <2>5, <2>6
<1>7. CASE NestedAt("begin", frames, db, before, call)
  <2>1. /\ frames = <<FrameAt("append", "begin", "append"), FrameAt("write", "commit", call.mode)>>
        /\ Inside(db, before, "write", 1) /\ db.content = Base(before, call) /\ db.locked
    BY <1>7 DEF NestedAt, NestedFacts
  <2>2. /\ Top = FrameAt("append", "begin", "append")
        /\ Unwound(frames) = <<FrameAt("write", "rollback", call.mode)>>
        /\ Guarded("insert") = <<FrameAt("append", "insert", "append"),
                                 FrameAt("write", "commit", call.mode)>>
    BY <1>4, <2>1, TwoFrames
  <2>3. Top.fn = "append" /\ AfterBegin = "insert"
    BY <2>2 DEF FrameAt, AfterBegin
  <2>4. /\ InTransaction(db) /\ RolledBack(db) = RolledBack(before) /\ DbOK(RolledBack(db))
    BY <1>3, <2>1, AfterFailure
  <2>5. CASE db' = Saved(db, Top.fn) /\ frames' = Guarded(AfterBegin)
    <3>1. "append" \in Names
      BY DEF Names
    <3>2. Inside(db', before, "write", 2)
      BY <1>3, <2>1, <2>3, <2>5, SavedInside
    <3>3. DbOK(db') /\ db'.content = db.content /\ db'.locked = db.locked
      <4>1. /\ DbOK(Saved(db, "append")) /\ Saved(db, "append").content = db.content
            /\ Saved(db, "append").locked = db.locked
        BY <1>3, <3>1, SavedIs
      <4> QED BY <2>3, <2>5, <4>1
    <3>4. NestedFacts("insert", db', before, call)
      BY <2>1, <3>2, <3>3 DEF NestedFacts
    <3>5. InTransaction(db')
      BY <1>3, <3>2, <3>3, InsideStays
    <3> QED BY <1>1, <1>7, <2>2, <2>3, <2>4, <2>5, <3>3, <3>4, <3>5, NestedMoves
  <2>6. CASE db' \in {RolledBack(db), db} /\ frames' = Unwound(frames)
    <3>1. DbOK(db') /\ (Inside(db', before, "write", 1) \/ db' = RolledBack(before))
      BY <1>3, <2>1, <2>4, <2>6
    <3> QED BY <1>1, <1>7, <2>2, <2>4, <2>6, <3>1, NestedErr
  <2> QED BY <1>2, <2>5, <2>6
<1> QED BY <1>5, <1>6, <1>7
\* Between dbBegin() and dbCommit() of a write.
LEMMA OwnStatement ==
  ASSUME IInv, NEW pc, OwnAt(pc, frames, db, before, call, found), pc \notin Unarmed
  PROVE  /\ DbOK(db) /\ DbOK(before) /\ CallOK(call) /\ InTransaction(db)
         /\ Inside(db, before, Own(call), 1)
         /\ RolledBack(db) = RolledBack(before) /\ DbOK(RolledBack(db))
         /\ Top.fn = Own(call) /\ Top.mode = call.mode
         /\ Unwound(frames) = <<FrameAt(Own(call), "rollback", call.mode)>>
         /\ Return = <<>>
         /\ \A next : next \notin Unarmed => Then(next) = <<FrameAt(Own(call), next, call.mode)>>
<1>1. DbOK(db) /\ DbOK(before) /\ CallOK(call)
  BY DEF IInv
<1>2. Inside(db, before, Own(call), 1)
  BY DEF OwnAt, OwnFacts, Unarmed
<1>3. InTransaction(db) /\ RolledBack(db) = RolledBack(before) /\ DbOK(RolledBack(db))
  BY <1>1, <1>2, AfterFailure
<1>4. frames = <<FrameAt(Own(call), pc, call.mode)>>
  BY DEF OwnAt
<1>5. Top = FrameAt(Own(call), pc, call.mode)
      /\ Unwound(frames) = <<FrameAt(Own(call), "rollback", call.mode)>>
      /\ Return = <<>>
      /\ \A next : next \notin Unarmed => Then(next) = <<FrameAt(Own(call), next, call.mode)>>
  BY <1>4, OneFrame
<1>6. Top.fn = Own(call) /\ Top.mode = call.mode
  BY <1>5 DEF FrameAt
<1> QED BY <1>1, <1>2, <1>3, <1>5, <1>6

\* A statement inside it fails.
LEMMA StatementFails ==
  ASSUME IInv, NEW pc, OwnAt(pc, frames, db, before, call, found), pc \notin Unarmed,
         frames' = Unwound(frames), call' = call, before' = before, Flags',
         db' = RolledBack(db) \/ (DbOK(db') /\ Inside(db', before, Own(call), 1))
  PROVE  IInv' /\ [Store!Next]_Seen
<1>1. /\ InTransaction(db) /\ RolledBack(db) = RolledBack(before) /\ DbOK(RolledBack(db))
      /\ Unwound(frames) = <<FrameAt(Own(call), "rollback", call.mode)>>
  BY OwnStatement
<1> QED BY <1>1, OwnErr

\* dbExistsTable().
LEMMA ExistsStep ==
  ASSUME IInv, Exists
  PROVE  IInv' /\ [Store!Next]_Seen
<1>1. /\ At("exists") /\ call' = call /\ before' = before
      /\ found' = (Table \in db.content) /\ Flags'
  BY DEF Exists, Refused, Execute, GoOn, Stop, MayFail, IInv, Flags
<1>2. \/ /\ db' = Read(db) /\ frames' = Then(Decision)
         /\ ~(Table \in db.content /\ Top.mode = "fail")
      \/ db' \in {Read(db), RolledBack(db), db} /\ frames' = Unwound(frames)
  BY DEF Exists, Execute, GoOn, Stop, Refused
<1>3. "exists" \notin Unarmed /\ Decision \notin Unarmed
  BY DEF Unarmed, Decision
<1>4. OwnAt("exists", frames, db, before, call, found)
  BY <1>1, AtPlace DEF NestedAt, NestedFacts
<1>5. /\ DbOK(db) /\ DbOK(before) /\ CallOK(call) /\ InTransaction(db)
      /\ Inside(db, before, Own(call), 1) /\ Top.mode = call.mode
      /\ Then(Decision) = <<FrameAt(Own(call), Decision, call.mode)>>
  BY <1>3, <1>4, OwnStatement
<1>6. db.content = before.content /\ call.fn # "append" /\ call.fn # "other"
  BY <1>4 DEF OwnAt, OwnFacts
<1>7. /\ DbOK(Read(db)) /\ Read(db).content = db.content /\ Read(db).locked
      /\ Inside(Read(db), before, Own(call), 1)
  BY <1>5, ReadIs, InsideStays
<1>8. CASE db' = Read(db) /\ frames' = Then(Decision)
           /\ ~(Table \in db.content /\ Top.mode = "fail")
  <2>1. CASE Table \notin db.content
    <3>1. Decision = "create" /\ db.content = {}
      BY <1>5, <2>1 DEF Decision, DbOK, Whole
    <3>2. OwnFacts(Decision, db', before, call, found')
      BY <1>6, <1>7, <1>8, <3>1 DEF OwnFacts
    <3> QED BY <1>1, <1>4, <1>5, <1>7, <1>8, <3>2, OwnMoves
  <2>2. CASE Table \in db.content /\ call.mode = "overwrite"
    <3>1. Decision = "remove" /\ found'
      BY <1>1, <1>5, <2>2 DEF Decision
    <3>2. OwnFacts(Decision, db', before, call, found')
      BY <1>6, <1>7, <1>8, <2>2, <3>1 DEF OwnFacts
    <3> QED BY <1>1, <1>4, <1>5, <1>7, <1>8, <3>2, OwnMoves
  <2>3. CASE Table \in db.content /\ call.mode # "overwrite"
    <3>1. Decision = "rows" /\ call.mode = "append"
      BY <1>5, <1>6, <1>8, <2>3 DEF Decision, CallOK
    <3>2. db'.content = Base(before, call)
      BY <1>6, <1>7, <1>8, <2>3, <3>1 DEF Base
    <3>3. OwnFacts(Decision, db', before, call, found')
      BY <1>6, <1>7, <1>8, <3>1, <3>2 DEF OwnFacts
    <3> QED BY <1>1, <1>4, <1>5, <1>7, <1>8, <3>3, OwnMoves
  <2> QED BY <2>1, <2>2, <2>3
<1>9. CASE db' \in {Read(db), RolledBack(db), db} /\ frames' = Unwound(frames)
  BY <1>1, <1>3, <1>4, <1>5, <1>7, <1>9, StatementFails
<1> QED BY <1>2, <1>8, <1>9

\* dbRemoveTable() when overwriting.
LEMMA RemoveTableStep ==
  ASSUME IInv, RemoveTable
  PROVE  IInv' /\ [Store!Next]_Seen
<1>1. At("remove") /\ call' = call /\ before' = before /\ Flags'
  BY DEF RemoveTable, Execute, GoOn, Stop, IInv, Flags
<1>2. \/ db' = Written(db, {}) /\ frames' = Then("create")
      \/ db' \in {RolledBack(db), db} /\ frames' = Unwound(frames)
  BY DEF RemoveTable, Execute, GoOn, Stop
<1>3. "remove" \notin Unarmed /\ "create" \notin Unarmed /\ Whole({})
  BY DEF Unarmed, Whole
<1>4. OwnAt("remove", frames, db, before, call, found)
  BY <1>1, AtPlace DEF NestedAt, NestedFacts
<1>5. /\ DbOK(db) /\ DbOK(before) /\ Inside(db, before, Own(call), 1)
      /\ Then("create") = <<FrameAt(Own(call), "create", call.mode)>>
  BY <1>3, <1>4, OwnStatement
<1>6. call.mode = "overwrite" /\ call.fn # "append"
  BY <1>4 DEF OwnAt, OwnFacts
<1>7. CASE db' = Written(db, {}) /\ frames' = Then("create")
  <2>1. DbOK(db') /\ Inside(db', before, Own(call), 1) /\ db'.content = {} /\ db'.locked
    BY <1>3, <1>5, <1>7, AfterFailure
  <2>2. OwnFacts("create", db', before, call, found')
    BY <1>6, <2>1 DEF OwnFacts
  <2> QED BY <1>1, <1>4, <1>5, <1>7, <2>1, <2>2, OwnMoves
<1>8. CASE db' \in {RolledBack(db), db} /\ frames' = Unwound(frames)
  BY <1>1, <1>3, <1>4, <1>5, <1>8, StatementFails
<1> QED BY <1>2, <1>7, <1>8

\* CREATE TABLE.
LEMMA CreateTableStep ==
  ASSUME IInv, CreateTable
  PROVE  IInv' /\ [Store!Next]_Seen
<1>1. At("create") /\ call' = call /\ before' = before /\ Flags'
  BY DEF CreateTable, Execute, GoOn, Stop, IInv, Flags
<1>2. \/ db' = Written(db, {Table}) /\ frames' = Then("rows")
      \/ db' \in {RolledBack(db), db} /\ frames' = Unwound(frames)
  BY DEF CreateTable, Execute, GoOn, Stop
<1>3. "create" \notin Unarmed /\ "rows" \notin Unarmed /\ Whole({Table})
  BY DEF Unarmed, Whole, Parts
<1>4. OwnAt("create", frames, db, before, call, found)
  BY <1>1, AtPlace DEF NestedAt, NestedFacts
<1>5. /\ DbOK(db) /\ DbOK(before) /\ Inside(db, before, Own(call), 1)
      /\ Then("rows") = <<FrameAt(Own(call), "rows", call.mode)>>
  BY <1>3, <1>4, OwnStatement
<1>6. call.fn # "append" /\ {Table} = Base(before, call)
  BY <1>4 DEF OwnAt, OwnFacts, Base
<1>7. CASE db' = Written(db, {Table}) /\ frames' = Then("rows")
  <2>1. DbOK(db') /\ Inside(db', before, Own(call), 1) /\ db'.content = {Table} /\ db'.locked
    BY <1>3, <1>5, <1>7, AfterFailure
  <2>2. OwnFacts("rows", db', before, call, found')
    BY <1>6, <2>1 DEF OwnFacts
  <2> QED BY <1>1, <1>4, <1>5, <1>7, <2>1, <2>2, OwnMoves
<1>8. CASE db' \in {RolledBack(db), db} /\ frames' = Unwound(frames)
  BY <1>1, <1>3, <1>4, <1>5, <1>8, StatementFails
<1> QED BY <1>2, <1>7, <1>8

\* dbWriteTable() calls dbAppendTable().
LEMMA NestedAppendStep ==
  ASSUME IInv, NestedAppend
  PROVE  IInv' /\ [Store!Next]_Seen
<1>1. /\ At("rows") /\ call' = call /\ before' = before /\ Flags' /\ db' = db
      /\ call.fn = "write"
  BY DEF NestedAppend, GoOn, IInv, Flags
<1>2. "rows" \notin Unarmed /\ "commit" \notin Unarmed /\ "begin" \in Unarmed
  BY DEF Unarmed
<1>3. OwnAt("rows", frames, db, before, call, found)
  BY <1>1, AtPlace DEF NestedAt, NestedFacts
<1>4. /\ DbOK(db) /\ DbOK(before) /\ Inside(db, before, Own(call), 1) /\ InTransaction(db)
      /\ Then("commit") = <<FrameAt(Own(call), "commit", call.mode)>>
  BY <1>2, <1>3, OwnStatement
<1>5. Own(call) = "write" /\ db.content = Base(before, call) /\ db.locked
  BY <1>1, <1>3 DEF OwnAt, OwnFacts, Own
<1>6. \/ call.rows # {} /\ frames' = <<AppendFrame>> \o Then("commit")
      \/ call.rows = {} /\ frames' = Then("commit")
  BY DEF NestedAppend, GoOn
<1>7. CASE call.rows # {} /\ frames' = <<AppendFrame>> \o Then("commit")
  <2>1. AppendFrame = FrameAt("append", "begin", "append")
    BY <1>2, FrameIs, Zenon DEF AppendFrame, Frame
  <2>2. frames' = <<FrameAt("append", "begin", "append"), FrameAt("write", "commit", call.mode)>>
    BY <1>4, <1>5, <1>7, <2>1, Joined
  <2>3. NestedAt("begin", frames', db', before, call)
    BY <1>1, <1>4, <1>5, <2>2 DEF NestedAt, NestedFacts
  <2>4. Live(frames, call) /\ Live(frames', call)
    BY <1>3, <2>3, LiveIs
  <2>5. Control(frames', db', before, call, found')
    BY <2>3 DEF Control
  <2> QED BY <1>1, <1>4, <2>4, <2>5, Goes
<1>8. CASE call.rows = {} /\ frames' = Then("commit")
  <2>1. db.content = Goal(before, call)
    BY <1>5, <1>8 DEF Goal
  <2>2. OwnFacts("commit", db', before, call, found')
    BY <1>1, <1>4, <1>5, <2>1 DEF OwnFacts
  <2> QED BY <1>1, <1>3, <1>4, <1>8, <2>2, OwnMoves
<1> QED BY <1>6, <1>7, <1>8

\* In a dbAppendTable() that is nested, between its dbBegin() and dbCommit().
LEMMA NestedStatement ==
  ASSUME IInv, NEW pc, NestedAt(pc, frames, db, before, call), pc \notin Unarmed
  PROVE  /\ DbOK(db) /\ DbOK(before) /\ CallOK(call) /\ InTransaction(db)
         /\ Inside(db, before, "write", 2)
         /\ RolledBack(db) = RolledBack(before) /\ DbOK(RolledBack(db))
         /\ Top.fn = "append"
         /\ Unwound(frames) =
              <<FrameAt("append", "rollback", "append"), FrameAt("write", "commit", call.mode)>>
         /\ Return = <<FrameAt("write", "commit", call.mode)>>
         /\ Unwound(Return) = <<FrameAt("write", "rollback", call.mode)>>
         /\ \A next : next \notin Unarmed =>
              Then(next) =
                <<FrameAt("append", next, "append"), FrameAt("write", "commit", call.mode)>>
<1>1. DbOK(db) /\ DbOK(before) /\ CallOK(call)
  BY DEF IInv
<1>2. Inside(db, before, "write", 2)
  BY DEF NestedAt, NestedFacts, Unarmed
<1>3. InTransaction(db) /\ RolledBack(db) = RolledBack(before) /\ DbOK(RolledBack(db))
  BY <1>1, <1>2, AfterFailure
<1>4. frames = <<FrameAt("append", pc, "append"), FrameAt("write", "commit", call.mode)>>
  BY DEF NestedAt
<1>5. "commit" \notin Unarmed
  BY DEF Unarmed
<1>6. /\ Top = FrameAt("append", pc, "append")
      /\ Unwound(frames) =
           <<FrameAt("append", "rollback", "append"), FrameAt("write", "commit", call.mode)>>
      /\ Return = <<FrameAt("write", "commit", call.mode)>>
      /\ Unwound(Return) = <<FrameAt("write", "rollback", call.mode)>>
      /\ \A next : next \notin Unarmed =>
           Then(next) =
             <<FrameAt("append", next, "append"), FrameAt("write", "commit", call.mode)>>
  BY <1>4, <1>5, TwoFrames
<1>7. Top.fn = "append"
  BY <1>6 DEF FrameAt
<1> QED BY <1>1, <1>2, <1>3, <1>6, <1>7

\* And when it fails.
LEMMA NestedStatementFails ==
  ASSUME IInv, NEW pc, NestedAt(pc, frames, db, before, call), pc \notin Unarmed,
         frames' = Unwound(frames), call' = call, before' = before, Flags',
         db' = RolledBack(db) \/ (DbOK(db') /\ Inside(db', before, "write", 2))
  PROVE  IInv' /\ [Store!Next]_Seen
<1>1. /\ DbOK(before) /\ InTransaction(db)
      /\ RolledBack(db) = RolledBack(before) /\ DbOK(RolledBack(db))
      /\ Unwound(frames) =
           <<FrameAt("append", "rollback", "append"), FrameAt("write", "commit", call.mode)>>
  BY NestedStatement
<1>2. InTransaction(db') \/ db' = RolledBack(before)
  BY <1>1, InsideStays
<1>3. NestedFacts("rollback", db', before, call)
  BY <1>1 DEF NestedFacts
<1> QED BY <1>1, <1>2, <1>3, NestedMoves

\* The rows of a data frame or of a file: some of them stay if the INSERT fails.
LEMMA InsertRowsStep ==
  ASSUME IInv, InsertRows("commit"), At("insert") \/ (At("rows") /\ call.fn = "file")
  PROVE  IInv' /\ [Store!Next]_Seen
<1>1. call' = call /\ before' = before /\ Flags'
  BY DEF InsertRows, Execute, GoOn, Stop, IInv, Flags
<1>2. \/ /\ db' = Written(db, db.content \cup call.rows) /\ frames' = Then("commit")
         /\ Table \in db.content
      \/ /\ frames' = Unwound(frames)
         /\ \/ db' \in {RolledBack(db), db}
            \/ Table \in db.content /\ db' \in SomeRows
  BY DEF InsertRows, Execute, GoOn, Stop
<1>3. "insert" \notin Unarmed /\ "rows" \notin Unarmed /\ "commit" \notin Unarmed
  BY DEF Unarmed
<1>4. call.rows \in SUBSET Rows /\ DbOK(db)
  BY DEF IInv, CallOK
<1>5. ASSUME Table \in db.content, NEW s \in SUBSET call.rows PROVE Whole(db.content \cup s)
  BY <1>4, <1>5 DEF DbOK, Whole, Parts
<1>6. ASSUME NEW own, NEW n \in {1, 2}, Inside(db, before, own, n)
      PROVE  /\ Table \in db.content =>
                  LET e == Written(db, db.content \cup call.rows)
                  IN  /\ DbOK(e) /\ Inside(e, before, own, n)
                      /\ e.content = db.content \cup call.rows /\ e.locked
             /\ Table \in db.content /\ db' \in SomeRows => DbOK(db') /\ Inside(db', before, own, n)
  <2>1. DbOK(before)
    BY DEF IInv
  <2>2. \A s \in SUBSET call.rows : Table \in db.content =>
           LET e == Written(db, db.content \cup s)
           IN  DbOK(e) /\ Inside(e, before, own, n) /\ e.content = db.content \cup s /\ e.locked
    BY <1>4, <1>5, <1>6, <2>1, AfterFailure
  <2>3. call.rows \in SUBSET call.rows
    OBVIOUS
  <2>4. Table \in db.content =>
          LET e == Written(db, db.content \cup call.rows)
          IN  DbOK(e) /\ Inside(e, before, own, n)
              /\ e.content = db.content \cup call.rows /\ e.locked
    BY <2>2, <2>3, Zenon
  <2>5. ASSUME Table \in db.content, db' \in SomeRows
        PROVE  DbOK(db') /\ Inside(db', before, own, n)
    <3>1. PICK s \in SUBSET call.rows : db' = Written(db, db.content \cup s)
      BY <2>5 DEF SomeRows
    <3> QED BY <2>2, <2>5, <3>1, Zenon
  <2> QED BY <2>4, <2>5
<1>7. ASSUME NEW pc \in {"insert", "rows"}, OwnAt(pc, frames, db, before, call, found),
             pc = "rows" => call.fn = "file"
      PROVE  IInv' /\ [Store!Next]_Seen
  <2>1. /\ Inside(db, before, Own(call), 1)
        /\ Then("commit") = <<FrameAt(Own(call), "commit", call.mode)>>
    BY <1>3, <1>7, OwnStatement
  <2>2. CASE db' = Written(db, db.content \cup call.rows) /\ frames' = Then("commit")
             /\ Table \in db.content
    <3>1. /\ DbOK(db') /\ Inside(db', before, Own(call), 1) /\ db'.locked
          /\ db'.content = db.content \cup call.rows
      BY <1>6, <2>1, <2>2
    <3>2. db.content = Base(before, call)
      <4>1. CASE pc = "rows"
        BY <1>7, <4>1 DEF OwnAt, OwnFacts
      <4>2. CASE pc = "insert"
        <5>1. db.content = before.content /\ call.fn = "append"
          BY <1>7, <4>2 DEF OwnAt, OwnFacts
        <5>2. call.mode = "append"
          BY <5>1 DEF IInv, CallOK
        <5> QED BY <2>2, <5>1, <5>2 DEF Base
      <4> QED BY <4>1, <4>2
    <3>3. OwnFacts("commit", db', before, call, found')
      BY <3>1, <3>2 DEF OwnFacts, Goal
    <3> QED BY <1>1, <1>7, <2>1, <2>2, <3>1, <3>3, OwnMoves
  <2>3. CASE /\ frames' = Unwound(frames)
             /\ \/ db' \in {RolledBack(db), db}
                \/ Table \in db.content /\ db' \in SomeRows
    <3>1. db' = RolledBack(db) \/ (DbOK(db') /\ Inside(db', before, Own(call), 1))
      BY <1>4, <1>6, <2>1, <2>3
    <3> QED BY <1>1, <1>3, <1>7, <2>3, <3>1, StatementFails
  <2> QED BY <1>2, <2>2, <2>3
<1>8. ASSUME NestedAt("insert", frames, db, before, call)
      PROVE  IInv' /\ [Store!Next]_Seen
  <2>1. /\ Inside(db, before, "write", 2) /\ InTransaction(db) /\ DbOK(before)
        /\ Then("commit") =
             <<FrameAt("append", "commit", "append"), FrameAt("write", "commit", call.mode)>>
    BY <1>3, <1>8, NestedStatement
  <2>2. CASE db' = Written(db, db.content \cup call.rows) /\ frames' = Then("commit")
             /\ Table \in db.content
    <3>1. /\ DbOK(db') /\ Inside(db', before, "write", 2) /\ db'.locked
          /\ db'.content = db.content \cup call.rows
      BY <1>6, <2>1, <2>2
    <3>2. db.content = Base(before, call)
      BY <1>8 DEF NestedAt, NestedFacts
    <3>3. NestedFacts("commit", db', before, call)
      BY <3>1, <3>2 DEF NestedFacts, Goal
    <3>4. InTransaction(db')
      BY <2>1, <3>1, InsideStays
    <3> QED BY <1>1, <1>8, <2>1, <2>2, <3>1, <3>3, <3>4, NestedMoves
  <2>3. CASE /\ frames' = Unwound(frames)
             /\ \/ db' \in {RolledBack(db), db}
                \/ Table \in db.content /\ db' \in SomeRows
    <3>1. db' = RolledBack(db) \/ (DbOK(db') /\ Inside(db', before, "write", 2))
      BY <1>4, <1>6, <2>1, <2>3
    <3> QED BY <1>1, <1>3, <1>8, <2>3, <3>1, NestedStatementFails
  <2> QED BY <1>2, <2>2, <2>3
<1>9. \/ OwnAt("insert", frames, db, before, call, found)
      \/ OwnAt("rows", frames, db, before, call, found) /\ call.fn = "file"
      \/ NestedAt("insert", frames, db, before, call)
  BY AtPlace DEF NestedAt, NestedFacts
<1> QED BY <1>7, <1>8, <1>9

\* dbCommit() of the function's own savepoint.
LEMMA CommitOwnStep ==
  ASSUME IInv, CommitOwn
  PROVE  IInv' /\ [Store!Next]_Seen
<1>1. At("commit") /\ call' = call /\ before' = before /\ unclean' = unclean /\ Flags'
  BY DEF CommitOwn, GoOn, IInv, Flags
<1>2. \/ db' = Released(db, Top.fn) /\ frames' = Return /\ result' = "ok"
      \/ /\ \/ ~Known(db, Top.fn) /\ db' = db
            \/ db' \in {db, RolledBack(db)}
         /\ frames' = Unwound(IF Top.fn = "append" THEN Return ELSE frames)
         /\ result' = "error"
  BY DEF CommitOwn, GoOn, CommitDisarmed
<1>3. "commit" \notin Unarmed
  BY DEF Unarmed
<1>4. \/ OwnAt("commit", frames, db, before, call, found)
      \/ NestedAt("commit", frames, db, before, call)
  BY <1>1, AtPlace
<1>5. CASE OwnAt("commit", frames, db, before, call, found)
  <2>1. /\ DbOK(db) /\ DbOK(before) /\ InTransaction(db) /\ Inside(db, before, Own(call), 1)
        /\ RolledBack(db) = RolledBack(before) /\ DbOK(RolledBack(db))
        /\ Top.fn = Own(call) /\ Return = <<>>
        /\ Unwound(frames) = <<FrameAt(Own(call), "rollback", call.mode)>>
    BY <1>3, <1>5, OwnStatement
  <2>2. Live(frames, call) /\ db.content = Goal(before, call) /\ db.locked
    BY <1>5, LiveIs DEF OwnAt, OwnFacts
  <2>3. CASE db' = Released(db, Top.fn) /\ frames' = Return /\ result' = "ok"
    <3>1. /\ DbOK(db') /\ db'.content = Goal(before, call)
          /\ db' = Written(before, Goal(before, call))
      BY <2>1, <2>2, <2>3, ReleasedOwn
    <3> QED BY <1>1, <2>1, <2>2, <2>3, <3>1, Returns
  <2>4. CASE /\ db' \in {db, RolledBack(db)} /\ result' = "error"
             /\ frames' = Unwound(IF Top.fn = "append" THEN Return ELSE frames)
    <3>1. CASE Own(call) = "append"
      <4>1. frames' = <<>>
        BY <2>1, <2>4, <3>1, UnwoundIs
      <4>2. call.fn = "append"
        BY <3>1 DEF Own
      <4>3. DbOK(db')
        BY <2>1, <2>4
      <4>4. \/ db' = RolledBack(before)
            \/ db'.content = Goal(before, call) /\ Inside(db', before, Own(call), 1)
        BY <2>1, <2>2, <2>4
      <4> QED BY <1>1, <2>1, <2>2, <2>4, <4>1, <4>2, <4>3, <4>4, Fails
    <3>2. CASE Own(call) # "append"
      <4>1. frames' = <<FrameAt(Own(call), "rollback", call.mode)>>
        BY <2>1, <2>4, <3>2
      <4> QED BY <1>1, <1>5, <2>1, <2>4, <4>1, OwnErr
    <3> QED BY <3>1, <3>2
  <2> QED BY <1>2, <2>3, <2>4
<1>6. CASE NestedAt("commit", frames, db, before, call)
  <2>1. /\ DbOK(db) /\ DbOK(before) /\ InTransaction(db) /\ Inside(db, before, "write", 2)
        /\ RolledBack(db) = RolledBack(before) /\ DbOK(RolledBack(db))
        /\ Top.fn = "append"
        /\ Return = <<FrameAt("write", "commit", call.mode)>>
        /\ Unwound(Return) = <<FrameAt("write", "rollback", call.mode)>>
    BY <1>3, <1>6, NestedStatement
  <2>2. /\ call.fn = "write" /\ Own(call) = "write"
        /\ db.content = Goal(before, call) /\ db.locked
    BY <1>6 DEF NestedAt, NestedFacts, Own
  <2>3. CASE db' = Released(db, Top.fn) /\ frames' = Return
    <3>1. /\ DbOK(db') /\ Inside(db', before, "write", 1)
          /\ db'.content = Goal(before, call) /\ db'.locked
      BY <2>1, <2>2, <2>3, ReleasedNested
    <3>2. OwnAt("commit", frames', db', before, call, found')
      BY <2>1, <2>2, <2>3, <3>1 DEF OwnAt, OwnFacts
    <3>3. Live(frames, call) /\ Live(frames', call)
      BY <1>6, <3>2, LiveIs
    <3>4. Control(frames', db', before, call, found')
      BY <3>2 DEF Control
    <3>5. InTransaction(db')
      BY <2>1, <3>1, InsideStays
    <3> QED BY <1>1, <2>1, <3>1, <3>3, <3>4, <3>5, Goes
  <2>4. CASE /\ db' \in {db, RolledBack(db)}
             /\ frames' = Unwound(IF Top.fn = "append" THEN Return ELSE frames)
    <3>1. frames' = <<FrameAt("write", "rollback", call.mode)>>
      BY <2>1, <2>4
    <3>2. DbOK(db') /\ (Inside(db', before, "write", 2) \/ db' = RolledBack(before))
      BY <2>1, <2>4
    <3> QED BY <1>1, <1>6, <2>1, <3>1, <3>2, NestedErr
  <2> QED BY <1>2, <2>3, <2>4
<1> QED BY <1>4, <1>5, <1>6
----------------------------------------------------------------------------
(* dbRollback() with a name: of the user, and in an on.exit() *)

\* After a statement of the user.
LEMMA UserMoves ==
  ASSUME IInv, call' = NoCall, DbOK(db'), DbOK(before'), Flags',
         \/ frames' = <<>>
         \/ \E n \in UserNames, pc \in {"rollback", "release"} :
              frames' = <<FrameAt(n, pc, "user")>>
  PROVE  IInv' /\ Seen' = db'
<1>1. CallOK(NoCall) /\ NoCall.fn = "other"
  BY DEF CallOK, NoCall, Modes
<1>2. AllOrNothing' /\ FailedCallIsNotDurable'
  BY <1>1 DEF AllOrNothing, FailedCallIsNotDurable, Over
<1>3. \/ frames' = <<>>
      \/ \E n \in UserNames, pc \in {"rollback", "release"} : UserAt(n, pc, frames', call')
  BY DEF UserAt
<1>4. Control(frames', db', before', call', found')
  BY <1>3 DEF Control
<1>5. IInv'
  BY <1>1, <1>2, <1>4 DEF IInv
<1>6. Seen' = db'
  BY <1>3, SeenIs, SeenOfIs
<1> QED BY <1>5, <1>6

\* A transaction that is gone has no savepoints.
LEMMA GoneIs ==
  ASSUME NEW d, NEW b, DbOK(b), d = RolledBack(b)
  PROVE  RolledBack(d) = d /\ \A n : ~Known(d, n)
<1>1. DbOK(d) /\ d = [content |-> b.disk, disk |-> b.disk, stack |-> <<>>,
                      begun |-> FALSE, locked |-> FALSE]
  BY RolledBackIs
<1>2. RolledBack(d) = [content |-> d.disk, disk |-> d.disk, stack |-> <<>>,
                       begun |-> FALSE, locked |-> FALSE]
  BY <1>1, RolledBackIs
<1>3. d.disk = b.disk /\ d.stack = <<>>
  BY <1>1
<1>4. RolledBack(d) = d
  BY <1>1, <1>2, <1>3
<1>5. \A n : ~Known(d, n)
  BY <1>3 DEF Known
<1> QED BY <1>4, <1>5

\* The first statement of dbRollback(name), in on.exit() or by the user.
LEMMA RollbackToStep ==
  ASSUME IInv, RollbackTo
  PROVE  IInv' /\ [Store!Next]_Seen
<1>1. At("rollback") /\ call' = call /\ before' = before /\ found' = found
      /\ faults \in Nat /\ unclean' = (unclean \/ faults' > faults) /\ Flags'
  BY DEF RollbackTo, Execute, GoOn, Stop, IInv, Flags
<1>2. \/ Known(db, Top.fn) /\ db' = RolledBackTo(db, Top.fn) /\ frames' = Then("release")
      \/ ~Known(db, Top.fn) /\ db' = db /\ frames' = Unwound(frames) /\ result' = "error"
      \/ /\ faults' = faults + 1 /\ db' \in {RolledBack(db), db}
         /\ frames' = Unwound(frames) /\ result' = "error"
  BY DEF RollbackTo, Execute, GoOn, Stop, MayFail
<1>3. faults' = faults + 1 => unclean'
  <2>1. ASSUME faults' = faults + 1 PROVE faults' > faults
    BY <1>1, <2>1
  <2> QED BY <1>1, <2>1, Zenon
<1>4. "rollback" \in Unarmed /\ "release" \in Unarmed /\ "commit" \notin Unarmed
  BY DEF Unarmed
<1>5. DbOK(db) /\ DbOK(before) /\ CallOK(call)
  BY DEF IInv
<1>6. ASSUME NEW n \in UserNames, UserAt(n, "rollback", frames, call)
      PROVE  IInv' /\ [Store!Next]_Seen
  <2>1. frames = <<FrameAt(n, "rollback", "user")>> /\ call = NoCall
    BY <1>6 DEF UserAt
  <2>2. /\ Top = FrameAt(n, "rollback", "user") /\ Unwound(frames) = <<>>
        /\ Then("release") = <<FrameAt(n, "release", "user")>>
    BY <1>4, <2>1, OneFrame
  <2>3. Top.fn = n
    BY <2>2 DEF FrameAt
  <2>4. Seen = db
    BY <1>6, SeenIs, SeenOfIs
  <2>5. CASE Known(db, n) /\ db' = RolledBackTo(db, n) /\ frames' = Then("release")
    <3>1. DbOK(db')
      BY <1>5, <2>5, RolledBackToIs
    <3>2. IInv' /\ Seen' = db'
      BY <1>1, <1>5, <2>1, <2>2, <2>5, <3>1, UserMoves
    <3> QED BY <2>4, <2>5, <3>2, UserSteps
  <2>6. CASE db' \in {RolledBack(db), db} /\ frames' = Unwound(frames)
    <3>1. DbOK(db')
      BY <1>5, <2>6, RolledBackIs
    <3>2. IInv' /\ Seen' = db'
      BY <1>1, <1>5, <2>1, <2>2, <2>6, <3>1, UserMoves
    <3> QED BY <2>4, <2>6, <3>2, WriteSteps
  <2> QED BY <1>2, <2>3, <2>5, <2>6
<1>7. ASSUME OwnAt("rollback", frames, db, before, call, found)
      PROVE  IInv' /\ [Store!Next]_Seen
  <2>1. frames = <<FrameAt(Own(call), "rollback", call.mode)>> /\ call.fn # "other"
    BY <1>7 DEF OwnAt
  <2>2. /\ Top = FrameAt(Own(call), "rollback", call.mode) /\ Unwound(frames) = <<>>
        /\ Then("release") = <<FrameAt(Own(call), "release", call.mode)>>
    BY <1>4, <2>1, OneFrame
  <2>3. Top.fn = Own(call) /\ Live(frames, call)
    BY <1>7, <2>2, LiveIs DEF FrameAt
  <2>4. (\E n \in {1, 2} : Inside(db, before, Own(call), n)) \/ db = RolledBack(before)
    BY <1>7 DEF OwnAt, OwnFacts
  <2>5. ASSUME NEW n \in {1, 2}, Inside(db, before, Own(call), n)
        PROVE  IInv' /\ [Store!Next]_Seen
    <3>1. /\ InTransaction(db) /\ RolledBack(db) = RolledBack(before) /\ DbOK(RolledBack(db))
          /\ Known(db, Own(call))
      BY <1>5, <2>5, AfterFailure, OwnSavepoint
    <3>2. CASE db' = RolledBackTo(db, Top.fn) /\ frames' = Then("release")
      <4>1. DbOK(db') /\ Inside(db', before, Own(call), 1) /\ db'.content = before.content
        BY <1>5, <2>3, <2>5, <3>2, RolledBackInside
      <4>2. OwnAt("release", frames', db', before, call, found')
        BY <2>1, <2>2, <3>2, <4>1 DEF OwnAt, OwnFacts
      <4>3. Live(frames', call) /\ Control(frames', db', before, call, found')
        BY <4>2, LiveIs DEF Control
      <4>4. InTransaction(db')
        BY <1>5, <4>1, InsideStays
      <4> QED BY <1>1, <2>3, <3>1, <4>1, <4>3, <4>4, Goes
    <3>3. CASE /\ faults' = faults + 1 /\ db' \in {RolledBack(db), db}
               /\ frames' = Unwound(frames) /\ result' = "error"
      <4>1. DbOK(db') /\ (db' = RolledBack(before) \/ Inside(db', before, Own(call), n))
        BY <1>5, <2>5, <3>1, <3>3
      <4> QED BY <1>1, <1>3, <2>2, <2>3, <3>1, <3>3, <4>1, Fails
    <3> QED BY <1>2, <2>3, <3>1, <3>2, <3>3
  <2>6. ASSUME db = RolledBack(before) PROVE IInv' /\ [Store!Next]_Seen
    <3>1. RolledBack(db) = db /\ ~Known(db, Top.fn)
      BY <1>5, <2>6, GoneIs
    <3>2. db' = db /\ frames' = <<>> /\ result' = "error"
      BY <1>2, <2>2, <3>1
    <3> QED BY <1>1, <2>1, <2>6, <3>2, Gone
  <2> QED BY <2>4, <2>5, <2>6
<1>8. ASSUME NestedAt("rollback", frames, db, before, call)
      PROVE  IInv' /\ [Store!Next]_Seen
  <2>1. /\ call.fn = "write" /\ Own(call) = "write"
        /\ frames = <<FrameAt("append", "rollback", "append"), FrameAt("write", "commit", call.mode)>>
    BY <1>8 DEF NestedAt, Own
  <2>2. /\ Top = FrameAt("append", "rollback", "append")
        /\ Unwound(frames) = <<FrameAt("write", "rollback", call.mode)>>
        /\ Then("release") =
             <<FrameAt("append", "release", "append"), FrameAt("write", "commit", call.mode)>>
    BY <1>4, <2>1, TwoFrames
  <2>3. Top.fn = "append"
    BY <2>2 DEF FrameAt
  <2>4. Inside(db, before, "write", 2) \/ db = RolledBack(before)
    BY <1>8 DEF NestedAt, NestedFacts
  <2>5. ASSUME Inside(db, before, "write", 2) PROVE IInv' /\ [Store!Next]_Seen
    <3>1. /\ InTransaction(db) /\ RolledBack(db) = RolledBack(before) /\ DbOK(RolledBack(db))
          /\ Known(db, "append")
      BY <1>5, <2>5, AfterFailure, OwnSavepoint
    <3>2. CASE db' = RolledBackTo(db, Top.fn) /\ frames' = Then("release")
      <4>1. DbOK(db') /\ Inside(db', before, "write", 2)
        BY <1>5, <2>3, <2>5, <3>2, RolledBackInside
      <4>2. NestedFacts("release", db', before, call) /\ InTransaction(db')
        BY <1>5, <4>1, InsideStays DEF NestedFacts
      <4> QED BY <1>1, <1>8, <2>2, <3>1, <3>2, <4>1, <4>2, NestedMoves
    <3>3. CASE db' \in {RolledBack(db), db} /\ frames' = Unwound(frames)
      <4>1. DbOK(db') /\ (db' = RolledBack(before) \/ Inside(db', before, "write", 2))
        BY <1>5, <2>5, <3>1, <3>3
      <4> QED BY <1>1, <1>8, <2>2, <3>1, <3>3, <4>1, NestedErr
    <3> QED BY <1>2, <2>3, <3>1, <3>2, <3>3
  <2>6. ASSUME db = RolledBack(before) PROVE IInv' /\ [Store!Next]_Seen
    <3>1. RolledBack(db) = db /\ ~Known(db, Top.fn)
      BY <1>5, <2>6, GoneIs
    <3>2. db' = db /\ frames' = <<FrameAt("write", "rollback", call.mode)>>
      BY <1>2, <2>2, <3>1
    <3>3. OwnAt("rollback", frames', db, before, call, found')
      BY <2>1, <2>6, <3>2 DEF OwnAt, OwnFacts
    <3>4. frames' # <<>> /\ Control(frames', db, before, call, found')
      BY <3>2, <3>3 DEF Control
    <3> QED BY <1>1, <2>1, <2>6, <3>2, <3>4, Gone
  <2> QED BY <2>4, <2>5, <2>6
<1> QED BY <1>1, <1>6, <1>7, <1>8, AtPlace

\* Its second statement.
LEMMA ReleaseRolledBackStep ==
  ASSUME IInv, ReleaseRolledBack
  PROVE  IInv' /\ [Store!Next]_Seen
<1>1. At("release") /\ call' = call /\ before' = before /\ found' = found
      /\ faults \in Nat /\ unclean' = (unclean \/ faults' > faults) /\ Flags'
  BY DEF ReleaseRolledBack, GoOn, Stop, IInv, Flags
<1>2. \/ /\ Known(db, Top.fn) /\ db' = Released(db, Top.fn)
         /\ \/ Top.mode = "user" /\ frames' = Return
            \/ Top.mode # "user" /\ frames' = Unwound(Return) /\ result' = "error"
      \/ ~Known(db, Top.fn) /\ db' = db /\ frames' = Unwound(frames) /\ result' = "error"
      \/ /\ faults' = faults + 1 /\ db' \in {RolledBack(db), db}
         /\ frames' = Unwound(frames) /\ result' = "error"
  BY DEF ReleaseRolledBack, GoOn, Stop, MayFail
<1>3. faults' = faults + 1 => unclean'
  <2>1. ASSUME faults' = faults + 1 PROVE faults' > faults
    BY <1>1, <2>1
  <2> QED BY <1>1, <2>1, Zenon
<1>4. "release" \in Unarmed /\ "commit" \notin Unarmed
  BY DEF Unarmed
<1>5. DbOK(db) /\ DbOK(before) /\ CallOK(call)
  BY DEF IInv
<1>6. ASSUME NEW n \in UserNames, UserAt(n, "release", frames, call)
      PROVE  IInv' /\ [Store!Next]_Seen
  <2>1. frames = <<FrameAt(n, "release", "user")>> /\ call = NoCall
    BY <1>6 DEF UserAt
  <2>2. Top = FrameAt(n, "release", "user") /\ Unwound(frames) = <<>> /\ Return = <<>>
    BY <1>4, <2>1, OneFrame
  <2>3. Top.fn = n /\ Top.mode = "user"
    BY <2>2 DEF FrameAt
  <2>4. Seen = db
    BY <1>6, SeenIs, SeenOfIs
  <2>5. frames' = <<>>
    BY <1>2, <2>2, <2>3
  <2>6. CASE Known(db, n) /\ db' = Released(db, n)
    <3>1. DbOK(db')
      BY <1>5, <2>6, ReleasedIs
    <3>2. IInv' /\ Seen' = db'
      BY <1>1, <1>5, <2>1, <2>5, <3>1, UserMoves
    <3> QED BY <2>4, <2>6, <3>2, UserSteps
  <2>7. CASE db' \in {RolledBack(db), db}
    <3>1. DbOK(db')
      BY <1>5, <2>7, RolledBackIs
    <3>2. IInv' /\ Seen' = db'
      BY <1>1, <1>5, <2>1, <2>5, <3>1, UserMoves
    <3> QED BY <2>4, <2>7, <3>2, WriteSteps
  <2> QED BY <1>2, <2>3, <2>6, <2>7
<1>7. ASSUME OwnAt("release", frames, db, before, call, found)
      PROVE  IInv' /\ [Store!Next]_Seen
  <2>1. /\ frames = <<FrameAt(Own(call), "release", call.mode)>> /\ call.fn # "other"
        /\ Inside(db, before, Own(call), 1) /\ db.content = before.content
    BY <1>7 DEF OwnAt, OwnFacts
  <2>2. /\ Top = FrameAt(Own(call), "release", call.mode) /\ Unwound(frames) = <<>>
        /\ Unwound(Return) = <<>>
    BY <1>4, <2>1, OneFrame
  <2>3. Top.fn = Own(call) /\ Top.mode # "user" /\ Live(frames, call)
    BY <1>5, <1>7, <2>1, <2>2, LiveIs DEF FrameAt, CallOK
  <2>4. /\ InTransaction(db) /\ RolledBack(db) = RolledBack(before) /\ DbOK(RolledBack(db))
        /\ Known(db, Own(call))
    BY <1>5, <2>1, AfterFailure, OwnSavepoint
  <2>5. frames' = <<>> /\ result' = "error"
    BY <1>2, <2>2, <2>3
  <2>6. CASE db' = Released(db, Own(call))
    <3>1. DbOK(db') /\ db' \in {before, Read(before)}
      BY <1>5, <2>1, <2>6, ReleasedOwn
    <3> QED BY <1>1, <2>3, <2>4, <2>5, <3>1, Fails
  <2>7. CASE faults' = faults + 1 /\ db' \in {RolledBack(db), db}
    <3>1. DbOK(db') /\ (db' = RolledBack(before) \/ Inside(db', before, Own(call), 1))
      BY <1>5, <2>1, <2>4, <2>7
    <3> QED BY <1>1, <1>3, <2>3, <2>4, <2>5, <2>7, <3>1, Fails
  <2> QED BY <1>2, <2>3, <2>4, <2>6, <2>7
<1>8. ASSUME NestedAt("release", frames, db, before, call)
      PROVE  IInv' /\ [Store!Next]_Seen
  <2>1. /\ frames = <<FrameAt("append", "release", "append"), FrameAt("write", "commit", call.mode)>>
        /\ Inside(db, before, "write", 2)
    BY <1>8 DEF NestedAt, NestedFacts
  <2>2. /\ Top = FrameAt("append", "release", "append")
        /\ Unwound(frames) = <<FrameAt("write", "rollback", call.mode)>>
        /\ Unwound(Return) = <<FrameAt("write", "rollback", call.mode)>>
    BY <1>4, <2>1, TwoFrames
  <2>3. Top.fn = "append" /\ Top.mode # "user"
    BY <2>2 DEF FrameAt
  <2>4. /\ InTransaction(db) /\ RolledBack(db) = RolledBack(before) /\ DbOK(RolledBack(db))
        /\ Known(db, "append")
    BY <1>5, <2>1, AfterFailure, OwnSavepoint
  <2>5. frames' = <<FrameAt("write", "rollback", call.mode)>>
    BY <1>2, <2>2, <2>3
  <2>6. CASE db' = Released(db, "append")
    <3>1. DbOK(db') /\ Inside(db', before, "write", 1)
      BY <1>5, <2>1, <2>6, ReleasedNested
    <3> QED BY <1>1, <1>8, <2>4, <2>5, <3>1, NestedErr
  <2>7. CASE db' \in {RolledBack(db), db}
    <3>1. DbOK(db') /\ (db' = RolledBack(before) \/ Inside(db', before, "write", 2))
      BY <1>5, <2>1, <2>4, <2>7
    <3> QED BY <1>1, <1>8, <2>4, <2>5, <3>1, NestedErr
  <2> QED BY <1>2, <2>3, <2>4, <2>6, <2>7
<1> QED BY <1>1, <1>6, <1>7, <1>8, AtPlace
----------------------------------------------------------------------------
(* The statements of the user, the start of a write, another connection *)

\* A statement that is a step of its own: it succeeds, or fails, or ends the
\* transaction.
LEMMA UserStatement ==
  ASSUME IInv, frames = <<>>, UserCall, Flags', DbOK(db'),
         \/ frames' = <<>>
         \/ \E n \in UserNames : frames' = <<FrameAt(n, "rollback", "user")>>,
         \/ db' \in {db, RolledBack(db)}
         \/ ~InTransaction(db) /\ db' = Begun(db)
         \/ InTransaction(db) /\ db' = Committed(db)
         \/ \E n \in UserNames : \/ db' = Saved(db, n)
                                 \/ Known(db, n) /\ db' = Released(db, n)
  PROVE  IInv' /\ [Store!Next]_Seen
<1>1. call' = NoCall /\ before' = before /\ DbOK(before')
  BY DEF UserCall, IInv
<1>2. IInv' /\ Seen' = db'
  BY <1>1, UserMoves
<1>3. Seen = db
  BY SeenIs, SeenOfIs
<1> QED BY <1>2, <1>3, UserSteps, WriteSteps

\* A transaction statement of the user.
LEMMA UserStatementSteps ==
  ASSUME IInv, \/ Begin \/ Commit \/ Rollback
               \/ \E n \in UserNames : BeginNamed(n) \/ CommitNamed(n) \/ RollbackNamed(n)
  PROVE  IInv' /\ [Store!Next]_Seen
<1>1. DbOK(db) /\ UserNames \subseteq Names /\ Unwound(<<>>) = <<>>
  BY UnwoundIs DEF IInv, Names
<1>2. DbOK(RolledBack(db)) /\ DbOK(Begun(db)) /\ DbOK(Committed(db))
  BY <1>1, PlainOK
<1>3. CASE Begin
  <2>1. UserCall /\ frames = <<>> /\ Flags'
    BY <1>3 DEF Begin, UserCall, Execute, GoOn, Stop, IInv, Flags
  <2>2. frames' = <<>> /\ (db' \in {db, RolledBack(db)} \/ (~InTransaction(db) /\ db' = Begun(db)))
    BY <1>1, <1>3, <2>1 DEF Begin, Execute, GoOn, Stop
  <2> QED BY <1>1, <1>2, <2>1, <2>2, UserStatement
<1>4. CASE Commit
  <2>1. UserCall /\ frames = <<>> /\ Flags'
    BY <1>4 DEF Commit, UserCall, Execute, GoOn, Stop, IInv, Flags
  <2>2. frames' = <<>> /\ (db' \in {db, RolledBack(db)} \/ (InTransaction(db) /\ db' = Committed(db)))
    BY <1>1, <1>4, <2>1 DEF Commit, Execute, GoOn, Stop
  <2> QED BY <1>1, <1>2, <2>1, <2>2, UserStatement
<1>5. CASE Rollback
  <2>1. UserCall /\ frames = <<>> /\ Flags'
    BY <1>5 DEF Rollback, UserCall, Execute, GoOn, Stop, IInv, Flags
  <2>2. frames' = <<>> /\ db' \in {db, RolledBack(db)}
    BY <1>1, <1>5, <2>1 DEF Rollback, Execute, GoOn, Stop
  <2> QED BY <1>1, <1>2, <2>1, <2>2, UserStatement
<1>6. ASSUME NEW n \in UserNames, BeginNamed(n) PROVE IInv' /\ [Store!Next]_Seen
  <2>1. UserCall /\ frames = <<>> /\ Flags'
    BY <1>6 DEF BeginNamed, UserCall, Execute, GoOn, Stop, IInv, Flags
  <2>2. frames' = <<>> /\ (db' \in {db, RolledBack(db)} \/ db' = Saved(db, n))
    BY <1>1, <1>6, <2>1 DEF BeginNamed, Execute, GoOn, Stop
  <2>3. DbOK(Saved(db, n))
    BY <1>1, SavedIs
  <2> QED BY <1>1, <1>2, <2>1, <2>2, <2>3, UserStatement
<1>7. ASSUME NEW n \in UserNames, CommitNamed(n) PROVE IInv' /\ [Store!Next]_Seen
  <2>1. UserCall /\ frames = <<>> /\ Flags'
    BY <1>7 DEF CommitNamed, UserCall, Execute, GoOn, Stop, IInv, Flags
  <2>2. frames' = <<>> /\ (db' \in {db, RolledBack(db)} \/ (Known(db, n) /\ db' = Released(db, n)))
    BY <1>1, <1>7, <2>1 DEF CommitNamed, Execute, GoOn, Stop
  <2>3. Known(db, n) => DbOK(Released(db, n))
    BY <1>1, ReleasedIs
  <2> QED BY <1>1, <1>2, <2>1, <2>2, <2>3, UserStatement
<1>8. ASSUME NEW n \in UserNames, RollbackNamed(n) PROVE IInv' /\ [Store!Next]_Seen
  <2>1. UserCall /\ frames = <<>> /\ Flags' /\ db' = db
    BY <1>8 DEF RollbackNamed, UserCall, GoOn, IInv, Flags
  <2>2. Frame(n, "rollback", "user") = FrameAt(n, "rollback", "user")
    BY FrameIs, Zenon DEF Frame, Unarmed
  <2>3. frames' = <<FrameAt(n, "rollback", "user")>>
    BY <1>8, <2>2 DEF RollbackNamed, GoOn
  <2> QED BY <1>1, <2>1, <2>3, UserStatement
<1> QED BY <1>3, <1>4, <1>5, <1>6, <1>7, <1>8

\* A table write begins.
LEMMA StartStep ==
  ASSUME IInv, NEW rows \in {{}, Rows}, NEW fn, NEW mode, NEW file \in BOOLEAN,
         Start(fn, mode, file, rows),
         \/ fn = "append" /\ mode = "append" /\ ~file
         \/ fn = "write" /\ mode \in {"fail", "overwrite", "append"}
  PROVE  IInv' /\ [Store!Next]_Seen
<1>1. /\ frames = <<>> /\ frames' = <<Frame(fn, "begin", mode)>>
      /\ call' = [fn |-> IF file THEN "file" ELSE fn, mode |-> mode, rows |-> rows]
      /\ before' = db /\ db' = db /\ Flags'
  BY DEF Start, GoOn, IInv, Flags
<1>2. CallOK(call') /\ call'.fn # "other" /\ call'.mode = mode /\ Own(call') = fn
  BY <1>1 DEF CallOK, Own, Modes
<1>3. Frame(fn, "begin", mode) = FrameAt(fn, "begin", mode)
  BY FrameIs, Zenon DEF Frame, Unarmed
<1>4. OwnAt("begin", frames', db', before', call', found')
  BY <1>1, <1>2, <1>3 DEF OwnAt, OwnFacts
<1>5. Control(frames', db', before', call', found') /\ frames' # <<>>
  BY <1>1, <1>4 DEF Control
<1>6. AllOrNothing' /\ FailedCallIsNotDurable'
  BY <1>5 DEF AllOrNothing, FailedCallIsNotDurable, Over
<1>7. IInv'
  BY <1>1, <1>2, <1>5, <1>6 DEF IInv
<1>8. Seen' = Seen
  BY <1>1, SeenIs, SeenOfIs
<1> QED BY <1>7, <1>8

\* A transaction that is gone stays so, whatever others write.
LEMMA ChangedGone ==
  ASSUME NEW b, DbOK(b), NEW c, Whole(c)
  PROVE  Changed(RolledBack(b), c) = RolledBack(Changed(b, c))
<1> DEFINE d == RolledBack(b)
           e == Changed(d, c)
           a == Changed(b, c)
           f == RolledBack(a)
<1>1. DbOK(d) /\ d = [content |-> b.disk, disk |-> b.disk, stack |-> <<>>,
                      begun |-> FALSE, locked |-> FALSE]
  BY RolledBackIs
<1>2. d.stack = <<>> /\ d.begun = FALSE /\ d.locked = FALSE
  BY <1>1
<1>3. /\ DbOK(e) /\ e.content = c /\ e.disk = c /\ e.begun = FALSE /\ e.locked = FALSE
      /\ Len(e.stack) = 0
  BY <1>1, <1>2, ChangedIs
<1>4. DbOK(a) /\ a.disk = c
  BY ChangedIs
<1> HIDE DEF a
<1>5. DbOK(f) /\ f = [content |-> a.disk, disk |-> a.disk, stack |-> <<>>,
                      begun |-> FALSE, locked |-> FALSE]
  BY <1>4, RolledBackIs
<1>6. /\ f.content = c /\ f.disk = c /\ f.stack = <<>> /\ f.begun = FALSE /\ f.locked = FALSE
  BY <1>4, <1>5
<1> HIDE DEF e, f
<1>7. e \in Database /\ f \in Database
  BY <1>3, <1>5 DEF DbOK
<1>8. e.stack = <<>>
  BY <1>3, <1>7 DEF Database
<1>9. e = f
  BY <1>3, <1>6, <1>7, <1>8, SameDatabase
<1> QED BY <1>9 DEF e, f, a

\* Another connection writes.
LEMMA OtherStep ==
  ASSUME IInv, Other
  PROVE  IInv' /\ [Store!Next]_Seen
<1>1. PICK c \in {{}, {Table}} : db' = Changed(db, c) /\ before' = Changed(before, c)
  BY DEF Other
<1>2. /\ ~db.locked /\ frames' = frames /\ found' = found /\ Flags'
      /\ call' = IF frames = <<>> THEN NoCall ELSE call
  BY DEF Other, IInv, Flags
<1>3. DbOK(db) /\ DbOK(before) /\ CallOK(call) /\ Whole(c)
  BY DEF IInv, Whole, Parts
<1>4. /\ DbOK(db') /\ DbOK(before') /\ db'.content = c /\ before'.content = c
      /\ db'.locked = db.locked
  BY <1>1, <1>3, ChangedIs
<1>5. CASE frames = <<>> \/ \E n \in UserNames, pc \in {"rollback", "release"} :
                               UserAt(n, pc, frames, call)
  <2>1. /\ Seen = db /\ call' = NoCall
        /\ \/ frames' = <<>>
           \/ \E n \in UserNames, pc \in {"rollback", "release"} :
                frames' = <<FrameAt(n, pc, "user")>>
    BY <1>2, <1>5, SeenIs, SeenOfIs DEF UserAt
  <2>2. IInv' /\ Seen' = db'
    BY <1>2, <1>4, <2>1, UserMoves
  <2> QED BY <1>1, <1>2, <2>1, <2>2, UserSteps
<1>6. ASSUME Live(frames, call), Control(frames', db', before', call, found'),
             \/ db = before
             \/ \E own : \E n \in {1, 2} : Inside(db, before, own, n)
             \/ db = RolledBack(before)
      PROVE  IInv' /\ [Store!Next]_Seen
  <2>1. frames' # <<>> /\ call' = call /\ Live(frames', call)
    BY <1>2, <1>6, LiveIs
  <2>2. AllOrNothing' /\ FailedCallIsNotDurable'
    BY <2>1 DEF AllOrNothing, FailedCallIsNotDurable, Over
  <2>3. IInv'
    BY <1>2, <1>3, <1>4, <1>6, <2>1, <2>2 DEF IInv
  <2>4. CASE db = before
    <3>1. Seen = db /\ Seen' = db'
      BY <1>1, <2>4, SeenIs, SeenOfIs
    <3> QED BY <1>1, <1>2, <2>3, <3>1, UserSteps
  <2>5. ASSUME NEW own, NEW n \in {1, 2}, Inside(db, before, own, n)
        PROVE  IInv' /\ [Store!Next]_Seen
    <3>1. InTransaction(db) /\ ~before.locked
      BY <1>2, <1>3, <2>5, InsideStays DEF Inside
    <3>2. Inside(db', before', own, n)
      BY <1>1, <1>3, <2>5, ChangedInside
    <3>3. InTransaction(db')
      BY <1>4, <3>2, InsideStays
    <3>4. Seen = before /\ Seen' = before'
      BY <1>3, <1>6, <2>1, <3>1, <3>3, SeenIs, SeenOfIs
    <3> QED BY <1>1, <2>3, <3>1, <3>4, UserSteps
  <2>6. CASE db = RolledBack(before)
    <3>1. db' = RolledBack(before')
      BY <1>1, <1>3, <2>6, ChangedGone
    <3>2. ~InTransaction(db) /\ ~InTransaction(db')
      BY <1>3, <1>4, <2>6, <3>1, RolledBackIs DEF InTransaction
    <3>3. Seen = db /\ Seen' = db'
      BY <3>2, SeenIs, SeenOfIs
    <3> QED BY <1>1, <1>2, <2>3, <3>3, UserSteps
  <2> QED BY <1>6, <2>4, <2>5, <2>6
<1>7. ASSUME NEW own, NEW n \in {1, 2}, Inside(db, before, own, n)
      PROVE  Inside(db', before', own, n)
  BY <1>1, <1>3, <1>7, ChangedInside
<1>8. db = RolledBack(before) => db' = RolledBack(before')
  BY <1>1, <1>3, ChangedGone
<1>9. ASSUME NEW pc, OwnAt(pc, frames, db, before, call, found)
      PROVE  IInv' /\ [Store!Next]_Seen
  <2>1. /\ call.fn # "other" /\ frames = <<FrameAt(Own(call), pc, call.mode)>>
        /\ OwnFacts(pc, db, before, call, found)
    BY <1>9 DEF OwnAt
  <2>2. OwnFacts(pc, db', before', call, found')
    <3>1. CASE pc = "begin" /\ db = before
      BY <1>1, <3>1 DEF OwnFacts
    <3>2. CASE pc = "rollback" /\ (\/ Inside(db, before, Own(call), 1)
                                   \/ Inside(db, before, Own(call), 2)
                                   \/ db = RolledBack(before))
      BY <1>7, <1>8, <3>2 DEF OwnFacts
    <3>3. CASE /\ Inside(db, before, Own(call), 1)
               /\ \/ pc = "exists" /\ call.fn # "append"
                  \/ pc = "insert" /\ call.fn = "append"
                  \/ pc = "release"
      <4>1. Inside(db', before', Own(call), 1)
        BY <1>7, <3>3
      <4> QED BY <1>4, <3>3, <4>1 DEF OwnFacts
    <3> QED BY <1>2, <2>1, <3>1, <3>2, <3>3 DEF OwnFacts
  <2>3. OwnAt(pc, frames', db', before', call, found')
    BY <1>2, <2>1, <2>2 DEF OwnAt
  <2>4. Live(frames, call) /\ Control(frames', db', before', call, found')
    BY <1>9, <2>3, LiveIs DEF Control
  <2>5. \/ db = before
        \/ \E own : \E n \in {1, 2} : Inside(db, before, own, n)
        \/ db = RolledBack(before)
    BY <2>1 DEF OwnFacts
  <2> QED BY <1>6, <2>4, <2>5
<1>10. ASSUME NEW pc, NestedAt(pc, frames, db, before, call)
       PROVE  IInv' /\ [Store!Next]_Seen
  <2>1. /\ \/ pc = "rollback" /\ (Inside(db, before, "write", 2) \/ db = RolledBack(before))
           \/ pc = "release" /\ Inside(db, before, "write", 2)
    BY <1>2, <1>10 DEF NestedAt, NestedFacts
  <2>2. NestedFacts(pc, db', before', call)
    BY <1>7, <1>8, <2>1 DEF NestedFacts
  <2>3. NestedAt(pc, frames', db', before', call)
    BY <1>2, <1>10, <2>2 DEF NestedAt
  <2>4. Live(frames, call) /\ Control(frames', db', before', call, found')
    BY <1>10, <2>3, LiveIs DEF Control
  <2> QED BY <1>6, <2>1, <2>4
<1> QED BY <1>5, <1>9, <1>10 DEF IInv, Control

----------------------------------------------------------------------------
(* The theorems *)

\* IInv holds at the start, where AtomicStore starts too.
LEMMA InitIInv ==
  ASSUME Init
  PROVE  IInv /\ Store!Init
<1>1. PICK c \in {{}, {Table, OldRow}} :
        db = [content |-> c, disk |-> c, stack |-> <<>>, begun |-> FALSE, locked |-> FALSE]
  BY DEF Init
<1>2. frames = <<>> /\ result = "ok" /\ call = NoCall /\ found = FALSE /\ before = db
      /\ unclean = FALSE /\ faults = 0
  BY DEF Init
<1>3. DbOK(db)
  <2>1. <<>> \in Seq(Savepoint) /\ Len(<<>>) = 0
    BY EmptySeq
  <2>2. db \in Database /\ db.content = c /\ db.disk = c /\ db.stack = <<>> /\ ~db.locked
    BY <1>1, <2>1 DEF Database, Parts
  <2> QED BY <2>1, <2>2 DEF DbOK, Whole, Parts
<1>4. CallOK(call) /\ call.fn = "other"
  BY <1>2 DEF CallOK, NoCall, Modes
<1>5. IInv
  BY <1>2, <1>3, <1>4 DEF IInv, Flags, Control, AllOrNothing, FailedCallIsNotDurable, Over
<1>6. Seen = db
  BY <1>2, SeenIs, SeenOfIs
<1>7. Store!Init
  BY <1>1, <1>6 DEF Store!Init, Store!Table, Table
<1> QED BY <1>5, <1>7

\* Every step keeps it, and is a step of AtomicStore or a stutter.
LEMMA NextStep ==
  ASSUME IInv, [Next]_vars
  PROVE  IInv' /\ [Store!Next]_Seen
<1>1. CASE Begin \/ Commit \/ Rollback
           \/ \E n \in UserNames : BeginNamed(n) \/ CommitNamed(n) \/ RollbackNamed(n)
  BY <1>1, UserStatementSteps
<1>2. ASSUME NEW rows \in {{}, Rows}, AppendTable(rows) PROVE IInv' /\ [Store!Next]_Seen
  BY <1>2, StartStep DEF AppendTable
<1>3. ASSUME NEW rows \in {{}, Rows}, NEW mode \in {"fail", "overwrite", "append"},
             NEW file \in BOOLEAN, WriteTable(mode, file, rows)
      PROVE  IInv' /\ [Store!Next]_Seen
  BY <1>3, StartStep DEF WriteTable
<1>4. CASE ImportFile
  <2>1. InsertRows("commit") /\ At("rows") /\ call.fn = "file"
    BY <1>4 DEF ImportFile
  <2> QED BY <2>1, InsertRowsStep
<1>5. CASE Insert
  <2>1. InsertRows("commit") /\ At("insert")
    BY <1>5 DEF Insert
  <2> QED BY <2>1, InsertRowsStep
<1>6. CASE UNCHANGED vars
  <2>1. IInv'
    BY <1>6 DEF vars, IInv, Flags, Control, AllOrNothing, FailedCallIsNotDurable, Over,
       Intended, LeftOpen, InTransaction, Known, OwnAt, NestedAt, UserAt
  <2>2. Seen' = Seen
    BY <1>6, SeenIs DEF vars
  <2> QED BY <2>1, <2>2
<1> QED BY <1>1, <1>2, <1>3, <1>4, <1>5, <1>6, BeginOwnStep, ExistsStep, RemoveTableStep,
           CreateTableStep, NestedAppendStep, CommitOwnStep, RollbackToStep,
           ReleaseRolledBackStep, OtherStep DEF Next

\* The inductive invariant: where each running call is, and what the database is
\* compared with the one the call has begun with.
THEOREM Inductive == Spec => []IInv
<1>1. Init => IInv
  BY InitIInv
<1>2. IInv /\ [Next]_vars => IInv'
  BY NextStep
<1> QED BY <1>1, <1>2, PTL DEF Spec

\* The types of the transaction state, and the depth of the calls, in every
\* state: only dbWriteTable() calls another of these functions.
THEOREM TypeCorrect == Spec => []TypeOK
<1>1. IInv => TypeOK
  <2> SUFFICES ASSUME IInv PROVE TypeOK
    OBVIOUS
  <2> DEFINE s == db.stack
  <2>1. /\ db.content \in SUBSET Parts /\ db.disk \in SUBSET Parts
        /\ s \in Seq(Savepoint)
        /\ db.begun \in BOOLEAN /\ db.locked \in BOOLEAN
    BY DEF IInv, DbOK, Database
  <2>2. /\ {db.content, db.disk} \subseteq SUBSET ({Table, OldRow} \cup Rows)
        /\ {db.begun, db.locked, found, unclean} \subseteq BOOLEAN
        /\ result \in {"ok", "error"}
    BY <2>1 DEF IInv, Flags, Parts
  <2>3. \A k \in DOMAIN s : s[k].name \in Names
    <3> HIDE DEF s
    <3> TAKE k \in DOMAIN s
    <3>1. s[k] \in Savepoint
      BY <2>1
    <3> QED BY <3>1 DEF Savepoint
  <2>4. /\ call.fn \in {"other", "append", "write", "file"}
        /\ call.mode \in Modes /\ call.rows \subseteq Rows
    BY DEF IInv, CallOK
  <2>5. frames = <<>> \/ Len(frames) = 1 \/ (Len(frames) = 2 /\ frames[2].fn = "write")
    <3>1. CASE \E n \in UserNames, pc \in {"rollback", "release"} : UserAt(n, pc, frames, call)
      BY <3>1 DEF UserAt
    <3>2. CASE \E pc : OwnAt(pc, frames, db, before, call, found)
      BY <3>2 DEF OwnAt
    <3>3. CASE \E pc : NestedAt(pc, frames, db, before, call)
      <4>1. PICK pc : frames = <<FrameAt("append", pc, "append"),
                                 FrameAt("write", "commit", call.mode)>>
        BY <3>3 DEF NestedAt
      <4>2. FrameAt("write", "commit", call.mode).fn = "write"
        BY DEF FrameAt
      <4> QED BY <4>1, <4>2
    <3> QED BY <3>1, <3>2, <3>3 DEF IInv, Control
  <2> QED BY <2>2, <2>3, <2>4, <2>5 DEF TypeOK
<1> QED BY <1>1, Inductive, PTL

\* A dbAppendTable() or dbWriteTable() that returns has written all it was to
\* write, and one that fails has changed nothing, or SQLite has rolled back the
\* transaction around it, or the dbCommit() of a dbAppendTable() has failed
\* after on.exit() was disarmed; whatever its rows are, and however many
\* statements fail.
THEOREM WriteIsAllOrNothing == Spec => []AllOrNothing
<1>1. IInv => AllOrNothing
  BY DEF IInv
<1> QED BY <1>1, Inductive, PTL

\* A failed call makes nothing durable, even if its clean-up fails too.
THEOREM FailureIsNotDurable == Spec => []FailedCallIsNotDurable
<1>1. IInv => FailedCallIsNotDurable
  BY DEF IInv
<1> QED BY <1>1, Inductive, PTL

\* What dbExistsTable() found is so when dbWriteTable() acts on it.
THEOREM FoundHolds == Spec => []FoundStaysTrue
<1>1. IInv => FoundStaysTrue
  <2> SUFFICES ASSUME IInv, frames # <<>>, Top.fn = "write"
               PROVE  /\ At("remove") => found /\ Table \in db.content
                      /\ At("create") => Table \notin db.content
                      /\ At("rows") => Table \in db.content
    BY DEF FoundStaysTrue
  <2>1. ASSUME NEW pc \in {"remove", "create", "rows"}, At(pc)
        PROVE  OwnAt(pc, frames, db, before, call, found)
    BY <2>1, AtPlace DEF NestedAt, NestedFacts
  <2>2. At("remove") => found /\ Table \in db.content
    BY <2>1 DEF OwnAt, OwnFacts
  <2>3. At("create") => Table \notin db.content
    BY <2>1 DEF OwnAt, OwnFacts
  <2>4. At("rows") => Table \in db.content
    BY <2>1 DEF OwnAt, OwnFacts, Base
  <2> QED BY <2>2, <2>3, <2>4
<1> QED BY <1>1, Inductive, PTL

\* Every behaviour of the transaction and table functions is one of AtomicStore:
\* the caller of dbAppendTable() or dbWriteTable() sees one step.
THEOREM Refinement == Spec => RefinesStore
<1>1. Init => IInv /\ Store!Init
  BY InitIInv
<1>2. IInv /\ [Next]_vars => [Store!Next]_Seen
  BY NextStep
<1> QED BY <1>1, <1>2, Inductive, PTL DEF Spec, RefinesStore, Store!Spec
=============================================================================
