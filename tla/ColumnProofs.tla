---------------------------- MODULE ColumnProofs ----------------------------
(***************************************************************************)
(* Proofs about Column for every number of rows, every sequence of fetches *)
(* and peeks, every fetch size and capacity: the types of the variables,   *)
(* the chain of storages, the place of each value, the guess of the type,  *)
(* and what a caller is told of values that could not be represented.      *)
(***************************************************************************)
EXTENDS Column, SequenceLemmas

\* CellType() of a column whose DeclType is d.
TypeIn(d, k) == IF d \in AltTypes THEN d ELSE TypeOfKind(k)

StorageRec == [dt : Types, i : Nat, data : Seq(Values), capacity : Nat]

\* A storage never holds more than it has room for; UNKNOWN has no vector.
StorageOK(s) ==
  /\ s \in StorageRec
  /\ Len(s.data) = IF s.i <= s.capacity THEN s.i ELSE s.capacity
  /\ s.dt = "UNKNOWN" <=> s.capacity = 0

\* The storage s holds the rows after b of the cells cs: nulls that were only
\* counted come last, and no value is wider than the storage.
Holds(s, b, cs, d) ==
  \A j \in 1..s.i :
    /\ j > Len(s.data) => cs[b + j] = "null"
    /\ j <= Len(s.data) =>
         s.data[j] = IF cs[b + j] = "null" THEN NA ELSE Fetched(s.dt, b + j, cs[b + j])
    /\ cs[b + j] # "null" => ~Widens(s.dt, TypeIn(d, cs[b + j]))

\* The storages ss hold n rows from f on, storage k those after o[k] of them.
Chain(ss, o, f, n, cs, d) ==
  /\ o[1] = 0 /\ o[Len(ss) + 1] = n
  /\ \A k \in 1..Len(ss) :
       /\ StorageOK(ss[k])
       /\ o[k] \in Nat /\ o[k + 1] = o[k] + ss[k].i /\ o[k + 1] <= n
       /\ Holds(ss[k], (f - 1) + o[k], cs, d)

\* What the last storage of a chain may be, after the others.
Shape(ss) ==
  LET dt == ss[Len(ss)].dt
  IN  /\ \A k \in 1..Len(ss) :
           \/ ss[k].dt = dt
           \/ ss[k].dt = "UNKNOWN" /\ k = 1
           \/ ss[k].dt = "INT" /\ dt \in {"INT64", "REAL"}
      /\ dt = "UNKNOWN" => Len(ss) = 1

----------------------------------------------------------------------------
(* What the operators of Column return *)

\* The larger of two numbers.
LEMMA MaxOfTwo ==
  ASSUME NEW a \in Int, NEW b \in Int
  PROVE  Max({a, b}) \in {a, b} /\ Max({a, b}) >= a /\ Max({a, b}) >= b
<1>1. \E x \in {a, b} : \A y \in {a, b} : x >= y
  OBVIOUS
<1> QED BY <1>1 DEF Max

\* The type by declaration, and that of a cell.
LEMMA DeclTypeIs ==
  ASSUME decl \in Decls
  PROVE  /\ DeclType \in Types /\ DeclType # "UNKNOWN"
         /\ decl = "none" => DeclType = "BOOL"
  BY ConstantsAssumption DEF DeclType, Types, AltTypes

\* Every kind of cell has a type, which no declaration could add to.
LEMMA TypeOfKindIs ==
  /\ \A k \in AllKinds :
       /\ TypeOfKind(k) \in Types \ (AltTypes \cup {"BOOL"})
       /\ TypeOfKind(k) = "UNKNOWN" <=> k = "null"
  /\ TypeOfKind("text") = "STRING" /\ TypeOfKind("blob") = "BLOB"
  BY DEF TypeOfKind, Types, AltTypes, AllKinds

LEMMA CellTypeIs ==
  ASSUME decl \in Decls
  PROVE  \A k \in AllKinds :
           /\ CellType(k) = TypeIn(DeclType, k) /\ CellType(k) \in Types
           /\ k # "null" => CellType(k) # "UNKNOWN"
  BY DeclTypeIs, TypeOfKindIs DEF CellType, TypeIn, AltTypes

\* Of two types one widens to the other if they are integers and a wider number.
LEMMA WidensIs ==
  \A dt, new_dt : Widens(dt, new_dt) <=> dt = "INT" /\ new_dt \in {"INT64", "REAL"}
  BY DEF Widens

\* The kinds one type at a time, and the other way round.
LEMMA KindsOfTypes ==
  /\ TypeOfKind("int") = "INT" /\ TypeOfKind("intmin") = "INT"
  /\ TypeOfKind("long") = "INT64" /\ TypeOfKind("longmin") = "INT64"
  /\ TypeOfKind("real") = "REAL"
  /\ TypeOfKind("text") = "STRING" /\ TypeOfKind("date") = "STRING"
  /\ TypeOfKind("blob") = "BLOB" /\ TypeOfKind("null") = "UNKNOWN"
  BY DEF TypeOfKind

\* The kinds a storage represents exactly, one type at a time.
LEMMA ExactIs ==
  /\ Exact("INT") = {"int"} /\ Exact("INT64") = {"int", "intmin", "long"}
  /\ Exact("REAL") = {"int", "intmin", "longmin", "real"}
  /\ Exact("STRING") = {"text", "date"} /\ Exact("BLOB") = {"blob"}
  BY DEF Exact

\* The kinds that read as NA, one type at a time.
LEMMA UnreadableIs ==
  /\ Unreadable("INT") = {"intmin"} /\ Unreadable("INT64") = {"longmin"}
  /\ Unreadable("REAL") = {} /\ Unreadable("STRING") = {} /\ Unreadable("BLOB") = {}
  BY DEF Unreadable, AltTypes

\* A value that is fetched is a value of its row.
LEMMA FetchedIs ==
  ASSUME NEW dt, NEW r \in 1..MaxRows, NEW k
  PROVE  /\ Fetched(dt, r, k) \in Values
         /\ Fetched(dt, r, k) = NA \/ Fetched(dt, r, k)[1] = r
         /\ Fetched(dt, r, k)[2] # "garbage"
  BY DEF Fetched, Values, NA

\* A storage has its fields, and data only where it has room.
LEMMA StorageIs ==
  ASSUME NEW s, StorageOK(s)
  PROVE  /\ s.dt \in Types /\ s.i \in Nat /\ s.capacity \in Nat /\ s.data \in Seq(Values)
         /\ Len(s.data) \in Nat /\ Len(s.data) <= s.i /\ Len(s.data) <= s.capacity
         /\ s.dt = "UNKNOWN" <=> s.capacity = 0
  BY DEF StorageOK, StorageRec

\* A new storage is empty and, but for UNKNOWN, has room.
LEMMA NewStorageIs ==
  ASSUME NEW dt \in Types, NEW n \in Int, NEW desired \in Int
  PROVE  LET s == NewStorage(dt, n, desired)
         IN  StorageOK(s) /\ s.dt = dt /\ s.i = 0 /\ s.data = <<>>
<1> DEFINE c == IF n < 0 THEN MinCapacity ELSE 1
           m == Max({desired, c})
<1>1. c \in Nat \ {0}
  BY ConstantsAssumption
<1>2. m \in Nat \ {0}
  <2> HIDE DEF c
  <2>1. Max({desired, c}) \in {desired, c} /\ Max({desired, c}) >= c
    BY <1>1, MaxOfTwo
  <2> QED BY <1>1, <2>1
<1>3. NewCapacity(n, desired) = m
  BY DEF NewCapacity
<1> HIDE DEF m
<1> QED BY <1>2, <1>3 DEF NewStorage, StorageOK, StorageRec

\* append_data() fills the storage there is, if it has room and need not be
\* wider, and a new one otherwise.
LEMMA TargetIs ==
  ASSUME NEW s, StorageOK(s), NEW dt \in Types \ {"UNKNOWN"}, n_max \in Int
  PROVE  LET t == Target(s, dt)
         IN  /\ StorageOK(t) /\ t.i < t.capacity
             /\ \/ t = s /\ s.dt # "UNKNOWN" /\ ~Widens(s.dt, dt)
                \/ t.i = 0 /\ t.data = <<>>
             /\ t.dt = IF s.dt = "UNKNOWN" \/ Widens(s.dt, dt) THEN dt ELSE s.dt
<1>1. /\ s.dt \in Types /\ s.i \in Nat /\ s.capacity \in Nat
      /\ s.data \in Seq(Values) /\ Len(s.data) \in Nat
  BY DEF StorageOK, StorageRec
<1>2. ASSUME NEW r, StorageOK(r) PROVE Desired(r) \in Int
  <2>1. r.i \in Nat /\ r.capacity \in Nat
    BY <1>2 DEF StorageOK, StorageRec
  <2> QED BY <2>1 DEF Desired
<1> DEFINE same == NewStorage(s.dt, n_max, Desired(s))
<1>3. StorageOK(same) /\ same.dt = s.dt /\ same.i = 0 /\ same.data = <<>>
  BY <1>1, <1>2, NewStorageIs
<1>4. ASSUME NEW r, StorageOK(r)
      PROVE  LET new == NewStorage(dt, n_max, Desired(r))
             IN  StorageOK(new) /\ new.dt = dt /\ new.i = 0 /\ new.data = <<>>
  BY <1>2, <1>4, NewStorageIs
<1>5. ASSUME NEW t, StorageOK(t), t.i = 0, t.data = <<>>, t.dt # "UNKNOWN"
      PROVE  t.i < t.capacity
  <2>1. t.capacity \in Nat /\ t.capacity # 0
    BY <1>5 DEF StorageOK, StorageRec
  <2> QED BY <1>5, <2>1
<1>6. CASE s.dt = "UNKNOWN"
  <2> DEFINE t == NewStorage(dt, n_max, Desired(s))
  <2>1. Target(s, dt) = t
    BY <1>6 DEF Target
  <2>2. StorageOK(t) /\ t.dt = dt /\ t.i = 0 /\ t.data = <<>>
    BY <1>4
  <2> HIDE DEF t
  <2> QED BY <1>5, <1>6, <2>1, <2>2
<1>7. CASE s.dt # "UNKNOWN" /\ s.i >= s.capacity /\ Widens(s.dt, dt)
  <2> DEFINE t == NewStorage(dt, n_max, Desired(same))
  <2>1. Target(s, dt) = t
    BY <1>7 DEF Target
  <2>2. StorageOK(t) /\ t.dt = dt /\ t.i = 0 /\ t.data = <<>>
    <3> HIDE DEF same
    <3> QED BY <1>3, <1>4
  <2> HIDE DEF t
  <2> QED BY <1>5, <1>7, <2>1, <2>2
<1>8. CASE s.dt # "UNKNOWN" /\ s.i >= s.capacity /\ ~Widens(s.dt, dt)
  <2>1. Target(s, dt) = same
    BY <1>8 DEF Target
  <2> HIDE DEF same
  <2> QED BY <1>3, <1>5, <1>8, <2>1
<1>9. CASE s.dt # "UNKNOWN" /\ s.i < s.capacity /\ Widens(s.dt, dt)
  <2> DEFINE t == NewStorage(dt, n_max, Desired(s))
  <2>1. Target(s, dt) = t
    BY <1>1, <1>9 DEF Target
  <2>2. StorageOK(t) /\ t.dt = dt /\ t.i = 0 /\ t.data = <<>>
    BY <1>4
  <2> HIDE DEF t
  <2> QED BY <1>5, <1>9, <2>1, <2>2
<1>10. CASE s.dt # "UNKNOWN" /\ s.i < s.capacity /\ ~Widens(s.dt, dt)
  <2>1. Target(s, dt) = s
    BY <1>1, <1>10 DEF Target
  <2> QED BY <1>1, <1>10, <2>1
<1> QED BY <1>1, <1>6, <1>7, <1>8, <1>9, <1>10

----------------------------------------------------------------------------
(* One more value in a chain *)

\* The cell is the current row's, or a blob that a peek has read as text.
CellIsRow ==
  /\ cells \in Seq(Kinds) /\ Row \in 1..MaxRows
  /\ cell = cells[Row] \/ (cell = "text" /\ cells[Row] = "blob")

\* The type of the last storage after a value of type dt.
Widened(old, dt) == IF old = "UNKNOWN" \/ Widens(old, dt) THEN dt ELSE old

\* EXCEPT on a storage, field by field.
LEMMA StorageExcept ==
  ASSUME NEW a, NEW b, NEW c, NEW e, NEW x, NEW y
  PROVE  [[dt |-> a, i |-> b, data |-> c, capacity |-> e] EXCEPT !.i = x, !.data = y]
           = [dt |-> a, i |-> x, data |-> y, capacity |-> e]
<1> DEFINE s == [dt |-> a, i |-> b, data |-> c, capacity |-> e]
           t == [dt |-> a, i |-> x, data |-> c, capacity |-> e]
<1>1. [s EXCEPT !.i = x, !.data = y] = [[s EXCEPT !.i = x] EXCEPT !.data = y]
  OBVIOUS
<1>2. [s EXCEPT !.i = x] = t
  OBVIOUS
<1>3. [t EXCEPT !.data = y] = [dt |-> a, i |-> x, data |-> y, capacity |-> e]
  OBVIOUS
<1> HIDE DEF t
<1>4. [s EXCEPT !.i = x, !.data = y] = [dt |-> a, i |-> x, data |-> y, capacity |-> e]
  BY <1>1, <1>2, <1>3, Zenon
<1> QED BY <1>4, Zenon DEF s

\* Filling a storage with a value, or with a null.
LEMMA Filled ==
  ASSUME NEW t, StorageOK(t), NEW v \in Values, t.i < t.capacity
  PROVE  LET u == WithValue(t, v)
         IN  /\ StorageOK(u) /\ u.dt = t.dt /\ u.i = t.i + 1
             /\ Len(t.data) = t.i /\ Len(u.data) = t.i + 1 /\ u.data[t.i + 1] = v
             /\ \A j \in 1..t.i : u.data[j] = t.data[j]
<1>1. /\ t.dt \in Types /\ t.i \in Nat /\ t.capacity \in Nat
      /\ t.data \in Seq(Values) /\ Len(t.data) = t.i
      /\ t = [dt |-> t.dt, i |-> t.i, data |-> t.data, capacity |-> t.capacity]
  BY DEF StorageOK, StorageRec
<1> DEFINE e == Append(t.data, v)
<1>2. /\ e \in Seq(Values) /\ Len(e) = t.i + 1 /\ e[t.i + 1] = v
      /\ \A j \in 1..t.i : e[j] = t.data[j]
  BY <1>1
<1> HIDE DEF e
<1>3. WithValue(t, v) = [dt |-> t.dt, i |-> t.i + 1, data |-> e, capacity |-> t.capacity]
  <2>1. WithValue(t, v) = [t EXCEPT !.i = t.i + 1, !.data = e]
    BY DEF WithValue, e
  <2>2. [t EXCEPT !.i = t.i + 1, !.data = e]
        = [[dt |-> t.dt, i |-> t.i, data |-> t.data, capacity |-> t.capacity]
              EXCEPT !.i = t.i + 1, !.data = e]
    BY <1>1, Zenon
  <2> QED BY <2>1, <2>2, StorageExcept, Zenon
<1> QED BY <1>1, <1>2, <1>3 DEF StorageOK, StorageRec

\* or with a null, which is only counted once the storage has no room.
LEMMA FilledWithNull ==
  ASSUME NEW s, StorageOK(s)
  PROVE  LET u == WithNull(s)
         IN  /\ StorageOK(u) /\ u.dt = s.dt /\ u.i = s.i + 1
             /\ Len(u.data) \in {Len(s.data), s.i + 1}
             /\ Len(u.data) = s.i + 1 => u.data[s.i + 1] = NA
             /\ Len(u.data) = s.i + 1 => Len(s.data) = s.i
             /\ Len(u.data) # s.i + 1 => Len(u.data) = Len(s.data)
             /\ \A j \in 1..Len(s.data) : u.data[j] = s.data[j]
<1>1. /\ s.dt \in Types /\ s.i \in Nat /\ s.capacity \in Nat /\ NA \in Values
      /\ s.data \in Seq(Values) /\ Len(s.data) \in Nat
      /\ Len(s.data) = IF s.i <= s.capacity THEN s.i ELSE s.capacity
      /\ s = [dt |-> s.dt, i |-> s.i, data |-> s.data, capacity |-> s.capacity]
  BY DEF StorageOK, StorageRec, Values
<1>2. CASE s.i < s.capacity
  <2>1. WithNull(s) = WithValue(s, NA)
    BY <1>1, <1>2 DEF WithNull, WithValue
  <2> QED BY <1>1, <1>2, <2>1, Filled
<1>3. CASE ~(s.i < s.capacity)
  <2>1. WithNull(s) = [dt |-> s.dt, i |-> s.i + 1, data |-> s.data, capacity |-> s.capacity]
    <3>1. WithNull(s) = [s EXCEPT !.i = s.i + 1, !.data = s.data]
      BY <1>3 DEF WithNull
    <3>2. [s EXCEPT !.i = s.i + 1, !.data = s.data]
          = [[dt |-> s.dt, i |-> s.i, data |-> s.data, capacity |-> s.capacity]
                EXCEPT !.i = s.i + 1, !.data = s.data]
      BY <1>1, Zenon
    <3> QED BY <3>1, <3>2, StorageExcept, Zenon
  <2> QED BY <1>1, <1>3, <2>1 DEF StorageOK, StorageRec
<1> QED BY <1>2, <1>3

\* set_col_value() changes the last storage, which then holds a row more,
LEMMA GrowsInPlace ==
  ASSUME NEW ss, ss \in Seq(StorageRec), ss # <<>>, NEW u, StorageOK(u),
         NEW o, NEW f \in Nat, NEW n \in Nat, NEW cs, NEW d, Chain(ss, o, f, n, cs, d),
         u.i = ss[Len(ss)].i + 1, Holds(u, (f - 1) + o[Len(ss)], cs, d)
  PROVE  LET rs == [ss EXCEPT ![Len(ss)] = u]
         IN  /\ rs \in Seq(StorageRec) /\ rs # <<>> /\ rs[Len(rs)] = u
             /\ \E p : Chain(rs, p, f, n + 1, cs, d)
<1> DEFINE m == Len(ss)
<1>1. m \in Nat \ {0} /\ u \in StorageRec /\ u.i \in Nat
  BY DEF StorageOK, StorageRec
<1>2. /\ o[1] = 0 /\ o[m + 1] = n
      /\ \A k \in 1..m : /\ StorageOK(ss[k]) /\ o[k] \in Nat /\ o[k + 1] = o[k] + ss[k].i
                         /\ o[k + 1] <= n /\ Holds(ss[k], (f - 1) + o[k], cs, d)
  BY DEF Chain
<1>3. /\ m \in 1..m /\ o[m] \in Nat /\ n = o[m] + ss[m].i
      /\ \A k \in 1..m : o[k] \in Nat
      /\ ss[m].i \in Nat
  <2>1. m \in 1..m
    BY <1>1
  <2>2. StorageOK(ss[m]) /\ o[m] \in Nat /\ o[m + 1] = o[m] + ss[m].i
    BY <1>2, <2>1, Zenon
  <2>3. ss[m].i \in Nat
    BY <2>2 DEF StorageOK, StorageRec
  <2> QED BY <1>2, <2>1, <2>2, <2>3, Zenon
<1> DEFINE rs == [ss EXCEPT ![m] = u]
           p == [k \in 1..m + 1 |-> IF k = m + 1 THEN n + 1 ELSE o[k]]
<1>4. /\ rs \in Seq(StorageRec) /\ Len(rs) = m /\ rs[m] = u
      /\ \A k \in 1..m : k # m => rs[k] = ss[k]
  BY <1>1
<1>5. p[m + 1] = n + 1 /\ \A k \in 1..m : p[k] = o[k]
  BY <1>1
<1> HIDE DEF p, rs
<1>6. ASSUME NEW k \in 1..m
      PROVE  /\ StorageOK(rs[k]) /\ p[k] \in Nat /\ p[k + 1] = p[k] + rs[k].i
             /\ p[k + 1] <= n + 1 /\ Holds(rs[k], (f - 1) + p[k], cs, d)
  <2>1. CASE k = m
    <3>1. rs[k] = u /\ p[k] = o[m] /\ p[k + 1] = n + 1
      BY <1>3, <1>4, <1>5, <2>1, Zenon
    <3>2. n + 1 = o[m] + u.i
      <4>1. PICK a \in Nat, d0 \in Nat : a = o[m] /\ d0 = ss[m].i
        BY <1>3, Zenon
      <4>3. n = a + d0 /\ u.i = d0 + 1
        BY <1>3, <4>1, Zenon
      <4>2. n + 1 = a + (d0 + 1)
        BY <4>3
      <4> QED BY <4>1, <4>2, <4>3, Zenon
    <3>3. n + 1 <= n + 1
      OBVIOUS
    <3> QED BY <1>3, <3>1, <3>2, <3>3, Zenon
  <2>2. CASE k # m
    <3>1. rs[k] = ss[k] /\ k + 1 \in 1..m /\ p[k + 1] = o[k + 1] /\ p[k] = o[k]
      BY <1>1, <1>4, <1>5, <2>2
    <3>2. o[k + 1] \in Nat /\ o[k + 1] <= n
      BY <1>2, <1>3, <2>2, <3>1
    <3>3. o[k + 1] <= n + 1
      BY <3>2
    <3> QED BY <1>2, <3>1, <3>3, Zenon
  <2> QED BY <2>1, <2>2
<1>7. p[1] = 0
  BY <1>1, <1>2, <1>5
<1>8. Chain(rs, p, f, n + 1, cs, d)
  BY <1>4, <1>5, <1>6, <1>7 DEF Chain
<1>9. rs \in Seq(StorageRec) /\ rs # <<>> /\ rs[Len(rs)] = u
  BY <1>1, <1>4
<1> QED BY <1>8, <1>9, Zenon DEF rs

\* or opens a storage after it.
LEMMA GrowsByOne ==
  ASSUME NEW ss, ss \in Seq(StorageRec), ss # <<>>, NEW u, StorageOK(u),
         NEW o, NEW f \in Nat, NEW n \in Nat, NEW cs, NEW d, Chain(ss, o, f, n, cs, d),
         u.i = 1, Holds(u, (f - 1) + n, cs, d)
  PROVE  LET rs == Append(ss, u)
         IN  /\ rs \in Seq(StorageRec) /\ rs # <<>> /\ rs[Len(rs)] = u
             /\ \E p : Chain(rs, p, f, n + 1, cs, d)
<1> DEFINE m == Len(ss)
<1>1. m \in Nat \ {0} /\ u \in StorageRec /\ u.i \in Nat
  BY DEF StorageOK, StorageRec
<1>2. /\ o[1] = 0 /\ o[m + 1] = n
      /\ \A k \in 1..m : /\ StorageOK(ss[k]) /\ o[k] \in Nat /\ o[k + 1] = o[k] + ss[k].i
                         /\ o[k + 1] <= n /\ Holds(ss[k], (f - 1) + o[k], cs, d)
  BY DEF Chain
<1>3. /\ m \in 1..m /\ o[m] \in Nat /\ n = o[m] + ss[m].i
      /\ \A k \in 1..m : o[k] \in Nat
      /\ ss[m].i \in Nat
  <2>1. m \in 1..m
    BY <1>1
  <2>2. StorageOK(ss[m]) /\ o[m] \in Nat /\ o[m + 1] = o[m] + ss[m].i
    BY <1>2, <2>1, Zenon
  <2>3. ss[m].i \in Nat
    BY <2>2 DEF StorageOK, StorageRec
  <2> QED BY <1>2, <2>1, <2>2, <2>3, Zenon
<1> DEFINE rs == Append(ss, u)
           p == [k \in 1..m + 2 |-> IF k = m + 2 THEN n + 1 ELSE o[k]]
<1>4. /\ rs \in Seq(StorageRec) /\ Len(rs) = m + 1 /\ rs[m + 1] = u
      /\ \A k \in 1..m : rs[k] = ss[k]
  BY <1>1
<1>5. p[m + 2] = n + 1 /\ \A k \in 1..m + 1 : p[k] = o[k]
  BY <1>1
<1> HIDE DEF p, rs
<1>6. ASSUME NEW k \in 1..m + 1
      PROVE  /\ StorageOK(rs[k]) /\ p[k] \in Nat /\ p[k + 1] = p[k] + rs[k].i
             /\ p[k + 1] <= n + 1 /\ Holds(rs[k], (f - 1) + p[k], cs, d)
  <2>1. CASE k = m + 1
    <3>1. m + 1 \in 1..m + 1 /\ k + 1 = m + 2
      BY <1>1, <2>1
    <3>2. rs[k] = u /\ p[k] = n /\ p[k + 1] = n + 1
      BY <1>2, <1>4, <1>5, <2>1, <3>1, Zenon
    <3>3. n + 1 = n + u.i /\ n + 1 <= n + 1
      OBVIOUS
    <3> QED BY <3>2, <3>3, Zenon
  <2>2. CASE k # m + 1
    <3>1. k \in 1..m /\ rs[k] = ss[k] /\ p[k + 1] = o[k + 1] /\ p[k] = o[k]
      BY <1>1, <1>4, <1>5, <2>2
    <3>2. o[k + 1] \in Nat /\ o[k + 1] <= n
      <4>1. k + 1 = m + 1 \/ k + 1 \in 1..m
        BY <1>1, <3>1
      <4> HIDE DEF m
      <4> QED BY <1>2, <1>3, <3>1, <4>1
    <3>3. o[k + 1] <= n + 1
      BY <3>2
    <3> QED BY <1>2, <3>1, <3>3, Zenon
  <2> QED BY <2>1, <2>2
<1>7. p[1] = 0 /\ Len(rs) + 1 = m + 2
  BY <1>1, <1>2, <1>4, <1>5
<1>8. Chain(rs, p, f, n + 1, cs, d)
  BY <1>1, <1>4, <1>5, <1>6, <1>7 DEF Chain
<1>9. rs \in Seq(StorageRec) /\ rs # <<>> /\ rs[Len(rs)] = u
  BY <1>1, <1>4
<1> QED BY <1>8, <1>9, Zenon DEF rs

\* A storage that holds rows holds one more when it is filled accordingly.
LEMMA HoldsOneMore ==
  ASSUME NEW s, NEW u, NEW b \in Int, NEW cs, NEW d, Holds(s, b, cs, d),
         s.i \in Nat, u.i = s.i + 1, u.dt = s.dt, Len(s.data) \in Nat, Len(s.data) <= s.i,
         \A j \in 1..Len(s.data) : u.data[j] = s.data[j],
         LET k == cs[b + u.i]
         IN  /\ \/ Len(u.data) = Len(s.data) /\ k = "null"
                \/ /\ Len(u.data) = u.i /\ Len(s.data) = s.i
                   /\ u.data[u.i] = IF k = "null" THEN NA ELSE Fetched(u.dt, b + u.i, k)
             /\ k # "null" => ~Widens(u.dt, TypeIn(d, k))
  PROVE  Holds(u, b, cs, d)
<1> SUFFICES ASSUME NEW j \in 1..u.i
             PROVE  /\ j > Len(u.data) => cs[b + j] = "null"
                    /\ j <= Len(u.data) =>
                         u.data[j] = IF cs[b + j] = "null" THEN NA
                                     ELSE Fetched(u.dt, b + j, cs[b + j])
                    /\ cs[b + j] # "null" => ~Widens(u.dt, TypeIn(d, cs[b + j]))
  BY DEF Holds
<1>1. CASE j = u.i
  BY <1>1
<1>2. CASE j # u.i
  <2>1. j \in 1..s.i
    BY <1>2
  <2>2. /\ j > Len(s.data) => cs[b + j] = "null"
        /\ j <= Len(s.data) =>
             s.data[j] = IF cs[b + j] = "null" THEN NA ELSE Fetched(s.dt, b + j, cs[b + j])
        /\ cs[b + j] # "null" => ~Widens(s.dt, TypeIn(d, cs[b + j]))
    BY <2>1 DEF Holds
  <2>3. j <= Len(u.data) <=> j <= Len(s.data)
    BY <2>1
  <2>4. j <= Len(s.data) => u.data[j] = s.data[j]
    BY <2>1
  <2>5. j > Len(u.data) => j > Len(s.data)
    BY <2>1
  <2> QED BY <2>2, <2>3, <2>4, <2>5, Zenon
<1> QED BY <1>1, <1>2

\* set_col_value(): the chain holds the current row as well, and its last
\* storage is as wide as the value needs.
LEMMA SetColValueGrows ==
  ASSUME NEW ss, ss \in Seq(StorageRec), ss # <<>>, NEW o, NEW f \in Nat, NEW n \in Nat,
         Chain(ss, o, f, n, cells, DeclType), Shape(ss), decl \in Decls, n_max \in Int,
         CellIsRow, Row = f + n, cell # cells[Row] => ss[Len(ss)].dt = "STRING"
  PROVE  LET rs == SetColValue(ss)
             dt == ss[Len(ss)].dt
         IN  /\ rs \in Seq(StorageRec) /\ rs # <<>> /\ Shape(rs) /\ rs[1].dt = ss[1].dt
             /\ \E p : Chain(rs, p, f, n + 1, cells, DeclType)
             /\ rs[Len(rs)].dt = IF cell = "null" THEN dt ELSE Widened(dt, CellType(cell))
<1> DEFINE m == Len(ss)
           s == ss[m]
           d == DeclType
           b == (f - 1) + o[m]
           rs == SetColValue(ss)
<1>1. /\ m \in Nat \ {0} /\ m \in 1..m /\ StorageOK(s) /\ o[m] \in Nat /\ n = o[m] + s.i
      /\ Holds(s, b, cells, d)
  <2>1. m \in Nat \ {0} /\ m \in 1..m
    OBVIOUS
  <2>2. StorageOK(s) /\ o[m] \in Nat /\ o[m + 1] = o[m] + s.i /\ Holds(s, b, cells, d)
    BY <2>1, Zenon DEF Chain
  <2>3. o[m + 1] = n
    BY Zenon DEF Chain
  <2> QED BY <2>1, <2>2, <2>3, Zenon
<1>2. /\ s.i \in Nat /\ Len(s.data) \in Nat /\ Len(s.data) <= s.i /\ s.dt \in Types
  BY <1>1 DEF StorageOK, StorageRec
<1>3. /\ cells[Row] \in AllKinds /\ cell \in AllKinds
      /\ b + (s.i + 1) = Row /\ ((f - 1) + n) + 1 = Row /\ Row \in 1..MaxRows
      /\ b \in Int /\ (f - 1) + n \in Int
  <2>1. cells[Row] \in AllKinds /\ Row \in 1..MaxRows
    BY ConstantsAssumption DEF CellIsRow, Row
  <2>2. b + (s.i + 1) = Row /\ ((f - 1) + n) + 1 = Row /\ b \in Int
    <3>1. o[m] \in Nat /\ n = o[m] + s.i /\ s.i \in Nat
      BY <1>1, <1>2
    <3> DEFINE x == o[m]
               y == s.i
    <3>2. b = (f - 1) + x /\ x \in Nat /\ n = x + y /\ y \in Nat
      BY <3>1
    <3> HIDE DEF x, y, b
    <3>3. b + (y + 1) = Row /\ ((f - 1) + n) + 1 = Row /\ b \in Int
      BY <3>2
    <3> QED BY <3>3 DEF y
  <2> HIDE DEF b, s
  <2> QED BY <2>1, <2>2 DEF CellIsRow, AllKinds
<1>4. CASE cell = "null"
  <2> DEFINE u == WithNull(s)
  <2>1. rs = [ss EXCEPT ![m] = u]
    BY <1>4 DEF SetColValue
  <2>2. cells[Row] = "null"
    BY <1>4 DEF CellIsRow
  <2>3. /\ StorageOK(u) /\ u.dt = s.dt /\ u.i = s.i + 1
        /\ Len(u.data) \in {Len(s.data), s.i + 1}
        /\ Len(u.data) = s.i + 1 => u.data[s.i + 1] = NA
        /\ Len(u.data) = s.i + 1 => Len(s.data) = s.i
        /\ Len(u.data) # s.i + 1 => Len(u.data) = Len(s.data)
        /\ \A j \in 1..Len(s.data) : u.data[j] = s.data[j]
    <3> HIDE DEF s
    <3> QED BY <1>1, FilledWithNull
  <2>4. b + u.i = Row
    BY <1>3, <2>3
  <2> HIDE DEF s, b, u, m, rs
  <2>5. Holds(u, b, cells, d)
    BY <1>1, <1>2, <1>3, <2>2, <2>3, <2>4, HoldsOneMore
  <2>6. /\ rs \in Seq(StorageRec) /\ rs # <<>> /\ rs[Len(rs)] = u
        /\ \E p : Chain(rs, p, f, n + 1, cells, d)
    <3>1. StorageOK(u) /\ u.i = s.i + 1
      BY <2>3
    <3> QED BY <2>1, <3>1, <2>5, GrowsInPlace DEF m, s, b
  <2>7. /\ Len(rs) = m /\ \A k \in 1..m : rs[k].dt = ss[k].dt
    <3>1. m = Len(ss)
      BY DEF m
    <3>2. \A k \in 1..m : rs[k] = IF k = m THEN u ELSE ss[k]
      BY <2>1, <3>1
    <3>3. Len(rs) = m
      BY <2>1, <3>1
    <3> QED BY <2>3, <3>2, <3>3 DEF s
  <2>8. Shape(rs) /\ rs[1].dt = ss[1].dt
    BY <1>1, <2>7 DEF Shape, m
  <2> QED BY <1>4, <2>3, <2>6, <2>8 DEF rs, s, m
<1>5. CASE cell # "null"
  <2> DEFINE dt == CellType(cell)
             t == Target(s, dt)
             v == Fetched(t.dt, Row, cells[Row])
             u == WithValue(t, v)
  <2>1. rs = IF t = s THEN [ss EXCEPT ![m] = u] ELSE Append(ss, u)
    BY <1>5 DEF SetColValue
  <2>2. cells[Row] # "null"
    BY <1>5 DEF CellIsRow
  <2>3. dt \in Types \ {"UNKNOWN"} /\ dt = TypeIn(d, cell)
    BY <1>3, <1>5, CellTypeIs
  <2>4. /\ StorageOK(t) /\ t.i < t.capacity
        /\ t = s \/ (t.i = 0 /\ t.data = <<>>)
        /\ t.dt = IF s.dt = "UNKNOWN" \/ Widens(s.dt, dt) THEN dt ELSE s.dt
    <3> HIDE DEF s, dt
    <3> QED BY <1>1, <2>3, TargetIs
  <2>5. v \in Values
    BY <1>3, FetchedIs
  <2>6. /\ StorageOK(u) /\ u.dt = t.dt /\ u.i = t.i + 1
        /\ Len(t.data) = t.i /\ Len(u.data) = t.i + 1 /\ u.data[t.i + 1] = v
        /\ \A j \in 1..t.i : u.data[j] = t.data[j]
    <3> HIDE DEF t, v
    <3> QED BY <2>4, <2>5, Filled
  <2>7. t.i \in Nat /\ t.dt = Widened(s.dt, dt)
    BY <2>4 DEF StorageOK, StorageRec, Widened
  <2>8. ~Widens(t.dt, TypeIn(d, cells[Row]))
    <3>1. CASE cell = cells[Row]
      BY <2>3, <2>4, <3>1, WidensIs
    <3>2. CASE cell # cells[Row]
      <4>1. s.dt = "STRING"
        BY <3>2
      <4> QED BY <2>4, <4>1, WidensIs
    <3> QED BY <3>1, <3>2
  <2> HIDE DEF s, b, u, m, rs, t, dt, d
  <2>9. CASE t = s
    <3>1. b + u.i = Row
      BY <1>3, <2>6, <2>9
    <3>2. Holds(u, b, cells, d)
      BY <1>1, <1>2, <1>3, <2>2, <2>6, <2>8, <2>9, <3>1, HoldsOneMore
    <3>3. rs = [ss EXCEPT ![m] = u]
      BY <2>1, <2>9
    <3>4. /\ rs \in Seq(StorageRec) /\ rs # <<>> /\ rs[Len(rs)] = u
          /\ \E p : Chain(rs, p, f, n + 1, cells, d)
      <4>1. StorageOK(u) /\ u.i = s.i + 1
        BY <2>6, <2>9
      <4> QED BY <4>1, <3>2, <3>3, GrowsInPlace DEF m, s, b, d
    <3>5. /\ Len(rs) = m /\ \A k \in 1..m : rs[k].dt = ss[k].dt
      <4>1. m = Len(ss)
        BY DEF m
      <4>2. \A k \in 1..m : rs[k] = IF k = m THEN u ELSE ss[k]
        BY <3>3, <4>1
      <4>3. Len(rs) = m
        BY <3>3, <4>1
      <4> QED BY <2>6, <2>9, <4>2, <4>3 DEF s
    <3>6. Shape(rs) /\ rs[1].dt = ss[1].dt
      BY <1>1, <3>5 DEF Shape, m
    <3> QED BY <1>5, <2>6, <2>7, <3>4, <3>6 DEF rs, s, m, d, dt
  <2>10. CASE t # s
    <3> DEFINE c == (f - 1) + n
    <3>1. t.i = 0 /\ t.data = <<>> /\ Len(t.data) = 0
      BY <2>4, <2>10
    <3>2. c + u.i = Row /\ c \in Int /\ u.i = 1
      BY <1>3, <2>6, <3>1
    <3>3. Holds(t, c, cells, d)
      BY <3>1 DEF Holds
    <3> HIDE DEF c
    <3>4. Holds(u, c, cells, d)
      <4>1. /\ u.i = t.i + 1 /\ u.dt = t.dt /\ t.i = 0 /\ Len(t.data) = 0
            /\ Len(u.data) = u.i /\ u.data[u.i] = v
        BY <2>6, <3>1
      <4>2. v = Fetched(u.dt, c + u.i, cells[c + u.i])
        BY <3>2, <4>1
      <4>3. cells[c + u.i] # "null" /\ ~Widens(u.dt, TypeIn(d, cells[c + u.i]))
        BY <2>2, <2>8, <3>2, <4>1
      <4> HIDE DEF v
      <4>4. t.i \in Nat /\ Len(t.data) \in Nat /\ Len(t.data) <= t.i /\ Len(t.data) = t.i
        BY <4>1
      <4>5. \A j \in 1..Len(t.data) : u.data[j] = t.data[j]
        BY <4>1
      <4>6. u.data[u.i] = IF cells[c + u.i] = "null" THEN NA
                          ELSE Fetched(u.dt, c + u.i, cells[c + u.i])
        BY <4>1, <4>2, <4>3, Zenon
      <4>7. u.i = t.i + 1 /\ u.dt = t.dt /\ Len(u.data) = u.i
        BY <4>1
      <4> QED BY <3>2, <3>3, <4>3, <4>4, <4>5, <4>6, <4>7, HoldsOneMore, Zenon
    <3>5. rs = Append(ss, u)
      BY <2>1, <2>10
    <3>6. /\ rs \in Seq(StorageRec) /\ rs # <<>> /\ rs[Len(rs)] = u
          /\ \E p : Chain(rs, p, f, n + 1, cells, d)
      BY <2>6, <3>2, <3>4, <3>5, GrowsByOne, Zenon DEF c, d
    <3>7. /\ Len(rs) = m + 1 /\ rs[m + 1] = u /\ \A k \in 1..m : rs[k] = ss[k]
      <4>1. m = Len(ss)
        BY DEF m
      <4>2. u \in StorageRec
        BY <2>6 DEF StorageOK
      <4> QED BY <3>5, <4>1, <4>2
    <3>8. /\ u.dt # "UNKNOWN"
          /\ u.dt = s.dt \/ s.dt = "UNKNOWN" \/ (s.dt = "INT" /\ u.dt \in {"INT64", "REAL"})
      BY <2>3, <2>4, <2>6, WidensIs
    <3>9. Shape(rs) /\ rs[1].dt = ss[1].dt
      <4>1. \A k \in 1..m : \/ ss[k].dt = s.dt
                            \/ ss[k].dt = "UNKNOWN" /\ k = 1
                            \/ ss[k].dt = "INT" /\ s.dt \in {"INT64", "REAL"}
        BY Zenon DEF Shape, m, s
      <4>2. s.dt = "UNKNOWN" => m = 1
        BY Zenon DEF Shape, m, s
      <4> QED BY <1>1, <3>7, <3>8, <4>1, <4>2 DEF Shape
    <3> QED BY <1>5, <2>6, <2>7, <3>6, <3>9 DEF rs, s, m, d, dt
  <2> QED BY <2>9, <2>10
<1> QED BY <1>4, <1>5

\* The type of the last storage, whether or not the cell is one of the chain.
LEMMA SetColValueType ==
  ASSUME NEW s, StorageOK(s), decl \in Decls, n_max \in Int, cell \in AllKinds
  PROVE  LET rs == SetColValue(<<s>>)
         IN  /\ Len(rs) \in Nat \ {0}
             /\ rs[Len(rs)].dt = IF cell = "null" THEN s.dt ELSE Widened(s.dt, CellType(cell))
<1> DEFINE t == Target(s, CellType(cell))
           u == WithValue(t, Fetched(t.dt, Row, cells[Row]))
           w == WithNull(s)
<1>1. w.dt = s.dt
  BY FilledWithNull
<1>2. CASE cell = "null"
  <2>1. SetColValue(<<s>>) = [<<s>> EXCEPT ![1] = w]
    BY <1>2 DEF SetColValue
  <2> HIDE DEF w
  <2>2. SetColValue(<<s>>) = <<w>>
    BY <2>1
  <2> QED BY <1>1, <1>2, <2>2
<1>3. CASE cell # "null"
  <2>1. CellType(cell) \in Types \ {"UNKNOWN"}
    BY <1>3, CellTypeIs
  <2>2. StorageOK(t) /\ t.dt = Widened(s.dt, CellType(cell))
    <3>1. Target(s, CellType(cell)).dt = Widened(s.dt, CellType(cell))
      BY <2>1, TargetIs DEF Widened
    <3>2. StorageOK(t)
      BY <2>1, TargetIs
    <3> QED BY <3>1, <3>2
  <2> HIDE DEF t
  <2>3. u.dt = t.dt
    <3>1. t = [dt |-> t.dt, i |-> t.i, data |-> t.data, capacity |-> t.capacity]
      BY <2>2 DEF StorageOK, StorageRec
    <3> QED BY <3>1 DEF WithValue
  <2>4. SetColValue(<<s>>) = IF t = s THEN [<<s>> EXCEPT ![1] = u] ELSE Append(<<s>>, u)
    BY <1>3 DEF SetColValue, t
  <2> HIDE DEF u
  <2> DEFINE rs == SetColValue(<<s>>)
  <2>5. Len(rs) \in Nat \ {0} /\ rs[Len(rs)] = u
    <3>1. [<<s>> EXCEPT ![1] = u] = <<u>>
      OBVIOUS
    <3>2. <<s>> \in Seq({s, u}) /\ Len(<<s>>) = 1
      OBVIOUS
    <3>3. LET a == Append(<<s>>, u) IN Len(a) = 2 /\ a[2] = u
      BY <3>2
    <3>4. CASE t = s
      <4>1. rs = <<u>>
        BY <2>4, <3>1, <3>4, Zenon
      <4> HIDE DEF rs
      <4> QED BY <4>1
    <3>5. CASE t # s
      <4>1. rs = Append(<<s>>, u)
        BY <2>4, <3>5, Zenon
      <4>2. Len(rs) = 2 /\ rs[2] = u
        BY <3>3, <4>1, Zenon
      <4> HIDE DEF rs
      <4> QED BY <4>2
    <3> QED BY <3>4, <3>5
  <2> QED BY <1>3, <2>2, <2>3, <2>5
<1> QED BY <1>2, <1>3

\* DbColumn(): an empty chain.
LEMMA NewColumnIs ==
  ASSUME type \in Types, NEW n \in Int
  PROVE  LET s == NewStorage(StartType(type), n, 0)
         IN  /\ NewColumn(n) = <<s>> /\ StorageOK(s) /\ s.dt = StartType(type) /\ s.i = 0
             /\ StartType(type) \in Types \ {"BOOL"}
<1>1. StartType(type) \in Types \ {"BOOL"}
  BY DEF StartType, Types
<1> QED BY <1>1, NewStorageIs DEF NewColumn

----------------------------------------------------------------------------
(* The first rows of a frame *)

\* FirstIn() on any n rows g.
FirstOf(g, n, kinds, default) ==
  IF \E j \in 1..n : g[j] \in kinds
  THEN TypeOfKind(g[CHOOSE j \in 1..n : /\ g[j] \in kinds
                                        /\ \A m \in 1..(j - 1) : g[m] \notin kinds])
  ELSE default

\* FirstIn, with the choice named.
LEMMA FirstInIs ==
  /\ \A kinds, default : FirstIn(kinds, default) = FirstOf(FrameKinds, i, kinds, default)
  /\ \A kinds, default : FirstIn(kinds, default)' = FirstOf(FrameKinds', i', kinds, default)
  BY Zenon DEF FirstIn, FirstOf

\* There is but one first row in a set of kinds.
LEMMA FirstOfIs ==
  ASSUME NEW g, NEW n \in Nat, NEW kinds, NEW default, NEW j \in 1..n,
         g[j] \in kinds, \A m \in 1..(j - 1) : g[m] \notin kinds
  PROVE  FirstOf(g, n, kinds, default) = TypeOfKind(g[j])
<1> DEFINE P(x) == g[x] \in kinds /\ \A m \in 1..(x - 1) : g[m] \notin kinds
           c == CHOOSE x \in 1..n : P(x)
<1>1. c \in 1..n /\ P(c)
  <2>1. P(j)
    OBVIOUS
  <2> HIDE DEF P
  <2> QED BY <2>1
<1> HIDE DEF c
<1>2. c = j
  <2>1. ~(c < j)
    <3>1. c < j => c \in 1..(j - 1)
      BY <1>1
    <3> QED BY <1>1, <3>1
  <2>2. ~(j < c)
    <3>1. j < c => j \in 1..(c - 1)
      BY <1>1
    <3> QED BY <1>1, <3>1
  <2> QED BY <1>1, <2>1, <2>2
<1>3. FirstOf(g, n, kinds, default) = TypeOfKind(g[c])
  BY Zenon DEF FirstOf, c
<1> QED BY <1>2, <1>3

\* One row more changes the answer only if there was none.
LEMMA FirstOfNext ==
  ASSUME NEW g, NEW h, NEW n \in Nat, NEW kinds, NEW default, \A j \in 1..n : h[j] = g[j]
  PROVE  /\ (\E j \in 1..n : g[j] \in kinds) =>
              FirstOf(h, n + 1, kinds, default) = FirstOf(g, n, kinds, default)
         /\ ~(\E j \in 1..n : g[j] \in kinds) /\ h[n + 1] \in kinds =>
              FirstOf(h, n + 1, kinds, default) = TypeOfKind(h[n + 1])
         /\ ~(\E j \in 1..n : g[j] \in kinds) /\ h[n + 1] \notin kinds =>
              FirstOf(h, n + 1, kinds, default) = default
<1>1. CASE \E j \in 1..n : g[j] \in kinds
  <2> DEFINE S == {j \in 1..n : g[j] \in kinds}
  <2>1. PICK j \in S : \A x \in S : j <= x
    <3>1. S \subseteq Nat /\ S # {}
      BY <1>1
    <3> HIDE DEF S
    <3> QED BY <3>1, LeastNumber
  <2>2. /\ j \in 1..n /\ j \in 1..n + 1 /\ g[j] \in kinds
        /\ \A m \in 1..(j - 1) : m \in 1..n /\ g[m] \notin kinds
    <3>1. j \in 1..n /\ j \in 1..n + 1 /\ g[j] \in kinds
      BY <2>1
    <3>2. ASSUME NEW m \in 1..(j - 1) PROVE m \in 1..n /\ g[m] \notin kinds
      <4>1. m \in 1..n /\ ~(j <= m)
        BY <3>1
      <4> QED BY <2>1, <4>1
    <3> QED BY <3>1, <3>2
  <2>3. FirstOf(g, n, kinds, default) = TypeOfKind(g[j])
    BY <2>2, FirstOfIs
  <2>4. h[j] = g[j] /\ \A m \in 1..(j - 1) : h[m] \notin kinds
    BY <2>2
  <2>5. FirstOf(h, n + 1, kinds, default) = TypeOfKind(h[j])
    BY <2>2, <2>4, FirstOfIs
  <2> QED BY <1>1, <2>3, <2>4, <2>5
<1>2. CASE ~\E j \in 1..n : g[j] \in kinds
  <2>1. CASE h[n + 1] \in kinds
    <3>1. n + 1 \in 1..n + 1 /\ \A m \in 1..((n + 1) - 1) : h[m] \notin kinds
      BY <1>2
    <3>2. FirstOf(h, n + 1, kinds, default) = TypeOfKind(h[n + 1])
      BY <2>1, <3>1, FirstOfIs
    <3> QED BY <1>2, <2>1, <3>2
  <2>2. CASE h[n + 1] \notin kinds
    <3>1. ~\E j \in 1..n + 1 : h[j] \in kinds
      BY <1>2, <2>2
    <3>2. FirstOf(h, n + 1, kinds, default) = default
      BY <3>1 DEF FirstOf
    <3> QED BY <1>2, <2>2, <3>2
  <2> QED BY <2>1, <2>2
<1> QED BY <1>1, <1>2

\* The same, in the form an instance is taken from.
Agree(g, h, n) == \A j \in 1..n : h[j] = g[j]
AnyOf(g, n, kinds) == \E j \in 1..n : g[j] \in kinds

LEMMA FirstOfStays ==
  ASSUME NEW g, NEW h, NEW n \in Nat, NEW kinds, NEW default, Agree(g, h, n),
         AnyOf(g, n, kinds)
  PROVE  FirstOf(h, n + 1, kinds, default) = FirstOf(g, n, kinds, default)
  BY FirstOfNext DEF Agree, AnyOf

LEMMA FirstOfNone ==
  ASSUME NEW g, NEW h, NEW n \in Nat, NEW kinds, NEW default, Agree(g, h, n),
         ~AnyOf(g, n, kinds), h[n + 1] \notin kinds
  PROVE  FirstOf(h, n + 1, kinds, default) = default
<1>1. ~\E j \in 1..n + 1 : h[j] \in kinds
  BY DEF Agree, AnyOf
<1> QED BY <1>1, Zenon DEF FirstOf

\* The first row in a set of kinds has the type of one of them.
LEMMA FirstOfType ==
  ASSUME NEW g, NEW n \in Nat, NEW kinds, NEW default, \E j \in 1..n : g[j] \in kinds
  PROVE  \E k \in kinds : FirstOf(g, n, kinds, default) = TypeOfKind(k)
<1> DEFINE S == {j \in 1..n : g[j] \in kinds}
<1>1. PICK j \in S : \A x \in S : j <= x
  <2>1. S \subseteq Nat /\ S # {}
    OBVIOUS
  <2> HIDE DEF S
  <2> QED BY <2>1, LeastNumber
<1>2. j \in 1..n /\ g[j] \in kinds
  BY <1>1
<1>3. ASSUME NEW m \in 1..(j - 1) PROVE g[m] \notin kinds
  <2>1. m \in 1..n /\ ~(j <= m)
    BY <1>2
  <2> QED BY <1>1, <2>1
<1>4. FirstOf(g, n, kinds, default) = TypeOfKind(g[j])
  BY <1>2, <1>3, FirstOfIs
<1> QED BY <1>2, <1>4

----------------------------------------------------------------------------
(* A chain copied into a vector *)

\* The value v of a cell of kind k in row r: NA for a null, or what a storage of
\* a type that converts to the last one's fetched.
Placed(v, to, r, k, d) ==
  IF k = "null" THEN v = NA
  ELSE \E dt \in Types \ {"UNKNOWN"} :
         /\ v = Fetched(dt, r, k) /\ ~Widens(dt, TypeIn(d, k))
         /\ dt = to \/ Widens(dt, to)

\* What FlattenSeq makes of the converted storages: position j is row j, as
\* the storage that holds the row has fetched it.
LEMMA VectorPlaces ==
  ASSUME NEW ss, ss \in Seq(StorageRec), ss # <<>>, NEW o, NEW f \in Nat, NEW n \in Nat,
         NEW cs, NEW d, Chain(ss, o, f, n, cs, d), Shape(ss), decl \in Decls
  PROVE  LET v == VectorOf(ss)
         IN  /\ v \in Seq(Values) /\ Len(v) = n
             /\ \A j \in 1..n : Placed(v[j], ss[Len(ss)].dt, (f - 1) + j, cs[(f - 1) + j], d)
<1> DEFINE m == Len(ss)
           new == TypeOf(ss)
           cc == [k \in 1..m |-> Copied(ss[k], new)]
           At(x, j) == IF j <= Len(x.data) THEN x.data[j] ELSE NA
<1>1. /\ m \in Nat \ {0} /\ m \in 1..m /\ 1..m = DOMAIN ss
      /\ o[1] = 0 /\ o[m + 1] = n
      /\ \A k \in 1..m : /\ StorageOK(ss[k]) /\ o[k] \in Nat /\ o[k + 1] = o[k] + ss[k].i
                         /\ Holds(ss[k], (f - 1) + o[k], cs, d)
  BY DEF Chain
<1>2. VectorOf(ss) = FlattenSeq(cc)
  BY <1>1 DEF VectorOf
<1>3. ASSUME NEW k \in 1..m
      PROVE  /\ ss[k].i \in Nat /\ Len(ss[k].data) \in Nat /\ Len(ss[k].data) <= ss[k].i
             /\ ss[k].dt \in Types
             /\ Len(ss[k].data) > 0 =>
                  /\ ss[k].dt # "UNKNOWN"
                  /\ ss[k].dt = ss[m].dt \/ Widens(ss[k].dt, ss[m].dt)
                  /\ ss[k].dt = new \/ Widens(ss[k].dt, new)
             /\ Copied(ss[k], new) \in Seq(Values) /\ Len(Copied(ss[k], new)) = ss[k].i
             /\ \A j \in 1..ss[k].i : Copied(ss[k], new)[j] = At(ss[k], j)
  <2> DEFINE x == ss[k]
  <2>1. /\ x.i \in Nat /\ Len(x.data) \in Nat /\ Len(x.data) <= x.i /\ x.dt \in Types
        /\ x.data \in Seq(Values) /\ x.capacity \in Nat /\ Len(x.data) <= x.capacity
        /\ x.dt = "UNKNOWN" <=> x.capacity = 0
    <3>1. StorageOK(x)
      BY <1>1
    <3> HIDE DEF x
    <3> QED BY <3>1, StorageIs
  <2>2. Len(x.data) > 0 =>
          /\ x.dt # "UNKNOWN"
          /\ x.dt = ss[m].dt \/ Widens(x.dt, ss[m].dt)
          /\ x.dt = new \/ Widens(x.dt, new)
    <3> SUFFICES ASSUME Len(x.data) > 0
                 PROVE  /\ x.dt # "UNKNOWN"
                        /\ x.dt = ss[m].dt \/ Widens(x.dt, ss[m].dt)
                        /\ x.dt = new \/ Widens(x.dt, new)
      OBVIOUS
    <3>1. x.dt # "UNKNOWN"
      BY <2>1
    <3>2. x.dt = ss[m].dt \/ Widens(x.dt, ss[m].dt)
      BY <3>1, WidensIs, Zenon DEF Shape
    <3>3. ss[m].dt # "UNKNOWN"
      BY <3>1, <3>2, WidensIs
    <3>4. new = ss[m].dt
      BY <3>3 DEF TypeOf
    <3> HIDE DEF x, new, m
    <3> QED BY <3>1, <3>2, <3>4
  <2> DEFINE y == [j \in 1..x.i |-> At(x, j)]
  <2>3. Copied(x, new) = y
    <3> HIDE DEF new
    <3>1. ASSUME NEW j \in 1..x.i
          PROVE (IF j <= Len(x.data) THEN Converted(x.data[j], x.dt, new) ELSE NA) = At(x, j)
      <4>1. j <= Len(x.data) => Len(x.data) > 0
        BY <2>1
      <4>2. j <= Len(x.data) => Converted(x.data[j], x.dt, new) = x.data[j]
        BY <2>2, <4>1 DEF Converted
      <4> QED BY <4>2
    <3> QED BY <3>1 DEF Copied
  <2>4. ASSUME NEW j \in 1..x.i PROVE At(x, j) \in Values
    BY <2>1 DEF Values
  <2>5. y \in Seq(Values) /\ Len(y) = x.i /\ \A j \in 1..x.i : y[j] = At(x, j)
    <3> HIDE DEF At, x
    <3> QED BY <2>1, <2>4
  <2> HIDE DEF y, x, new, At, m
  <2>6. /\ Copied(x, new) \in Seq(Values) /\ Len(Copied(x, new)) = x.i
        /\ \A j \in 1..x.i : Copied(x, new)[j] = At(x, j)
    BY <2>3, <2>5, Zenon
  <2> QED BY <2>1, <2>2, <2>6, Zenon DEF x
<1> HIDE DEF new
<1>4. cc \in Seq(Seq(Values)) /\ Len(cc) = m /\ \A k \in 1..m : cc[k] = Copied(ss[k], new)
  BY <1>1, <1>3
<1> HIDE DEF cc, m
<1>5. PICK q : IsOffsets(q, cc)
  BY <1>4, OffsetsExist
<1>6. q[1] = 0 /\ \A k \in 1..m : q[k + 1] = q[k] + ss[k].i
  BY <1>3, <1>4, <1>5 DEF IsOffsets
<1>7. q[m + 1] = n /\ \A k \in 1..m : q[k] = o[k]
  <2> DEFINE P == {x \in Nat : x + 1 \in 1..m + 1 => q[x + 1] = o[x + 1]}
  <2>1. 0 \in P
    BY <1>1, <1>6
  <2>2. ASSUME NEW x \in Nat, x \in P PROVE x + 1 \in P
    <3> SUFFICES ASSUME (x + 1) + 1 \in 1..m + 1 PROVE q[(x + 1) + 1] = o[(x + 1) + 1]
      OBVIOUS
    <3>1. x + 1 \in 1..m /\ x + 1 \in 1..m + 1
      BY <1>1
    <3>2. q[x + 1] = o[x + 1]
      BY <2>2, <3>1
    <3>3. q[(x + 1) + 1] = q[x + 1] + ss[x + 1].i /\ o[(x + 1) + 1] = o[x + 1] + ss[x + 1].i
      BY <1>1, <1>6, <3>1, Zenon
    <3> QED BY <3>2, <3>3, Zenon
  <2> HIDE DEF P
  <2>3. Nat \subseteq P
    BY <2>1, <2>2, Induction
  <2>4. ASSUME NEW k \in 1..m + 1 PROVE q[k] = o[k]
    <3>1. k - 1 \in Nat /\ (k - 1) + 1 = k
      BY <1>1
    <3>2. k - 1 \in P
      BY <2>3, <3>1
    <3>3. q[(k - 1) + 1] = o[(k - 1) + 1]
      BY <3>1, <3>2 DEF P
    <3> QED BY <3>1, <3>3
  <2>5. m + 1 \in 1..m + 1 /\ \A k \in 1..m : k \in 1..m + 1
    BY <1>1
  <2> QED BY <1>1, <2>4, <2>5, Zenon
<1>8. /\ FlattenSeq(cc) \in Seq(Values) /\ Len(FlattenSeq(cc)) = n
      /\ \A k \in 1..m, j \in Nat : j \in 1..Len(cc[k]) => FlattenSeq(cc)[q[k] + j] = cc[k][j]
      /\ \A p \in 1..n : \E k \in 1..m, j \in Nat : j \in 1..Len(cc[k]) /\ p = q[k] + j
  <2>1. FlattenSeq(cc) \in Seq(Values) /\ InPlace(FlattenSeq(cc), q, cc)
    BY <1>4, <1>5, FlattenPlaces
  <2>2. Len(FlattenSeq(cc)) = n
    BY <1>4, <1>7, <2>1, Zenon DEF InPlace
  <2> QED BY <1>4, <2>1, <2>2, Zenon DEF InPlace
<1> DEFINE v == FlattenSeq(cc)
<1> HIDE DEF v
<1>9. ASSUME NEW p \in 1..n PROVE Placed(v[p], ss[m].dt, (f - 1) + p, cs[(f - 1) + p], d)
  <2>1. PICK k \in 1..m, j \in Nat : j \in 1..Len(cc[k]) /\ p = q[k] + j
    BY <1>8
  <2> DEFINE x == ss[k]
             c == cs[(f - 1) + p]
  <2>2. j \in 1..x.i /\ v[p] = At(x, j)
    <3>1. cc[k] = Copied(x, new) /\ Len(Copied(x, new)) = x.i
          /\ \A l \in 1..x.i : Copied(x, new)[l] = At(x, l)
      <4> HIDE DEF At
      <4> QED BY <1>3, <1>4, Zenon
    <3>2. v[p] = cc[k][j]
      BY <1>8, <2>1, Zenon DEF v
    <3> HIDE DEF At, x
    <3> QED BY <2>1, <3>1, <3>2
  <2>3. ((f - 1) + o[k]) + j = (f - 1) + p
    <3>1. p = o[k] + j /\ o[k] \in Nat
      BY <1>1, <1>7, <2>1, Zenon
    <3> QED BY <3>1
  <2>4. /\ j > Len(x.data) => c = "null"
        /\ j <= Len(x.data) =>
             x.data[j] = IF c = "null" THEN NA ELSE Fetched(x.dt, (f - 1) + p, c)
        /\ c # "null" => ~Widens(x.dt, TypeIn(d, c))
    <3>1. Holds(x, (f - 1) + o[k], cs, d)
      BY <1>1
    <3> HIDE DEF x
    <3> QED BY <2>2, <2>3, <3>1 DEF Holds
  <2>5. x.dt \in Types /\ Len(x.data) \in Nat
        /\ (Len(x.data) > 0 =>
              x.dt # "UNKNOWN" /\ (x.dt = ss[m].dt \/ Widens(x.dt, ss[m].dt)))
    BY <1>3
  <2>6. CASE c = "null"
    <3>1. v[p] = NA
      <4> HIDE DEF x, c
      <4> QED BY <2>2, <2>4, <2>6
    <3> HIDE DEF c
    <3> QED BY <2>6, <3>1 DEF Placed, c
  <2>7. CASE c # "null"
    <3> HIDE DEF x, c
    <3>1. j <= Len(x.data) /\ Len(x.data) > 0
      BY <2>2, <2>4, <2>5, <2>7
    <3>2. v[p] = Fetched(x.dt, (f - 1) + p, c)
      BY <2>2, <2>4, <2>7, <3>1
    <3>3. \E dt \in Types \ {"UNKNOWN"} :
            /\ v[p] = Fetched(dt, (f - 1) + p, c) /\ ~Widens(dt, TypeIn(d, c))
            /\ dt = ss[m].dt \/ Widens(dt, ss[m].dt)
      BY <2>4, <2>5, <2>7, <3>1, <3>2
    <3> QED BY <2>7, <3>3, Zenon DEF Placed, c
  <2> QED BY <2>6, <2>7
<1> QED BY <1>2, <1>8, <1>9, Zenon DEF v, m

----------------------------------------------------------------------------
(* The inductive invariant *)

\* Between calls there is no frame.
IdleInv == pc = "idle" => storage = <<>> /\ seen = {}

\* A peek has turned the blob of the current row into text, and said so.
Peeked == cell = "text" /\ cells[Row] = "blob" /\ type = "STRING" /\ Row \in told

\* The cell is that of the last row, until there is none.
CellInv ==
  /\ ~ready => ~complete /\ cells = <<>> /\ pc = "idle"
  /\ complete \/ ~ready => cell = "null"
  /\ ready /\ ~complete => cells # <<>> /\ (cell = cells[Row] \/ Peeked)

\* The frame is the rows before the current one, or up to the last.
FrameInv ==
  /\ i > 0 => first >= 1 /\ first + i - 1 <= Row
  /\ pc = "rows" =>
       /\ ready /\ from = type /\ n_max \in FetchSizes
       /\ Row = IF complete /\ i > 0 THEN first + i - 1 ELSE first + i
       /\ n_max >= 0 => i <= n_max

\* The storages hold these rows.
ChainInv ==
  pc = "rows" =>
    /\ storage \in Seq(StorageRec) /\ storage # <<>>
    /\ \E o : Chain(storage, o, first, i, cells, DeclType)
    /\ Shape(storage) /\ storage[1].dt = StartType(type)

\* Types come from the declaration or from a cell.
KnownTypes ==
  {"UNKNOWN"} \cup ({DeclType} \ {"BOOL"}) \cup {TypeIn(DeclType, cells[r]) : r \in 1..Row}
KnownInv ==
  /\ type \in KnownTypes \cup {DeclType}
  /\ seen \subseteq KnownTypes
  /\ pc = "rows" => last.dt \in KnownTypes

\* The types seen are those of the rows, and none is wider than the storage.
SeenInv ==
  pc = "rows" =>
    /\ \A r \in first..(first + i - 1) :
         TypeIn(DeclType, cells[r]) \in seen \/ (cells[r] = "blob" /\ r \in told)
    /\ \A t \in seen :
         /\ ~Widens(last.dt, t)
         /\ t \notin AltTypes \cup {"UNKNOWN"} => last.dt # "UNKNOWN"

\* The type of the last storage is the guess from the rows so far.
Guess == IF StartType(from) = "UNKNOWN" THEN FirstIn(ValueKinds, "UNKNOWN") ELSE from
GuessInv ==
  pc = "rows" /\ DeclType \notin AltTypes =>
    last.dt = IF Guess = "INT" THEN FirstIn(WideKinds, "INT") ELSE Guess

IInv ==
  /\ TypeOK /\ IdleInv /\ CellInv /\ FrameInv /\ ChainInv /\ KnownInv
  /\ SeenInv /\ GuessInv
  /\ ValuesInPlace /\ TypeIsGuessed /\ UniformIsExact

----------------------------------------------------------------------------
(* What a step of the statement leaves alone *)

\* A step takes the statement to the next row, or to the end, and leaves the
\* column alone.
LEMMA StepIs ==
  ASSUME cells \in Seq(Kinds), Row <= MaxRows, Step
  PROVE  /\ cells' \in Seq(Kinds) /\ complete' \in BOOLEAN
         /\ Row \in Nat /\ Row' \in Nat /\ Row <= Row' /\ Row' <= MaxRows
         /\ \A r \in 1..Row : cells'[r] = cells[r]
         /\ \/ complete' /\ Row' = Row /\ cell' = "null"
            \/ ~complete' /\ Row' = Row + 1 /\ cell' = cells'[Row'] /\ cell' \in Kinds
               /\ cells' # <<>>
<1>1. Row \in Nat /\ MaxRows \in Nat
  BY ConstantsAssumption DEF Row
<1>2. CASE /\ Len(cells) < MaxRows
           /\ \E k \in Kinds : cell' = k /\ cells' = Append(cells, k)
           /\ complete' = FALSE
  <2>1. PICK k \in Kinds : cell' = k /\ cells' = Append(cells, k)
    BY <1>2
  <2>2. /\ cells' \in Seq(Kinds) /\ Len(cells') = Len(cells) + 1
        /\ cells'[Len(cells) + 1] = k /\ \A r \in 1..Len(cells) : cells'[r] = cells[r]
    BY <2>1
  <2>3. Row' = Row + 1 /\ Row' <= MaxRows /\ cells' # <<>>
    BY <1>1, <1>2, <2>2 DEF Row
  <2>4. cell' = cells'[Row'] /\ cell' \in Kinds
    BY <2>1, <2>2, <2>3, Zenon DEF Row
  <2>5. \A r \in 1..Row : cells'[r] = cells[r]
    BY <2>2 DEF Row
  <2>6. Row' \in Nat /\ Row <= Row'
    BY <1>1, <2>3
  <2> QED BY <1>1, <1>2, <2>2, <2>3, <2>4, <2>5, <2>6
<1>3. CASE complete' = TRUE /\ cell' = "null" /\ UNCHANGED cells
  BY <1>1, <1>3 DEF Row
<1> QED BY <1>2, <1>3 DEF Step

\* A chain goes by the cells of its rows only.
LEMMA ChainKept ==
  ASSUME NEW ss, NEW o, NEW f \in Nat, NEW n \in Nat, NEW cs, NEW ds, NEW d,
         Chain(ss, o, f, n, cs, d), \A r \in Nat : f <= r /\ r <= (f - 1) + n => ds[r] = cs[r]
  PROVE  Chain(ss, o, f, n, ds, d)
<1>1. ASSUME NEW k \in 1..Len(ss)
      PROVE  Holds(ss[k], (f - 1) + o[k], ds, d)
  <2> DEFINE b == (f - 1) + o[k]
             s == ss[k]
  <2>1. /\ StorageOK(s) /\ o[k] \in Nat /\ o[k] + s.i <= n
        /\ Holds(s, b, cs, d)
    BY DEF Chain
  <2>2. s.i \in Nat
    BY <2>1 DEF StorageOK, StorageRec
  <2>3. ASSUME NEW j \in 1..s.i PROVE ds[b + j] = cs[b + j]
    <3> DEFINE x == o[k]
               y == s.i
    <3>1. x \in Nat /\ y \in Nat /\ x + y <= n
      BY <2>1, <2>2
    <3>2. j \in 1..y /\ b + j = ((f - 1) + x) + j
      OBVIOUS
    <3> HIDE DEF x, y, b
    <3>3. b + j \in Nat /\ f <= b + j /\ b + j <= (f - 1) + n
      BY <3>1, <3>2
    <3> QED BY <3>3
  <2> HIDE DEF b, s
  <2>4. Holds(s, b, ds, d)
    BY <2>1, <2>3 DEF Holds
  <2> QED BY <2>4 DEF b, s
<1> QED BY <1>1 DEF Chain

\* More rows: the types known stay known.
LEMMA MoreRows ==
  ASSUME decl' = decl, Row \in Nat, Row' \in Nat, Row <= Row',
         \A r \in 1..Row : cells'[r] = cells[r]
  PROVE  /\ DeclType' = DeclType /\ KnownTypes \subseteq KnownTypes'
         /\ Uniform' => Uniform
<1>1. DeclType' = DeclType
  BY DEF DeclType
<1>2. \A r \in 1..Row : r \in 1..Row'
  OBVIOUS
<1>3. KnownTypes \subseteq KnownTypes'
  BY <1>1, <1>2 DEF KnownTypes
<1>4. Uniform' => Uniform
  BY <1>2, Zenon DEF Uniform
<1> QED BY <1>1, <1>3, <1>4

\* The storages of a chain are as TypeOK wants them.
StoragesOK(ss) ==
  \A k \in DOMAIN ss :
    /\ ss[k].dt \in Types /\ ss[k].data \in Seq(Values)
    /\ Len(ss[k].data) <= ss[k].capacity
    /\ Len(ss[k].data) <= ss[k].i

\* The storages of a chain are storages, and their rows add up.
LEMMA ChainTyped ==
  ASSUME NEW ss, ss \in Seq(StorageRec), NEW o, NEW f, NEW n, NEW cs, NEW d,
         Chain(ss, o, f, n, cs, d)
  PROVE  StoragesOK(ss)
<1> SUFFICES ASSUME NEW k \in DOMAIN ss
             PROVE  /\ ss[k].dt \in Types /\ ss[k].data \in Seq(Values)
                    /\ Len(ss[k].data) <= ss[k].capacity /\ Len(ss[k].data) <= ss[k].i
  BY DEF StoragesOK
<1>1. k \in 1..Len(ss)
  OBVIOUS
<1>2. StorageOK(ss[k])
  BY <1>1 DEF Chain
<1> QED BY <1>2, StorageIs

----------------------------------------------------------------------------
(* The steps *)

\* The invariant holds at first,
LEMMA InitInv == Init => IInv
<1> SUFFICES ASSUME Init PROVE IInv
  OBVIOUS
<1> USE DEF Init
<1>1. TypeOK
  <2>1. type \in Types /\ from \in Types /\ cell \in AllKinds
    BY DEF Types, AllKinds
  <2>2. n_max \in FetchSizes \cup {0, 1} /\ i \in 0..MaxRows /\ first \in 0..MaxRows + 1
    BY ConstantsAssumption
  <2>3. Len(cells) <= MaxRows /\ cells \in Seq(Kinds) /\ column \in Seq(Values)
    BY ConstantsAssumption
  <2>4. \A k \in DOMAIN storage : FALSE
    OBVIOUS
  <2> QED BY <2>1, <2>2, <2>3, <2>4 DEF TypeOK
<1>2. IdleInv /\ CellInv /\ FrameInv /\ ChainInv /\ SeenInv /\ GuessInv
  BY DEF IdleInv, CellInv, FrameInv, ChainInv, SeenInv, GuessInv
<1>3. KnownInv
  BY DEF KnownInv, KnownTypes
<1>4. ValuesInPlace /\ TypeIsGuessed /\ UniformIsExact
  BY DEF ValuesInPlace, TypeIsGuessed, UniformIsExact, Fetching
<1> QED BY <1>1, <1>2, <1>3, <1>4 DEF IInv

\* when parameters are bound, which runs the statement again,
LEMMA BindInv == IInv /\ Bind => IInv'
<1> SUFFICES ASSUME IInv, Bind PROVE IInv'
  OBVIOUS
<1> USE DEF Bind
<1>1. TypeOK /\ cells \in Seq(Kinds) /\ Row <= MaxRows
  BY DEF IInv, TypeOK, Row
<1>2. /\ cells' \in Seq(Kinds) /\ complete' \in BOOLEAN
      /\ Row \in Nat /\ Row' \in Nat /\ Row <= Row' /\ Row' <= MaxRows
      /\ \A r \in 1..Row : cells'[r] = cells[r]
      /\ \/ complete' /\ Row' = Row /\ cell' = "null"
         \/ ~complete' /\ Row' = Row + 1 /\ cell' = cells'[Row'] /\ cell' \in Kinds
            /\ cells' # <<>>
  BY <1>1, StepIs
<1>3. DeclType' = DeclType /\ KnownTypes \subseteq KnownTypes' /\ (Uniform' => Uniform)
  BY <1>2, MoreRows
<1>4. TypeOK'
  <2>1. cell' \in AllKinds
    BY <1>2, ConstantsAssumption DEF AllKinds
  <2>2. Len(cells') <= MaxRows /\ column' \in Seq(Values)
    BY <1>2 DEF Row
  <2> QED BY <1>1, <1>2, <2>1, <2>2 DEF TypeOK
<1>5. IdleInv' /\ ChainInv' /\ SeenInv' /\ GuessInv'
  BY DEF IInv, IdleInv, ChainInv, SeenInv, GuessInv
<1>6. CellInv'
  BY <1>2 DEF CellInv
<1>7. FrameInv'
  BY <1>1, <1>2 DEF IInv, FrameInv, TypeOK
<1>8. KnownInv'
  BY <1>3 DEF IInv, KnownInv
<1>9. ValuesInPlace' /\ ~Fetching'
  BY DEF ValuesInPlace, Fetching
<1>10. UniformIsExact'
  BY <1>3, <1>9 DEF IInv, UniformIsExact
<1>11. TypeIsGuessed'
  <2>1. CASE i > 0
    <3>1. /\ i \in Nat /\ first \in Nat /\ first >= 1 /\ first + i - 1 <= Row
      BY <1>1, <2>1 DEF IInv, FrameInv, TypeOK
    <3>2. ASSUME NEW j \in 1..i PROVE cells'[first + j - 1] = cells[first + j - 1]
      <4>1. first + j - 1 \in 1..Row
        BY <1>2, <3>1
      <4> QED BY <1>2, <4>1
    <3>3. FrameKinds' = FrameKinds
      BY <3>2 DEF FrameKinds
    <3>4. \A K, default : FirstIn(K, default)' = FirstIn(K, default)
      <4>1. i' = i
        OBVIOUS
      <4> QED BY <3>3, <4>1, FirstInIs, Zenon
    <3> QED BY <1>3, <3>3, <3>4, Zenon DEF IInv, TypeIsGuessed
  <2>2. CASE ~(i > 0)
    BY <2>2 DEF TypeIsGuessed
  <2> QED BY <2>1, <2>2
<1> QED BY <1>4, <1>5, <1>6, <1>7, <1>8, <1>9, <1>10, <1>11 DEF IInv

\* when a fetch begins with an empty chain,
LEMMA FetchBeginInv == IInv /\ (\E n \in FetchSizes : FetchBegin(n)) => IInv'
<1> SUFFICES ASSUME IInv, NEW n \in FetchSizes, FetchBegin(n) PROVE IInv'
  OBVIOUS
<1> USE DEF FetchBegin
<1> DEFINE s == NewStorage(StartType(type), n, 0)
           o == [k \in 1..2 |-> 0]
<1>1. TypeOK /\ Row \in Nat /\ Row <= MaxRows /\ n \in Int
  BY ConstantsAssumption DEF IInv, TypeOK, Row
<1>2. /\ storage' = <<s>> /\ StorageOK(s) /\ s.dt = StartType(type) /\ s.i = 0
      /\ StartType(type) \in Types \ {"BOOL"}
  BY <1>1, NewColumnIs DEF TypeOK
<1> HIDE DEF s
<1>3. /\ storage' \in Seq(StorageRec) /\ storage' # <<>> /\ Len(storage') = 1
      /\ storage'[1] = s /\ last' = s
  BY <1>2 DEF last, StorageOK
<1>4. DeclType' = DeclType /\ KnownTypes' = KnownTypes
  <2>1. DeclType' = DeclType
    BY DEF DeclType
  <2> QED BY <2>1 DEF KnownTypes, Row
<1>5. Chain(storage', o, first', i', cells', DeclType')
  <2>1. i' = 0 /\ 0 \in Nat /\ 0 + 0 = 0 /\ 0 <= 0
    OBVIOUS
  <2>2. Holds(s, (first' - 1) + 0, cells', DeclType')
    BY <1>2 DEF Holds
  <2>3. o[1] = 0 /\ o[2] = 0
    OBVIOUS
  <2> HIDE DEF o
  <2>4. ASSUME NEW k \in 1..1
        PROVE  /\ StorageOK(storage'[k])
               /\ o[k] \in Nat /\ o[k + 1] = o[k] + storage'[k].i /\ o[k + 1] <= 0
               /\ Holds(storage'[k], (first' - 1) + o[k], cells', DeclType')
    <3>1. k = 1 /\ k + 1 = 2
      OBVIOUS
    <3> QED BY <1>2, <1>3, <2>1, <2>2, <2>3, <3>1, Zenon
  <2>5. Len(storage') + 1 = 2
    BY <1>3
  <2> QED BY <1>3, <2>1, <2>3, <2>4, <2>5, Zenon DEF Chain
<1>6. Shape(storage')
  BY <1>3 DEF Shape
<1>7. ChainInv'
  BY <1>2, <1>3, <1>5, <1>6 DEF ChainInv
<1>8. TypeOK'
  <2>1. StoragesOK(storage')
    BY <1>3, <1>5, ChainTyped
  <2> QED BY <1>1, <2>1, ConstantsAssumption DEF TypeOK, StoragesOK, Row
<1>9. IdleInv' /\ CellInv'
  BY DEF IInv, IdleInv, CellInv, Peeked, Row
<1>10. FrameInv'
  BY <1>1, ConstantsAssumption DEF IInv, FrameInv, Row
<1>11. KnownInv'
  <2>1. type \in KnownTypes \cup {DeclType} /\ seen' = {} /\ type' = type
    BY DEF IInv, KnownInv
  <2>2. StartType(type) \in KnownTypes
    BY <2>1 DEF StartType, KnownTypes
  <2> HIDE DEF FetchBegin
  <2> QED BY <1>2, <1>3, <1>4, <2>1, <2>2 DEF KnownInv
<1>12. SeenInv'
  <2>1. \A r \in first'..(first' + i' - 1) : FALSE
    BY <1>1
  <2> QED BY <2>1 DEF SeenInv
<1>13. GuessInv'
  <2>1. \A K, default : FirstIn(K, default)' = default
    BY DEF FirstIn
  <2>2. Guess' = StartType(type)
    BY <2>1 DEF Guess, StartType
  <2> QED BY <1>2, <1>3, <2>1, <2>2 DEF GuessInv
<1>14. ValuesInPlace' /\ TypeIsGuessed' /\ ~Fetching'
  BY DEF ValuesInPlace, Fetching, TypeIsGuessed
<1>15. UniformIsExact'
  BY <1>14 DEF IInv, UniformIsExact, Uniform, Row
<1> QED BY <1>7, <1>8, <1>9, <1>10, <1>11, <1>12, <1>13, <1>14, <1>15 DEF IInv

\* The kinds of the cells a Chain may hold are kinds.
LEMMA RowsAreKinds ==
  ASSUME TypeOK
  PROVE  /\ Row \in Nat /\ Row <= MaxRows
         /\ \A r \in 1..Row : cells[r] \in AllKinds
         /\ n_max \in Int /\ i \in Nat /\ first \in Nat /\ MaxRows \in Nat
<1>1. cells \in Seq(Kinds) /\ Len(cells) <= MaxRows /\ Kinds \subseteq AllKinds
  BY ConstantsAssumption DEF TypeOK
<1>2. n_max \in Int /\ i \in Nat /\ first \in Nat /\ MaxRows \in Nat
  BY ConstantsAssumption DEF TypeOK
<1> QED BY <1>1, <1>2 DEF Row

\* What a turn of the loop does to the chain.
LEMMA RowGrows ==
  ASSUME IInv, FetchRow
  PROVE  /\ ready /\ Row = first + i /\ Row \in 1..MaxRows
         /\ cell = cells[Row] \/ (Peeked /\ last.dt = "STRING")
         /\ storage' \in Seq(StorageRec) /\ storage' # <<>> /\ Shape(storage')
         /\ \E p : Chain(storage', p, first, i + 1, cells, DeclType)
         /\ storage'[1].dt = StartType(type)
         /\ StorageOK(last) /\ last.dt \in Types /\ last.dt # "BOOL"
         /\ last'.dt = IF cell = "null" THEN last.dt ELSE Widened(last.dt, CellType(cell))
<1>1. TypeOK /\ CellInv /\ FrameInv /\ ChainInv /\ KnownInv
  BY DEF IInv
<1>2. pc = "rows" /\ ~complete /\ storage' = SetColValue(storage)
  BY DEF FetchRow
<1>3. ready /\ Row = first + i /\ cells # <<>> /\ (cell = cells[Row] \/ Peeked)
  BY <1>1, <1>2 DEF CellInv, FrameInv
<1>4. /\ Row \in 1..MaxRows /\ cells \in Seq(Kinds)
      /\ n_max \in Int /\ i \in Nat /\ first \in Nat /\ decl \in Decls
  <2>1. cells \in Seq(Kinds) /\ Row # 0 /\ decl \in Decls
    BY <1>1, <1>3 DEF TypeOK, Row
  <2> QED BY <1>1, <2>1, RowsAreKinds
<1>5. /\ storage \in Seq(StorageRec) /\ storage # <<>>
      /\ Shape(storage) /\ storage[1].dt = StartType(type)
  BY <1>1, <1>2 DEF ChainInv
<1>6. PICK o : Chain(storage, o, first, i, cells, DeclType)
  BY <1>1, <1>2 DEF ChainInv
<1>7. Len(storage) \in Nat \ {0} /\ 1 \in 1..Len(storage) /\ last = storage[Len(storage)]
  BY <1>5 DEF last
<1>8. Peeked => last.dt = "STRING"
  <2>1. Peeked => storage[1].dt = "STRING"
    BY <1>5 DEF Peeked, StartType
  <2> QED BY <1>5, <1>7, <2>1 DEF Shape
<1>9. StorageOK(last) /\ last.dt \in Types
  <2>1. StorageOK(last)
    BY <1>6, <1>7 DEF Chain
  <2> QED BY <2>1, StorageIs
<1>10. last.dt # "BOOL"
  <2>1. last.dt \in KnownTypes
    BY <1>1, <1>2 DEF KnownInv
  <2>2. \A r \in 1..Row : TypeIn(DeclType, cells[r]) # "BOOL"
    BY <1>1, RowsAreKinds, TypeOfKindIs DEF TypeIn, AltTypes
  <2> QED BY <2>1, <2>2 DEF KnownTypes
<1>11. CellIsRow
  BY <1>3, <1>4 DEF CellIsRow, Peeked
<1>12. cell # cells[Row] => storage[Len(storage)].dt = "STRING"
  BY <1>3, <1>7, <1>8
<1> DEFINE rs == SetColValue(storage)
<1>13. /\ rs \in Seq(StorageRec) /\ rs # <<>> /\ Shape(rs) /\ rs[1].dt = storage[1].dt
       /\ \E p : Chain(rs, p, first, i + 1, cells, DeclType)
       /\ rs[Len(rs)].dt = IF cell = "null" THEN storage[Len(storage)].dt
                           ELSE Widened(storage[Len(storage)].dt, CellType(cell))
  BY <1>3, <1>4, <1>5, <1>6, <1>11, <1>12, SetColValueGrows
<1>14. storage' = rs /\ last' = rs[Len(rs)]
  BY <1>2 DEF last
<1> HIDE DEF rs
<1> QED BY <1>3, <1>4, <1>5, <1>7, <1>8, <1>9, <1>10, <1>13, <1>14, Zenon

\* The type of the cell that is stored.
LEMMA CellKnown ==
  ASSUME TypeOK, KnownInv, Row \in 1..MaxRows, cell = cells[Row] \/ Peeked
  PROVE  /\ cell \in AllKinds /\ CellType(cell) \in KnownTypes \cup {DeclType}
         /\ DeclType \in Types /\ DeclType # "UNKNOWN"
         /\ CellType(cell) = TypeIn(DeclType, cell) /\ CellType(cell) \in Types
         /\ cell # "null" => CellType(cell) # "UNKNOWN"
         /\ CellType(cell) # "BOOL"
<1>1. Row \in 1..Row /\ decl \in Decls /\ cell \in AllKinds
  BY DEF TypeOK
<1>2. CellType(cell) = TypeIn(DeclType, cell)
  BY <1>1, CellTypeIs
<1>3. CellType(cell) \in KnownTypes \cup {DeclType}
  <2>1. CASE cell = cells[Row]
    BY <1>1, <1>2, <2>1 DEF KnownTypes
  <2>2. CASE Peeked
    <3>1. cell = "text" /\ type = "STRING"
      BY <2>2 DEF Peeked
    <3>2. TypeOfKind("text") = type
      BY <3>1, TypeOfKindIs
    <3> QED BY <1>2, <3>1, <3>2 DEF TypeIn, KnownInv
  <2> QED BY <2>1, <2>2
<1>4. CellType(cell) # "BOOL"
  BY <1>1, <1>2, TypeOfKindIs DEF TypeIn, AltTypes
<1> QED BY <1>1, <1>2, <1>3, <1>4, CellTypeIs, DeclTypeIs

\* Without a declared type, types are those of the cells.
LEMMA NoneKnown ==
  ASSUME TypeOK, decl = "none"
  PROVE  /\ DeclType = "BOOL"
         /\ KnownTypes = {"UNKNOWN"} \cup {TypeOfKind(cells[r]) : r \in 1..Row}
         /\ \A t \in KnownTypes : t \notin AltTypes \cup {"BOOL"}
<1>1. DeclType = "BOOL"
  BY DeclTypeIs DEF TypeOK
<1>2. KnownTypes = {"UNKNOWN"} \cup {TypeOfKind(cells[r]) : r \in 1..Row}
  BY <1>1 DEF KnownTypes, TypeIn, AltTypes
<1>3. \A r \in 1..Row : TypeOfKind(cells[r]) \notin AltTypes \cup {"BOOL"}
  BY RowsAreKinds, TypeOfKindIs
<1>4. "UNKNOWN" \notin AltTypes \cup {"BOOL"}
  BY DEF AltTypes
<1> QED BY <1>1, <1>2, <1>3, <1>4

\* The guess after one more row of kind k, from a type t0 that is known; wide and
\* new are the first wider number without and with this row.
LEMMA GuessNext ==
  ASSUME NEW k \in AllKinds, NEW t0 \in Types \ {"UNKNOWN"}, NEW wide, NEW new,
         \/ wide \in {"INT64", "REAL"} /\ new = wide
         \/ wide = "INT" /\ new = IF k \in WideKinds THEN TypeOfKind(k) ELSE "INT",
         NEW old, old = IF t0 = "INT" THEN wide ELSE t0
  PROVE  (IF k = "null" THEN old ELSE Widened(old, TypeOfKind(k)))
           = IF t0 = "INT" THEN new ELSE t0
<1>1. k \in WideKinds <=> TypeOfKind(k) \in {"INT64", "REAL"}
  BY DEF WideKinds
<1>2. k \in WideKinds => k # "null"
  BY <1>1, TypeOfKindIs
<1> QED BY <1>1, <1>2, WidensIs DEF Widened

\* The loop stores the cell of a row and steps the statement.
LEMMA FetchRowInv == IInv /\ FetchRow => IInv'
<1> SUFFICES ASSUME IInv, FetchRow PROVE IInv'
  OBVIOUS
<1>1. /\ TypeOK /\ CellInv /\ FrameInv /\ ChainInv /\ KnownInv /\ SeenInv /\ GuessInv
      /\ UniformIsExact
  BY DEF IInv
<1>2. /\ pc = "rows" /\ ~complete /\ (n_max < 0 \/ i < n_max)
      /\ seen' = seen \cup {CellType(cell)}
      /\ i' = i + 1
      /\ told' = told \cup {r \in {Row} : cell # "null" /\
                              FetchWarns(Target(last, CellType(cell)).dt, cell)}
      /\ Step
      /\ decl' = decl /\ type' = type /\ ready' = ready /\ pc' = pc /\ n_max' = n_max
      /\ column' = column /\ first' = first /\ from' = from
  BY DEF FetchRow
<1>3. /\ ready /\ Row = first + i /\ Row \in 1..MaxRows
      /\ cell = cells[Row] \/ (Peeked /\ last.dt = "STRING")
      /\ storage' \in Seq(StorageRec) /\ storage' # <<>> /\ Shape(storage')
      /\ \E p : Chain(storage', p, first, i + 1, cells, DeclType)
      /\ storage'[1].dt = StartType(type)
      /\ StorageOK(last) /\ last.dt \in Types /\ last.dt # "BOOL"
      /\ last'.dt = IF cell = "null" THEN last.dt ELSE Widened(last.dt, CellType(cell))
  BY RowGrows
<1>4. /\ cells' \in Seq(Kinds) /\ complete' \in BOOLEAN
      /\ Row \in Nat /\ Row' \in Nat /\ Row <= Row' /\ Row' <= MaxRows
      /\ \A r \in 1..Row : cells'[r] = cells[r]
      /\ \/ complete' /\ Row' = Row /\ cell' = "null"
         \/ ~complete' /\ Row' = Row + 1 /\ cell' = cells'[Row'] /\ cell' \in Kinds
            /\ cells' # <<>>
  <2>1. cells \in Seq(Kinds) /\ Row <= MaxRows
    BY <1>1 DEF TypeOK, Row
  <2> QED BY <1>2, <2>1, StepIs
<1>5. DeclType' = DeclType /\ KnownTypes \subseteq KnownTypes' /\ (Uniform' => Uniform)
  BY <1>2, <1>4, MoreRows
<1>6. i \in Nat /\ first \in Nat /\ MaxRows \in Nat /\ n_max \in Int
  BY <1>1, RowsAreKinds
<1>7. /\ cell \in AllKinds /\ CellType(cell) \in KnownTypes \cup {DeclType}
      /\ DeclType \in Types /\ DeclType # "UNKNOWN"
      /\ CellType(cell) = TypeIn(DeclType, cell) /\ CellType(cell) \in Types
      /\ cell # "null" => CellType(cell) # "UNKNOWN"
      /\ CellType(cell) # "BOOL"
  BY <1>1, <1>3, CellKnown
<1>8. i' \in Nat /\ i' \in 0..MaxRows /\ i' > 0
      /\ first >= 1 /\ first' + i' - 1 = Row /\ first' + i' - 1 <= Row'
  <2>1. i' = i + 1 /\ first' = first
    BY <1>2
  <2>2. first >= 1
    <3>1. i = 0 => first >= 1
      BY <1>3, <1>6
    <3>2. i > 0 => first >= 1
      BY <1>1 DEF FrameInv
    <3> QED BY <1>6, <3>1, <3>2
  <2> QED BY <1>3, <1>4, <1>6, <2>1, <2>2
<1>9. \E p : Chain(storage', p, first', i', cells', DeclType')
  <2>1. PICK p : Chain(storage', p, first, i + 1, cells, DeclType)
    BY <1>3
  <2>2. \A r \in Nat : first <= r /\ r <= (first - 1) + (i + 1) => cells'[r] = cells[r]
    <3> SUFFICES ASSUME NEW r \in Nat, first <= r, r <= (first - 1) + (i + 1)
                 PROVE  cells'[r] = cells[r]
      OBVIOUS
    <3>1. r \in 1..Row
      BY <1>3, <1>6, <1>8
    <3> QED BY <1>4, <3>1
  <2>3. Chain(storage', p, first, i + 1, cells', DeclType)
    <3>1. i + 1 \in Nat
      BY <1>6
    <3> QED BY <1>6, <2>1, <2>2, <3>1, ChainKept
  <2> QED BY <1>2, <1>5, <2>3, Zenon
<1>10. ChainInv'
  BY <1>2, <1>3, <1>9 DEF ChainInv
<1>11. TypeOK'
  <2>1. StoragesOK(storage')
    BY <1>3, <1>9, ChainTyped
  <2>2. cell' \in AllKinds /\ Len(cells') <= MaxRows
    BY <1>4, ConstantsAssumption DEF AllKinds, Row
  <2>3. seen' \subseteq Types /\ told' \subseteq 1..MaxRows
    BY <1>1, <1>2, <1>3, <1>7 DEF TypeOK
  <2> QED BY <1>1, <1>2, <1>4, <1>8, <2>1, <2>2, <2>3 DEF TypeOK, StoragesOK
<1>12. IdleInv' /\ CellInv'
  BY <1>1, <1>2, <1>3, <1>4 DEF IdleInv, CellInv
<1>13. FrameInv'
  <2>1. i' > 0 => first' >= 1 /\ first' + i' - 1 <= Row'
    BY <1>2, <1>8
  <2>2. ready' /\ from' = type' /\ n_max' \in FetchSizes
    BY <1>1, <1>2, <1>3 DEF FrameInv
  <2>3. Row' = IF complete' /\ i' > 0 THEN first' + i' - 1 ELSE first' + i'
    BY <1>2, <1>4, <1>6, <1>8
  <2>4. n_max' >= 0 => i' <= n_max'
    BY <1>2, <1>6
  <2> QED BY <2>1, <2>2, <2>3, <2>4 DEF FrameInv
<1>14. KnownInv'
  <2>1. CellType(cell) \in KnownTypes
    BY <1>7 DEF KnownTypes
  <2>2. last'.dt \in KnownTypes
    <3>1. last.dt \in KnownTypes
      BY <1>1, <1>2 DEF KnownInv
    <3> QED BY <1>3, <2>1, <3>1 DEF Widened
  <2> QED BY <1>1, <1>2, <1>5, <2>1, <2>2 DEF KnownInv
<1>15. SeenInv'
  <2>1. ASSUME NEW r \in first'..(first' + i' - 1)
        PROVE  TypeIn(DeclType', cells'[r]) \in seen' \/ (cells'[r] = "blob" /\ r \in told')
    <3>1. r \in first..Row /\ r \in 1..Row /\ cells'[r] = cells[r]
      BY <1>2, <1>3, <1>4, <1>6, <1>8
    <3>2. CASE r = Row
      <4>1. CASE cell = cells[Row]
        BY <1>2, <1>5, <1>7, <3>1, <3>2, <4>1
      <4>2. CASE Peeked
        BY <1>2, <3>1, <3>2, <4>2 DEF Peeked
      <4> QED BY <1>3, <4>1, <4>2
    <3>3. CASE r # Row
      <4>1. r \in first..(first + i - 1)
        BY <1>3, <1>6, <3>1, <3>3
      <4> QED BY <1>1, <1>2, <1>5, <3>1, <4>1 DEF SeenInv
    <3> QED BY <3>2, <3>3
  <2>2. ASSUME NEW t \in seen'
        PROVE  ~Widens(last'.dt, t) /\ (t \notin AltTypes \cup {"UNKNOWN"} => last'.dt # "UNKNOWN")
    <3>1. CASE t \in seen
      <4>1. ~Widens(last.dt, t) /\ (t \notin AltTypes \cup {"UNKNOWN"} => last.dt # "UNKNOWN")
        BY <1>1, <1>2, <3>1 DEF SeenInv
      <4> QED BY <1>3, <1>7, <4>1, WidensIs DEF Widened, AltTypes
    <3>2. CASE t = CellType(cell)
      <4>1. cell = "null" => t \in AltTypes \cup {"UNKNOWN"}
        BY <1>7, <3>2, TypeOfKindIs DEF TypeIn
      <4> QED BY <1>3, <1>7, <3>2, <4>1, WidensIs DEF Widened, AltTypes
    <3> QED BY <1>2, <3>1, <3>2
  <2> QED BY <2>1, <2>2 DEF SeenInv
<1>16. GuessInv'
  <2> SUFFICES ASSUME DeclType \notin AltTypes
               PROVE  last'.dt = IF Guess' = "INT" THEN FirstIn(WideKinds, "INT")' ELSE Guess'
    BY <1>5 DEF GuessInv
  <2> DEFINE k == cells[Row]
             t0 == IF StartType(from) = "UNKNOWN" THEN FirstIn(ValueKinds, "UNKNOWN") ELSE from
  <2>1. last.dt = IF t0 = "INT" THEN FirstIn(WideKinds, "INT") ELSE t0
    BY <1>1, <1>2 DEF GuessInv, Guess
  <2>2. /\ \A j \in 1..i : FrameKinds'[j] = FrameKinds[j]
        /\ FrameKinds'[i + 1] = k
    <3>1. ASSUME NEW j \in 1..i
          PROVE  j \in 1..i' /\ first' + j - 1 = first + j - 1
                 /\ cells'[first + j - 1] = cells[first + j - 1]
      <4>1. first + j - 1 \in 1..Row
        BY <1>3, <1>6, <1>8
      <4> QED BY <1>2, <1>4, <1>6, <4>1
    <3>2. i + 1 \in 1..i' /\ first' + (i + 1) - 1 = Row /\ cells'[Row] = cells[Row]
      BY <1>2, <1>3, <1>4, <1>6
    <3> QED BY <3>1, <3>2 DEF FrameKinds
  <2>3. \A K, default :
          FirstIn(K, default)' =
            IF \E j \in 1..i : FrameKinds[j] \in K THEN FirstIn(K, default)
            ELSE IF k \in K THEN TypeOfKind(k) ELSE default
    <3> SUFFICES ASSUME NEW K, NEW default
                 PROVE  FirstIn(K, default)' =
                          IF \E j \in 1..i : FrameKinds[j] \in K THEN FirstIn(K, default)
                          ELSE IF k \in K THEN TypeOfKind(k) ELSE default
      OBVIOUS
    <3> HIDE DEF k
    <3> DEFINE g == FrameKinds
               h == FrameKinds'
    <3>1. (\A j \in 1..i : h[j] = g[j]) /\ h[i + 1] = k
      BY <2>2
    <3> HIDE DEF g, h
    <3>2. /\ (\E j \in 1..i : g[j] \in K) =>
               FirstOf(h, i + 1, K, default) = FirstOf(g, i, K, default)
          /\ ~(\E j \in 1..i : g[j] \in K) =>
               FirstOf(h, i + 1, K, default) =
                 IF h[i + 1] \in K THEN TypeOfKind(h[i + 1]) ELSE default
      <4>1. \A j \in 1..i : h[j] = g[j]
        BY <3>1
      <4>2. (\E j \in 1..i : g[j] \in K) =>
               FirstOf(h, i + 1, K, default) = FirstOf(g, i, K, default)
        <5>1. i \in Nat /\ Agree(g, h, i)
          BY <1>6, <4>1 DEF Agree
        <5>2. ASSUME AnyOf(g, i, K)
              PROVE  FirstOf(h, i + 1, K, default) = FirstOf(g, i, K, default)
          BY <5>1, <5>2, FirstOfStays
        <5> QED BY <5>2, Zenon DEF AnyOf
      <4>3. ~(\E j \in 1..i : g[j] \in K) /\ h[i + 1] \in K =>
               FirstOf(h, i + 1, K, default) = TypeOfKind(h[i + 1])
        <5> SUFFICES ASSUME ~(\E j \in 1..i : g[j] \in K), h[i + 1] \in K
                     PROVE  FirstOf(h, i + 1, K, default) = TypeOfKind(h[i + 1])
          OBVIOUS
        <5>1. i + 1 \in Nat /\ i + 1 \in 1..(i + 1)
          BY <1>6
        <5>2. \A m \in 1..((i + 1) - 1) : h[m] \notin K
          BY <1>6, <4>1
        <5> QED BY <5>1, <5>2, FirstOfIs
      <4>4. ~(\E j \in 1..i : g[j] \in K) /\ h[i + 1] \notin K =>
               FirstOf(h, i + 1, K, default) = default
        <5>1. i \in Nat /\ Agree(g, h, i)
          BY <1>6, <4>1 DEF Agree
        <5>2. ASSUME ~AnyOf(g, i, K), h[i + 1] \notin K
              PROVE  FirstOf(h, i + 1, K, default) = default
          BY <5>1, <5>2, FirstOfNone
        <5> QED BY <5>2, Zenon DEF AnyOf
      <4> QED BY <4>2, <4>3, <4>4, Zenon
    <3>3. FirstIn(K, default) = FirstOf(g, i, K, default)
          /\ FirstIn(K, default)' = FirstOf(h, i + 1, K, default)
      BY <1>2, FirstInIs, Zenon DEF g, h
    <3>4. FirstIn(K, default)' =
            IF \E j \in 1..i : g[j] \in K THEN FirstIn(K, default)
            ELSE IF k \in K THEN TypeOfKind(k) ELSE default
      BY <3>1, <3>2, <3>3, Zenon
    <3> QED BY <3>4, Zenon DEF g
  <2>4. k \in AllKinds /\ (k \in ValueKinds <=> k # "null")
    BY <1>1, <1>3, RowsAreKinds DEF ValueKinds
  <2>5. from = type /\ from' = from /\ from \in Types
    BY <1>1, <1>2 DEF FrameInv, TypeOK
  <2>6. Guess' = IF StartType(from) = "UNKNOWN" THEN FirstIn(ValueKinds, "UNKNOWN")' ELSE from
    BY <1>2 DEF Guess
  <2>7. CASE cell # k
    <3>1. last.dt = "STRING" /\ type = "STRING"
      BY <1>3, <2>7 DEF Peeked
    <3>2. Guess' = "STRING"
      BY <2>5, <2>6, <3>1 DEF StartType
    <3> QED BY <1>3, <3>1, <3>2, WidensIs DEF Widened
  <2>8. CASE cell = k
    <3>1. last'.dt = IF k = "null" THEN last.dt ELSE Widened(last.dt, TypeOfKind(k))
      BY <1>3, <1>7, <2>8 DEF TypeIn
    <3> HIDE DEF t0, k
    <3>2. CASE t0 # "UNKNOWN"
      <4>1. t0 \in Types /\ Guess' = t0
        <5>1. CASE StartType(from) # "UNKNOWN"
          BY <2>5, <2>6, <5>1 DEF t0
        <5>2. CASE StartType(from) = "UNKNOWN"
          <6>1. t0 = FirstIn(ValueKinds, "UNKNOWN")
            BY <5>2 DEF t0
          <6>2. \E j \in 1..i : FrameKinds[j] \in ValueKinds
            BY <3>2, <6>1, Zenon DEF FirstIn
          <6>3. t0 = FirstOf(FrameKinds, i, ValueKinds, "UNKNOWN")
            BY <6>1, FirstInIs
          <6>4. PICK w \in ValueKinds : t0 = TypeOfKind(w)
            BY <1>6, <6>2, <6>3, FirstOfType
          <6>5. t0 \in Types
            BY <6>4, TypeOfKindIs DEF ValueKinds
          <6> QED BY <2>3, <2>6, <5>2, <6>1, <6>2, <6>5
        <5> QED BY <5>1, <5>2
      <4>2. FirstIn(WideKinds, "INT")' =
              IF \E j \in 1..i : FrameKinds[j] \in WideKinds THEN FirstIn(WideKinds, "INT")
              ELSE IF k \in WideKinds THEN TypeOfKind(k) ELSE "INT"
        BY <2>3
      <4>3. (IF k = "null" THEN last.dt ELSE Widened(last.dt, TypeOfKind(k)))
              = IF t0 = "INT" THEN FirstIn(WideKinds, "INT")' ELSE t0
        <5> DEFINE wide == FirstIn(WideKinds, "INT")
                   new == FirstIn(WideKinds, "INT")'
        <5>1. \/ wide \in {"INT64", "REAL"} /\ new = wide
              \/ wide = "INT" /\ new = IF k \in WideKinds THEN TypeOfKind(k) ELSE "INT"
          <6>1. CASE \E j \in 1..i : FrameKinds[j] \in WideKinds
            <7>1. wide = FirstOf(FrameKinds, i, WideKinds, "INT")
              BY FirstInIs
            <7>2. PICK w \in WideKinds : wide = TypeOfKind(w)
              BY <1>6, <6>1, <7>1, FirstOfType
            <7>3. wide \in {"INT64", "REAL"}
              BY <7>2 DEF WideKinds
            <7> QED BY <4>2, <6>1, <7>3
          <6>2. CASE ~\E j \in 1..i : FrameKinds[j] \in WideKinds
            <7>1. wide = "INT"
              BY <6>2, Zenon DEF FirstIn
            <7> QED BY <4>2, <6>2, <7>1
          <6> QED BY <6>1, <6>2
        <5>2. last.dt = IF t0 = "INT" THEN wide ELSE t0
          BY <2>1
        <5> HIDE DEF wide, new
        <5>3. (IF k = "null" THEN last.dt ELSE Widened(last.dt, TypeOfKind(k)))
                = IF t0 = "INT" THEN new ELSE t0
          BY <2>4, <3>2, <4>1, <5>1, <5>2, GuessNext
        <5> QED BY <5>3 DEF new
      <4> QED BY <3>1, <4>1, <4>3, Zenon
    <3>3. CASE t0 = "UNKNOWN"
      <4>1. StartType(from) = "UNKNOWN" /\ t0 = FirstIn(ValueKinds, "UNKNOWN")
        BY <3>3 DEF t0, StartType
      <4>2. ~\E j \in 1..i : FrameKinds[j] \in ValueKinds
        <5> SUFFICES ASSUME \E j \in 1..i : FrameKinds[j] \in ValueKinds PROVE FALSE
          OBVIOUS
        <5>1. t0 = FirstOf(FrameKinds, i, ValueKinds, "UNKNOWN")
          BY <4>1, FirstInIs
        <5>2. PICK w \in ValueKinds : t0 = TypeOfKind(w)
          BY <1>6, <5>1, FirstOfType
        <5> QED BY <3>3, <5>2, TypeOfKindIs DEF ValueKinds
      <4>3. ~\E j \in 1..i : FrameKinds[j] \in WideKinds
        BY <4>2, TypeOfKindIs DEF WideKinds, ValueKinds
      <4>4. Guess' = IF k \in ValueKinds THEN TypeOfKind(k) ELSE "UNKNOWN"
        BY <2>3, <2>6, <4>1, <4>2
      <4>5. FirstIn(WideKinds, "INT")' = IF k \in WideKinds THEN TypeOfKind(k) ELSE "INT"
        BY <2>3, <4>3
      <4>6. last.dt = "UNKNOWN"
        BY <2>1, <3>3
      <4>7. last'.dt = IF k = "null" THEN "UNKNOWN" ELSE TypeOfKind(k)
        BY <3>1, <4>6 DEF Widened
      <4>8. TypeOfKind(k) = "INT" => k \notin WideKinds
        BY DEF WideKinds
      <4> QED BY <2>4, <4>4, <4>5, <4>7, <4>8
    <3> QED BY <3>2, <3>3
  <2> QED BY <2>7, <2>8
<1>17. ValuesInPlace' /\ TypeIsGuessed' /\ ~Fetching'
  BY <1>2 DEF ValuesInPlace, Fetching, TypeIsGuessed
<1>18. UniformIsExact'
  <2> SUFFICES ASSUME decl = "none", Uniform PROVE told' = {}
    BY <1>2, <1>5, <1>17 DEF UniformIsExact
  <2>1. told = {}
    BY <1>1 DEF UniformIsExact
  <2>2. ASSUME cell # "null" PROVE Target(last, CellType(cell)).dt \notin AltTypes
    <3>1. Target(last, CellType(cell)).dt \in {last.dt, CellType(cell)}
      <4>1. CellType(cell) \in Types \ {"UNKNOWN"}
        BY <1>7, <2>2
      <4> QED BY <1>3, <1>6, <4>1, TargetIs
    <3>2. last.dt \in KnownTypes /\ CellType(cell) \in KnownTypes
      BY <1>1, <1>2, <1>7 DEF KnownInv, KnownTypes
    <3> QED BY <1>1, <3>1, <3>2, NoneKnown
  <2> QED BY <1>2, <2>1, <2>2 DEF FetchWarns
<1> QED BY <1>10, <1>11, <1>12, <1>13, <1>14, <1>15, <1>16, <1>17, <1>18 DEF IInv

\* What the end of a fetch returns.
LEMMA EndReturns ==
  ASSUME IInv, FetchEnd
  PROVE  /\ last.dt \in Types /\ last.dt # "BOOL" /\ last.dt \in KnownTypes
         /\ type' = IF last.dt = "UNKNOWN" THEN DeclType ELSE last.dt
         /\ last.dt = StartType(type) \/ StartType(type) = "UNKNOWN"
              \/ Widens(StartType(type), last.dt)
         /\ column' \in Seq(Values) /\ Len(column') = i /\ DOMAIN column' = 1..i
         /\ \A j \in 1..i :
              /\ RowAt(j) \in 1..Row /\ RowAt(j) \in first..(first + i - 1)
              /\ cells[RowAt(j)] \in AllKinds
              /\ Placed(column'[j], last.dt, RowAt(j), cells[RowAt(j)], DeclType)
<1>1. TypeOK /\ FrameInv /\ ChainInv /\ KnownInv
  BY DEF IInv
<1>2. pc = "rows" /\ type' = TypeOf(storage) /\ column' = VectorOf(storage)
  BY DEF FetchEnd
<1>3. /\ storage \in Seq(StorageRec) /\ storage # <<>>
      /\ Shape(storage) /\ storage[1].dt = StartType(type)
  BY <1>1, <1>2 DEF ChainInv
<1>4. PICK o : Chain(storage, o, first, i, cells, DeclType)
  BY <1>1, <1>2 DEF ChainInv
<1>5. Len(storage) \in Nat \ {0} /\ 1 \in 1..Len(storage) /\ last = storage[Len(storage)]
  BY <1>3 DEF last
<1>6. i \in Nat /\ first \in Nat /\ decl \in Decls /\ Row \in Nat
  BY <1>1, RowsAreKinds DEF TypeOK
<1>7. last.dt \in Types
  <2>1. StorageOK(last)
    BY <1>4, <1>5 DEF Chain
  <2> QED BY <2>1, StorageIs
<1>8. last.dt \in KnownTypes /\ last.dt # "BOOL"
  <2>1. last.dt \in KnownTypes
    BY <1>1, <1>2 DEF KnownInv
  <2>2. \A r \in 1..Row : TypeIn(DeclType, cells[r]) # "BOOL"
    BY <1>1, RowsAreKinds, TypeOfKindIs DEF TypeIn, AltTypes
  <2> QED BY <2>1, <2>2 DEF KnownTypes
<1>9. type' = IF last.dt = "UNKNOWN" THEN DeclType ELSE last.dt
  BY <1>2, <1>5 DEF TypeOf
<1>10. last.dt = StartType(type) \/ StartType(type) = "UNKNOWN"
         \/ Widens(StartType(type), last.dt)
  BY <1>3, <1>5, WidensIs DEF Shape
<1>11. /\ VectorOf(storage) \in Seq(Values) /\ Len(VectorOf(storage)) = i
       /\ \A j \in 1..i : Placed(VectorOf(storage)[j], storage[Len(storage)].dt,
                                 (first - 1) + j, cells[(first - 1) + j], DeclType)
  BY <1>3, <1>4, <1>6, VectorPlaces
<1>12. column' \in Seq(Values) /\ Len(column') = i /\ DOMAIN column' = 1..i
  <2>1. column' \in Seq(Values) /\ Len(column') = i
    BY <1>2, <1>11, Zenon
  <2> QED BY <2>1
<1>13. ASSUME NEW j \in 1..i
       PROVE  /\ RowAt(j) \in 1..Row /\ RowAt(j) \in first..(first + i - 1)
              /\ cells[RowAt(j)] \in AllKinds
              /\ Placed(column'[j], last.dt, RowAt(j), cells[RowAt(j)], DeclType)
  <2>1. RowAt(j) = (first - 1) + j
    BY <1>6 DEF RowAt
  <2>2. first >= 1 /\ first + i - 1 <= Row
    BY <1>1, <1>6 DEF FrameInv
  <2>3. RowAt(j) \in 1..Row /\ RowAt(j) \in first..(first + i - 1)
    BY <1>6, <2>1, <2>2
  <2>4. cells[RowAt(j)] \in AllKinds
    BY <1>1, <2>3, RowsAreKinds
  <2>5. Placed(column'[j], last.dt, RowAt(j), cells[RowAt(j)], DeclType)
    BY <1>2, <1>5, <1>11, <2>1, Zenon
  <2> QED BY <2>3, <2>4, <2>5
<1> QED BY <1>7, <1>8, <1>9, <1>10, <1>12, <1>13

\* Cells of one storage class: none is converted with loss by a storage of a
\* type that goes with one of them, and none conflicts with it.
LEMMA SameClass ==
  \A k, l \in ValueKinds :
    StorageClass(k) = StorageClass(l) =>
      /\ \A dt : (dt = TypeOfKind(l) \/ Widens(dt, TypeOfKind(l)))
                 /\ ~Widens(dt, TypeOfKind(k)) => k \in Exact(dt) \cup Unreadable(dt)
      /\ ~Widens(TypeOfKind(l), TypeOfKind(k)) =>
           \/ TypeOfKind(k) = TypeOfKind(l)
           \/ TypeOfKind(k) = "INT" /\ TypeOfKind(l) \in {"INT64", "REAL"}
<1> SUFFICES ASSUME NEW k \in ValueKinds, NEW l \in ValueKinds, StorageClass(k) = StorageClass(l)
             PROVE  /\ \A dt : (dt = TypeOfKind(l) \/ Widens(dt, TypeOfKind(l)))
                          /\ ~Widens(dt, TypeOfKind(k)) => k \in Exact(dt) \cup Unreadable(dt)
                    /\ ~Widens(TypeOfKind(l), TypeOfKind(k)) =>
                         \/ TypeOfKind(k) = TypeOfKind(l)
                         \/ TypeOfKind(k) = "INT" /\ TypeOfKind(l) \in {"INT64", "REAL"}
  OBVIOUS
<1> DEFINE Integers == {"int", "intmin", "long", "longmin"}
           Texts == {"text", "date"}
<1>1. {k, l} \subseteq Integers \/ {k, l} \subseteq Texts \/ k = l
  BY DEF StorageClass, ValueKinds, AllKinds
<1>2. CASE {k, l} \subseteq Integers
  <2>1. TypeOfKind(k) \in {"INT", "INT64"} /\ TypeOfKind(l) \in {"INT", "INT64"}
    BY <1>2, KindsOfTypes
  <2>2. k \in Exact("INT64") \cup Unreadable("INT64")
    BY <1>2, ExactIs, UnreadableIs
  <2>3. TypeOfKind(k) = "INT" => k \in Exact("INT") \cup Unreadable("INT")
    BY <1>2, KindsOfTypes, ExactIs, UnreadableIs
  <2> QED BY <2>1, <2>2, <2>3, WidensIs
<1>3. CASE {k, l} \subseteq Texts
  BY <1>3, KindsOfTypes, ExactIs, WidensIs
<1>4. CASE k = l
  <2>1. k \in Exact(TypeOfKind(k)) \cup Unreadable(TypeOfKind(k))
    BY KindsOfTypes, ExactIs, UnreadableIs DEF ValueKinds, AllKinds
  <2> QED BY <1>4, <2>1
<1> QED BY <1>1, <1>2, <1>4, <1>3

\* Without a declared type, a known type is that of a value.
LEMMA KnownIsOfValue ==
  ASSUME TypeOK, decl = "none", Uniform, NEW t \in KnownTypes, t # "UNKNOWN"
  PROVE  \E l \in ValueKinds :
           /\ t = TypeOfKind(l)
           /\ \A r \in 1..Row : cells[r] # "null" => StorageClass(cells[r]) = StorageClass(l)
<1>1. PICK q \in 1..Row : t = TypeOfKind(cells[q])
  BY NoneKnown
<1>2. cells[q] \in ValueKinds
  BY <1>1, RowsAreKinds, TypeOfKindIs DEF ValueKinds
<1>3. \A r \in 1..Row : cells[r] # "null" => StorageClass(cells[r]) = StorageClass(cells[q])
  BY <1>2, Zenon DEF Uniform, ValueKinds
<1> QED BY <1>1, <1>2, <1>3

\* Nothing seen in a uniform column conflicts with its type.
LEMMA NoConflict ==
  ASSUME TypeOK, decl = "none", Uniform, NEW ss, ss[Len(ss)].dt \in KnownTypes,
         NEW types, types \subseteq KnownTypes,
         \A t \in types \ {"UNKNOWN"} : ss[Len(ss)].dt # "UNKNOWN" /\ ~Widens(ss[Len(ss)].dt, t)
  PROVE  Conflicts(ss, types) = {}
<1> DEFINE to == ss[Len(ss)].dt
<1> SUFFICES ASSUME NEW t \in types, t # "UNKNOWN",
                    t # TypeOf(ss), ~(TypeOf(ss) \in {"REAL", "INT64"} /\ t = "INT")
             PROVE  FALSE
  BY DEF Conflicts
<1>1. to # "UNKNOWN" /\ ~Widens(to, t) /\ t \in KnownTypes /\ to \in KnownTypes
  OBVIOUS
<1>2. TypeOf(ss) = to
  BY <1>1 DEF TypeOf
<1> HIDE DEF to
<1>3. PICK l \in ValueKinds :
        /\ to = TypeOfKind(l)
        /\ \A r \in 1..Row : cells[r] # "null" => StorageClass(cells[r]) = StorageClass(l)
  BY <1>1, KnownIsOfValue
<1>4. PICK q \in 1..Row : t = TypeOfKind(cells[q])
  BY <1>1, NoneKnown
<1>5. cells[q] \in ValueKinds /\ cells[q] # "null"
  BY <1>4, RowsAreKinds, TypeOfKindIs DEF ValueKinds
<1>6. StorageClass(cells[q]) = StorageClass(l)
  BY <1>3, <1>5
<1> QED BY <1>1, <1>2, <1>3, <1>4, <1>5, <1>6, SameClass

\* The end of a fetch copies the chain to one vector and keeps the type.
LEMMA FetchEndInv == IInv /\ FetchEnd => IInv'
<1> SUFFICES ASSUME IInv, FetchEnd PROVE IInv'
  OBVIOUS
<1>1. /\ TypeOK /\ CellInv /\ FrameInv /\ KnownInv /\ SeenInv /\ GuessInv /\ UniformIsExact
  BY DEF IInv
<1>2. /\ pc = "rows" /\ pc' = "idle"
      /\ told' = told \cup IF Conflicts(storage, seen) = {} THEN {} ELSE first..(first + i - 1)
      /\ storage' = <<>> /\ seen' = {}
      /\ decl' = decl /\ ready' = ready /\ complete' = complete /\ cell' = cell
      /\ n_max' = n_max /\ i' = i /\ cells' = cells /\ first' = first /\ from' = from
  BY DEF FetchEnd
<1>3. /\ last.dt \in Types /\ last.dt # "BOOL" /\ last.dt \in KnownTypes
      /\ type' = IF last.dt = "UNKNOWN" THEN DeclType ELSE last.dt
      /\ last.dt = StartType(type) \/ StartType(type) = "UNKNOWN"
           \/ Widens(StartType(type), last.dt)
      /\ column' \in Seq(Values) /\ Len(column') = i /\ DOMAIN column' = 1..i
      /\ \A j \in 1..i :
           /\ RowAt(j) \in 1..Row /\ RowAt(j) \in first..(first + i - 1)
           /\ cells[RowAt(j)] \in AllKinds
           /\ Placed(column'[j], last.dt, RowAt(j), cells[RowAt(j)], DeclType)
  BY EndReturns
<1>4. /\ Row \in Nat /\ Row <= MaxRows /\ n_max \in Int /\ i \in Nat /\ first \in Nat
      /\ MaxRows \in Nat
  BY <1>1, RowsAreKinds
<1>5. /\ DeclType' = DeclType /\ KnownTypes' = KnownTypes /\ Row' = Row /\ (Uniform' <=> Uniform)
      /\ DeclType \in Types /\ DeclType # "UNKNOWN"
  <2>1. DeclType' = DeclType
    BY <1>2 DEF DeclType
  <2> QED BY <1>1, <1>2, <2>1, DeclTypeIs DEF KnownTypes, Row, Uniform, TypeOK
<1>6. TypeOK'
  <2>1. told' \subseteq 1..MaxRows
    <3>1. \A r \in first..(first + i - 1) : r \in 1..MaxRows
      <4>1. i > 0 => first >= 1 /\ first + i - 1 <= Row
        BY <1>1 DEF FrameInv
      <4> QED BY <1>4, <4>1
    <3> QED BY <1>1, <1>2, <3>1 DEF TypeOK
  <2>2. type' \in Types
    BY <1>3, <1>5
  <2>3. \A k \in DOMAIN storage' : FALSE
    BY <1>2
  <2>4. seen' \subseteq Types /\ pc' \in {"idle", "rows"}
    BY <1>2
  <2> QED BY <1>1, <1>2, <1>3, <2>1, <2>2, <2>3, <2>4 DEF TypeOK
<1>7. CellInv'
  <2>1. Peeked => Peeked'
    <3> SUFFICES ASSUME Peeked PROVE Peeked'
      OBVIOUS
    <3>1. StartType(type) = "STRING"
      BY DEF Peeked, StartType
    <3>2. type' = "STRING"
      BY <1>3, <3>1, WidensIs
    <3> QED BY <1>2, <1>5, <3>2 DEF Peeked
  <2>2. ready /\ (~complete => cells # <<>> /\ (cell = cells[Row] \/ Peeked))
    BY <1>1, <1>2 DEF CellInv, FrameInv
  <2>3. complete => cell = "null"
    BY <1>1 DEF CellInv
  <2> QED BY <1>2, <1>5, <2>1, <2>2, <2>3 DEF CellInv
<1>8. IdleInv' /\ ChainInv' /\ SeenInv' /\ GuessInv'
  BY <1>2 DEF IdleInv, ChainInv, SeenInv, GuessInv
<1>9. FrameInv'
  BY <1>1, <1>2, <1>5 DEF FrameInv
<1>10. KnownInv'
  BY <1>2, <1>3, <1>5 DEF KnownInv
<1>11. \A j \in 1..i : RowAt(j)' = RowAt(j) /\ cells'[RowAt(j)'] = cells[RowAt(j)]
  BY <1>2 DEF RowAt
<1>12. ValuesInPlace'
  <2>1. Len(column') = i'
    BY <1>2, <1>3
  <2>2. ASSUME NEW j \in 1..i
        PROVE  /\ column'[j] = NA \/ column'[j][1] = RowAt(j)
               /\ cells[RowAt(j)] = "null" => column'[j] = NA
               /\ column'[j][2] # "garbage"
    <3> DEFINE r == RowAt(j)
               k == cells[r]
               v == column'[j]
    <3>1. Placed(v, last.dt, r, k, DeclType) /\ r \in 1..MaxRows
      BY <1>3, <1>4
    <3> HIDE DEF r, k, v
    <3>2. CASE k = "null"
      BY <3>1, <3>2 DEF Placed, NA, r, k, v
    <3>3. CASE k # "null"
      <4>1. PICK dt : v = Fetched(dt, r, k)
        BY <3>1, <3>3 DEF Placed
      <4>2. (v = NA \/ v[1] = r) /\ v[2] # "garbage"
        BY <3>1, <4>1, FetchedIs
      <4> QED BY <3>3, <4>2 DEF r, k, v
    <3> QED BY <3>2, <3>3
  <2> QED BY <1>3, <1>11, <2>1, <2>2, Zenon DEF ValuesInPlace
<1>13. TypeIsGuessed'
  <2> SUFFICES ASSUME i > 0, DeclType \notin AltTypes
               PROVE  LET guess == IF StartType(from) = "UNKNOWN"
                                   THEN FirstIn(ValueKinds, DeclType) ELSE from
                          known == StartType(from) # "UNKNOWN"
                                     \/ \E j \in 1..i : FrameKinds[j] \in ValueKinds
                      IN  type' = IF guess = "INT" /\ known
                                  THEN FirstIn(WideKinds, "INT") ELSE guess
    <3>1. FrameKinds' = FrameKinds
      BY <1>2 DEF FrameKinds
    <3>2. \A K, default : FirstIn(K, default)' = FirstIn(K, default)
      BY <1>2, <3>1, FirstInIs, Zenon
    <3> QED BY <1>2, <1>5, <3>1, <3>2, Zenon DEF TypeIsGuessed
  <2>1. last.dt = IF Guess = "INT" THEN FirstIn(WideKinds, "INT") ELSE Guess
    BY <1>1, <1>2 DEF GuessInv
  <2>2. FirstIn(WideKinds, "INT") \in {"INT", "INT64", "REAL"}
    <3>1. CASE \E j \in 1..i : FrameKinds[j] \in WideKinds
      <4>1. PICK w \in WideKinds : FirstIn(WideKinds, "INT") = TypeOfKind(w)
        BY <1>4, <3>1, FirstInIs, FirstOfType
      <4> QED BY <4>1 DEF WideKinds
    <3>2. CASE ~\E j \in 1..i : FrameKinds[j] \in WideKinds
      BY <3>2, Zenon DEF FirstIn
    <3> QED BY <3>1, <3>2
  <2>3. CASE StartType(from) # "UNKNOWN"
    <3>1. Guess = from /\ from # "UNKNOWN"
      BY <2>3 DEF Guess, StartType
    <3> QED BY <1>3, <2>1, <2>2, <2>3, <3>1
  <2>4. CASE StartType(from) = "UNKNOWN" /\ \E j \in 1..i : FrameKinds[j] \in ValueKinds
    <3>1. Guess = FirstIn(ValueKinds, DeclType)
      <4>1. Guess = FirstIn(ValueKinds, "UNKNOWN")
        BY <2>4, Zenon DEF Guess
      <4>2. FirstIn(ValueKinds, "UNKNOWN") = FirstIn(ValueKinds, DeclType)
        BY <2>4 DEF FirstIn
      <4> QED BY <4>1, <4>2, Zenon
    <3>2. PICK w \in ValueKinds : Guess = TypeOfKind(w)
      BY <1>4, <2>4, <3>1, FirstInIs, FirstOfType
    <3>3. Guess # "UNKNOWN"
      BY <3>2, TypeOfKindIs DEF ValueKinds
    <3> QED BY <1>3, <2>1, <2>2, <2>4, <3>1, <3>3
  <2>5. CASE StartType(from) = "UNKNOWN" /\ ~\E j \in 1..i : FrameKinds[j] \in ValueKinds
    <3>1. Guess = "UNKNOWN" /\ FirstIn(ValueKinds, DeclType) = DeclType
      BY <2>5, Zenon DEF Guess, FirstIn
    <3> QED BY <1>3, <2>1, <2>5, <3>1
  <2> QED BY <2>3, <2>4, <2>5
<1>14. UniformIsExact'
  <2> SUFFICES ASSUME decl = "none", Uniform
               PROVE  /\ told' = {}
                      /\ \A j \in 1..i :
                           \/ column'[j] = <<RowAt(j), "exact">>
                           \/ /\ column'[j] = NA
                              /\ cells[RowAt(j)] \in {"null"} \cup SmallestIntegers
    BY <1>2, <1>3, <1>5, <1>11 DEF UniformIsExact
  <2>1. told' = {}
    <3>1. seen \subseteq KnownTypes /\ (\A t \in KnownTypes : t \notin AltTypes)
      BY <1>1, NoneKnown DEF KnownInv
    <3>2. \A t \in seen \ {"UNKNOWN"} : last.dt # "UNKNOWN" /\ ~Widens(last.dt, t)
      BY <1>1, <1>2, <3>1 DEF SeenInv
    <3>3. Conflicts(storage, seen) = {}
      BY <1>1, <1>3, <3>1, <3>2, NoConflict DEF last
    <3> QED BY <1>1, <1>2, <3>3 DEF UniformIsExact
  <2>2. ASSUME NEW j \in 1..i
        PROVE  \/ column'[j] = <<RowAt(j), "exact">>
               \/ column'[j] = NA /\ cells[RowAt(j)] \in {"null"} \cup SmallestIntegers
    <3> DEFINE r == RowAt(j)
               k == cells[r]
               v == column'[j]
    <3>1. Placed(v, last.dt, r, k, DeclType) /\ r \in 1..Row /\ k \in AllKinds
      BY <1>3
    <3>2. k # "null" => k \in ValueKinds
      BY <3>1 DEF ValueKinds
    <3> HIDE DEF r, v
    <3>3. CASE k = "null"
      <4>1. v = NA
        BY <3>1, <3>3 DEF Placed
      <4> QED BY <3>3, <4>1 DEF k, r, v
    <3>4. CASE k # "null"
      <4>1. PICK dt \in Types \ {"UNKNOWN"} :
              /\ v = Fetched(dt, r, k) /\ ~Widens(dt, TypeIn(DeclType, k))
              /\ dt = last.dt \/ Widens(dt, last.dt)
        BY <3>1, <3>4 DEF Placed
      <4>2. last.dt # "UNKNOWN"
        BY <4>1, WidensIs
      <4>3. PICK l \in ValueKinds :
              /\ last.dt = TypeOfKind(l)
              /\ \A q \in 1..Row : cells[q] # "null" => StorageClass(cells[q]) = StorageClass(l)
        BY <1>1, <1>3, <4>2, KnownIsOfValue
      <4>4. TypeIn(DeclType, k) = TypeOfKind(k)
        BY <1>1, NoneKnown DEF TypeIn, AltTypes
      <4>5. StorageClass(k) = StorageClass(l)
        BY <3>1, <3>4, <4>3
      <4>6. k \in Exact(dt) \cup Unreadable(dt)
        BY <3>2, <3>4, <4>1, <4>3, <4>4, <4>5, SameClass
      <4>7. v = <<r, "exact">> \/ (v = NA /\ k \in Unreadable(dt))
        BY <4>1, <4>6 DEF Fetched
      <4>8. dt \notin AltTypes
        <5>1. last.dt \notin AltTypes
          BY <1>1, <1>3, NoneKnown
        <5> QED BY <4>1, <5>1, WidensIs DEF AltTypes
      <4>9. k \in Unreadable(dt) => k \in SmallestIntegers
        BY <4>8 DEF Unreadable, SmallestIntegers
      <4> QED BY <4>7, <4>9 DEF k, r, v
    <3> QED BY <3>3, <3>4
  <2> QED BY <2>1, <2>2
<1> QED BY <1>6, <1>7, <1>8, <1>9, <1>10, <1>12, <1>13, <1>14 DEF IInv

\* The type a peek settles on, D before it turns to the declared one.
LEMMA PeekIs ==
  ASSUME IInv, Peek
  PROVE  \E D \in Types :
           /\ D = IF complete \/ cell = "null" THEN StartType(type)
                  ELSE Widened(StartType(type), CellType(cell))
           /\ type' = IF D = "UNKNOWN" THEN DeclType ELSE D
           /\ cell' = IF complete THEN cell ELSE CellAfterFetch(D)
           /\ \E ss : /\ ss[Len(ss)].dt = D
                      /\ told' = told \cup {r \in {Row} : Row > 0 /\ ~complete /\
                            (Conflicts(ss, {CellType(cell)}) # {} \/ FetchWarns(D, cell))}
           /\ D # "BOOL" /\ D \in KnownTypes
<1>1. TypeOK /\ CellInv /\ KnownInv
  BY DEF IInv
<1>2. cell \in AllKinds /\ type \in Types /\ decl \in Decls /\ n_max \in Int
  BY <1>1, RowsAreKinds DEF TypeOK
<1> DEFINE s == NewStorage(StartType(type), 1, 0)
           ss == IF complete THEN NewColumn(1) ELSE SetColValue(NewColumn(1))
           D == ss[Len(ss)].dt
<1>3. /\ NewColumn(1) = <<s>> /\ StorageOK(s) /\ s.dt = StartType(type)
      /\ StartType(type) \in Types \ {"BOOL"}
  BY <1>2, NewColumnIs
<1> HIDE DEF s
<1>4. D = IF complete \/ cell = "null" THEN StartType(type)
          ELSE Widened(StartType(type), CellType(cell))
  <2>1. CASE complete
    <3>1. ss = <<s>>
      BY <1>3, <2>1
    <3> HIDE DEF ss
    <3> QED BY <1>3, <2>1, <3>1
  <2>2. CASE ~complete
    <3> DEFINE rs == SetColValue(<<s>>)
    <3>1. rs[Len(rs)].dt = IF cell = "null" THEN s.dt ELSE Widened(s.dt, CellType(cell))
      BY <1>2, <1>3, SetColValueType
    <3>2. ss = rs
      BY <1>3, <2>2
    <3> HIDE DEF ss, rs
    <3> QED BY <1>3, <2>2, <3>1, <3>2
  <2> QED BY <2>1, <2>2
<1>5. /\ type' = TypeOf(ss)
      /\ cell' = IF complete THEN cell ELSE CellAfterFetch(D)
      /\ told' = told \cup {r \in {Row} : Row > 0 /\ ~complete /\
                     (Conflicts(ss, IF complete THEN {} ELSE {CellType(cell)}) # {}
                        \/ FetchWarns(D, cell))}
  BY DEF Peek
<1> HIDE DEF ss
<1>6. type' = IF D = "UNKNOWN" THEN DeclType ELSE D
  BY <1>5 DEF TypeOf
<1>7. told' = told \cup {r \in {Row} : Row > 0 /\ ~complete /\
                 (Conflicts(ss, {CellType(cell)}) # {} \/ FetchWarns(D, cell))}
  BY <1>5
<1>8. StartType(type) \in KnownTypes
  BY <1>1 DEF KnownInv, StartType, KnownTypes
<1>9. ~complete /\ cell # "null" =>
        /\ CellType(cell) \in KnownTypes /\ CellType(cell) \in Types /\ CellType(cell) # "BOOL"
  <2> SUFFICES ASSUME ~complete, cell # "null"
               PROVE  /\ CellType(cell) \in KnownTypes /\ CellType(cell) \in Types
                      /\ CellType(cell) # "BOOL"
    OBVIOUS
  <2>1. cells # <<>> /\ (cell = cells[Row] \/ Peeked)
    BY <1>1 DEF CellInv
  <2>2. Row \in 1..MaxRows
    <3>1. Row # 0
      BY <1>1, <2>1 DEF Row, TypeOK
    <3> QED BY <1>1, <3>1, RowsAreKinds
  <2> QED BY <1>1, <2>1, <2>2, CellKnown DEF KnownTypes
<1>10. D \in Types /\ D # "BOOL" /\ D \in KnownTypes
  BY <1>3, <1>4, <1>8, <1>9 DEF Widened
<1> QED BY <1>4, <1>5, <1>6, <1>7, <1>10, Zenon

\* peek_first_row() settles the type from the row the statement stands on.
LEMMA PeekInv == IInv /\ Peek => IInv'
<1> SUFFICES ASSUME IInv, Peek PROVE IInv'
  OBVIOUS
<1>1. /\ TypeOK /\ CellInv /\ KnownInv /\ UniformIsExact /\ IdleInv
  BY DEF IInv
<1>2. /\ pc = "idle" /\ pc' = "idle" /\ n_max' = 1 /\ i' = 0
      /\ first' = Row /\ from' = type /\ column' = <<>>
      /\ decl' = decl /\ ready' = ready /\ complete' = complete
      /\ storage' = storage /\ seen' = seen /\ cells' = cells
  BY DEF Peek
<1>3. PICK D \in Types :
        /\ D = IF complete \/ cell = "null" THEN StartType(type)
               ELSE Widened(StartType(type), CellType(cell))
        /\ type' = IF D = "UNKNOWN" THEN DeclType ELSE D
        /\ cell' = IF complete THEN cell ELSE CellAfterFetch(D)
        /\ \E ss : /\ ss[Len(ss)].dt = D
                   /\ told' = told \cup {r \in {Row} : Row > 0 /\ ~complete /\
                         (Conflicts(ss, {CellType(cell)}) # {} \/ FetchWarns(D, cell))}
        /\ D # "BOOL" /\ D \in KnownTypes
  BY PeekIs
<1>4. PICK ss : /\ ss[Len(ss)].dt = D
                /\ told' = told \cup {r \in {Row} : Row > 0 /\ ~complete /\
                      (Conflicts(ss, {CellType(cell)}) # {} \/ FetchWarns(D, cell))}
  BY <1>3
<1>5. /\ Row \in Nat /\ Row <= MaxRows /\ MaxRows \in Nat /\ cell \in AllKinds
  BY <1>1, RowsAreKinds DEF TypeOK
<1>6. /\ DeclType' = DeclType /\ KnownTypes' = KnownTypes /\ Row' = Row /\ (Uniform' <=> Uniform)
      /\ DeclType \in Types /\ DeclType # "UNKNOWN"
  <2>1. DeclType' = DeclType
    BY <1>2 DEF DeclType
  <2> QED BY <1>1, <1>2, <2>1, DeclTypeIs DEF KnownTypes, Row, Uniform, TypeOK
<1>7. TypeOK'
  <2>1. type' \in Types /\ from' \in Types
    BY <1>1, <1>2, <1>3, <1>6 DEF TypeOK
  <2>2. cell' \in AllKinds
    BY <1>3, <1>5 DEF CellAfterFetch, AllKinds
  <2>3. told' \subseteq 1..MaxRows
    <3>1. told \subseteq 1..MaxRows
      BY <1>1 DEF TypeOK
    <3>2. Row > 0 => Row \in 1..MaxRows
      BY <1>5
    <3>3. told' \subseteq told \cup {r \in {Row} : Row > 0}
      BY <1>4
    <3> QED BY <3>1, <3>2, <3>3
  <2>4. first' \in 0..MaxRows + 1 /\ i' \in 0..MaxRows /\ column' \in Seq(Values)
        /\ n_max' \in FetchSizes \cup {0, 1}
    BY <1>2, <1>5
  <2> QED BY <1>1, <1>2, <2>1, <2>2, <2>3, <2>4 DEF TypeOK
<1>8. CellInv'
  <2>1. CASE complete
    BY <1>1, <1>2, <1>3, <2>1 DEF CellInv
  <2>2. CASE ~complete /\ ~ready
    BY <1>1, <1>2, <1>3, <2>2 DEF CellInv, CellAfterFetch
  <2>3. CASE ~complete /\ ready
    <3>1. cells # <<>> /\ (cell = cells[Row] \/ Peeked) /\ Row > 0
      <4>1. cells # <<>> /\ (cell = cells[Row] \/ Peeked)
        BY <1>1, <2>3 DEF CellInv
      <4>2. Row # 0
        BY <1>1, <4>1 DEF Row, TypeOK
      <4> QED BY <1>5, <4>1, <4>2
    <3>2. cell' = IF D = "STRING" /\ cell = "blob" THEN "text" ELSE cell
      BY <1>3, <2>3 DEF CellAfterFetch
    <3>3. CASE Peeked
      <4>1. cell = "text" /\ cells[Row] = "blob" /\ type = "STRING" /\ Row \in told
        BY <3>3 DEF Peeked
      <4>2. D = "STRING"
        BY <1>3, <2>3, <4>1, WidensIs DEF StartType, Widened
      <4>3. type' = "STRING" /\ cell' = "text" /\ Row \in told'
        BY <1>3, <1>4, <3>2, <4>1, <4>2
      <4> QED BY <1>2, <1>6, <2>3, <3>1, <4>1, <4>3 DEF CellInv, Peeked
    <3>4. CASE cell = cells[Row] /\ ~(D = "STRING" /\ cell = "blob")
      BY <1>2, <1>6, <2>3, <3>1, <3>2, <3>4 DEF CellInv
    <3>5. CASE cell = cells[Row] /\ D = "STRING" /\ cell = "blob"
      <4>1. type' = "STRING" /\ cell' = "text"
        BY <1>3, <3>2, <3>5
      <4>2. D = Widened(StartType(type), CellType("blob"))
        BY <1>3, <2>3, <3>5
      <4>3. CellType("blob") = "BLOB"
        <5>1. CASE DeclType \notin AltTypes
          BY <5>1, KindsOfTypes DEF CellType
        <5>2. CASE DeclType \in AltTypes
          <6>1. KnownTypes \subseteq {"UNKNOWN", DeclType}
            BY <5>2 DEF KnownTypes, TypeIn
          <6>2. D # DeclType /\ D \notin KnownTypes
            BY <3>5, <5>2, <6>1 DEF AltTypes
          <6> QED BY <1>3, <6>2
        <5> QED BY <5>1, <5>2
      <4>4. TypeOf(ss) = "STRING"
        BY <1>4, <3>5 DEF TypeOf
      <4>5. "BLOB" \in Conflicts(ss, {CellType(cell)})
        BY <3>5, <4>3, <4>4 DEF Conflicts
      <4>6. Row \in told'
        BY <1>4, <2>3, <3>1, <4>5
      <4> QED BY <1>2, <1>6, <2>3, <3>1, <3>5, <4>1, <4>6 DEF CellInv, Peeked
    <3> QED BY <3>1, <3>3, <3>4, <3>5
  <2> QED BY <2>1, <2>2, <2>3
<1>9. IdleInv' /\ ChainInv' /\ SeenInv' /\ GuessInv' /\ FrameInv'
  BY <1>1, <1>2 DEF IdleInv, ChainInv, SeenInv, GuessInv, FrameInv
<1>10. KnownInv'
  BY <1>1, <1>2, <1>3, <1>6 DEF KnownInv
<1>11. ValuesInPlace' /\ TypeIsGuessed' /\ ~Fetching'
  BY <1>2 DEF ValuesInPlace, TypeIsGuessed, Fetching
<1>12. UniformIsExact'
  <2> SUFFICES ASSUME decl = "none", Uniform PROVE told' = {}
    BY <1>2, <1>6, <1>11 DEF UniformIsExact
  <2>1. told = {}
    BY <1>1 DEF UniformIsExact
  <2> SUFFICES ASSUME Row > 0, ~complete
               PROVE  Conflicts(ss, {CellType(cell)}) = {} /\ ~FetchWarns(D, cell)
    BY <1>4, <2>1
  <2>2. D \notin AltTypes
    BY <1>1, <1>3, NoneKnown
  <2>3. cell = cells[Row]
    <3>1. cells # <<>>
      BY <1>5 DEF Row
    <3> QED BY <1>1, <2>1, <3>1 DEF CellInv, Peeked
  <2>4. CellType(cell) = TypeOfKind(cell) /\ CellType(cell) \in KnownTypes
    <3>1. Row \in 1..Row /\ DeclType = "BOOL"
      BY <1>1, <1>5, NoneKnown
    <3>2. CellType(cell) = TypeOfKind(cell)
      BY <3>1 DEF CellType, AltTypes
    <3> QED BY <1>1, <2>3, <3>1, <3>2, NoneKnown
  <2>5. CellType(cell) # "UNKNOWN" => D # "UNKNOWN" /\ ~Widens(D, CellType(cell))
    <3> SUFFICES ASSUME CellType(cell) # "UNKNOWN"
                 PROVE  D # "UNKNOWN" /\ ~Widens(D, CellType(cell))
      OBVIOUS
    <3>1. cell # "null"
      BY <2>4, KindsOfTypes
    <3> QED BY <1>3, <3>1, WidensIs DEF Widened
  <2>6. Conflicts(ss, {CellType(cell)}) = {}
    BY <1>1, <1>3, <1>4, <2>4, <2>5, NoConflict
  <2> QED BY <2>2, <2>6 DEF FetchWarns
<1> QED BY <1>7, <1>8, <1>9, <1>10, <1>11, <1>12 DEF IInv

----------------------------------------------------------------------------
(* The theorems *)

\* Every reachable state satisfies the inductive invariant.
THEOREM Inductive == Spec => []IInv
<1>1. IInv /\ [Next]_vars => IInv'
  <2> SUFFICES ASSUME IInv, [Next]_vars PROVE IInv'
    OBVIOUS
  <2>1. CASE UNCHANGED vars
    <3>1. DeclType' = DeclType
      BY <2>1 DEF vars, DeclType
    <3>2. FrameKinds' = FrameKinds
      BY <2>1 DEF vars, FrameKinds
    <3>3. \A K, default : FirstIn(K, default)' = FirstIn(K, default)
      BY <2>1, <3>2, FirstInIs, Zenon DEF vars
    <3>4. TypeOK' /\ IdleInv' /\ CellInv' /\ FrameInv'
      BY <2>1 DEF vars, IInv, TypeOK, IdleInv, CellInv, Peeked, Row, FrameInv
    <3>5. KnownTypes' = KnownTypes /\ last' = last
      BY <2>1, <3>1 DEF vars, KnownTypes, Row, last
    <3>6. ChainInv' /\ KnownInv' /\ SeenInv'
      BY <2>1, <3>1, <3>5 DEF vars, IInv, ChainInv, KnownInv, SeenInv
    <3>7. GuessInv'
      BY <2>1, <3>1, <3>3, <3>5, Zenon DEF vars, IInv, GuessInv, Guess
    <3>8. TypeIsGuessed'
      BY <2>1, <3>1, <3>2, <3>3, Zenon DEF vars, IInv, TypeIsGuessed
    <3>9. ValuesInPlace' /\ UniformIsExact'
      BY <2>1 DEF vars, IInv, ValuesInPlace, UniformIsExact, Fetching, RowAt, Uniform, Row
    <3> QED BY <3>4, <3>6, <3>7, <3>8, <3>9 DEF IInv
  <2>2. CASE Next
    BY <2>2, BindInv, FetchBeginInv, FetchRowInv, FetchEndInv, PeekInv, Zenon DEF Next
  <2> QED BY <2>1, <2>2
<1> QED BY InitInv, <1>1, PTL DEF Spec

\* Every variable keeps its type, and no storage holds more than its capacity.
THEOREM TypeCorrect == Spec => []TypeOK
<1>1. IInv => TypeOK
  BY DEF IInv
<1> QED BY <1>1, Inductive, PTL

\* A fetch returns one value per row, each in its place and of its own type,
\* however many storages the rows went through.
THEOREM PlacesKept == Spec => []ValuesInPlace
<1>1. IInv => ValuesInPlace
  BY DEF IInv
<1> QED BY <1>1, Inductive, PTL

\* copy_to() never meets two types it cannot convert.
THEOREM Convertible == Spec => []ChainConverts
<1>1. IInv => ChainConverts
  <2> SUFFICES ASSUME IInv PROVE ChainConverts
    OBVIOUS
  <2>1. CASE pc = "rows"
    <3>1. storage \in Seq(StorageRec) /\ Shape(storage)
      BY <2>1 DEF IInv, ChainInv
    <3>2. DOMAIN storage = 1..Len(storage)
      BY <3>1
    <3> QED BY <3>1, <3>2, Zenon DEF ChainConverts, Shape, last
  <2>2. CASE pc # "rows"
    <3>1. storage = <<>>
      BY <2>2 DEF IInv, IdleInv, TypeOK
    <3> QED BY <3>1 DEF ChainConverts
  <2> QED BY <2>1, <2>2
<1> QED BY <1>1, Inductive, PTL

\* The type of a fetched column is the one known before, or that of its first
\* value, given up for the first wider number if it was INT.
THEOREM GuessedFromRows == Spec => []TypeIsGuessed
<1>1. IInv => TypeIsGuessed
  BY DEF IInv
<1> QED BY <1>1, Inductive, PTL

\* A column without a declared type and of one storage class comes back exact,
\* but for nulls and the smallest integers, and no warning is given.
THEOREM UniformKept == Spec => []UniformIsExact
<1>1. IInv => UniformIsExact
  BY DEF IInv
<1> QED BY <1>1, Inductive, PTL

\* No call narrows the type of a column, or replaces one that is known.
THEOREM OnlyWidens == Spec => TypeOnlyWidens
<1> DEFINE A == type' # type => \/ type \in {"UNKNOWN", "BOOL"}
                                \/ type = "INT" /\ type' \in {"INT64", "REAL"}
<1>1. IInv /\ [Next]_vars => [A]_vars
  <2> SUFFICES ASSUME IInv, Next PROVE A
    BY DEF vars
  <2>1. CASE Bind \/ (\E n \in FetchSizes : FetchBegin(n)) \/ FetchRow
    BY <2>1 DEF Bind, FetchBegin, FetchRow
  <2>2. CASE FetchEnd
    <3>1. /\ type' = IF last.dt = "UNKNOWN" THEN DeclType ELSE last.dt
          /\ last.dt = StartType(type) \/ StartType(type) = "UNKNOWN"
               \/ Widens(StartType(type), last.dt)
      BY <2>2, EndReturns
    <3> QED BY <3>1, WidensIs DEF StartType
  <2>3. CASE Peek
    <3>1. PICK D \in Types :
            /\ D = IF complete \/ cell = "null" THEN StartType(type)
                   ELSE Widened(StartType(type), CellType(cell))
            /\ type' = IF D = "UNKNOWN" THEN DeclType ELSE D
      BY <2>3, PeekIs
    <3> QED BY <3>1, WidensIs DEF StartType, Widened
  <2> QED BY <2>1, <2>2, <2>3 DEF Next
<1> QED BY <1>1, Inductive, PTL DEF Spec, TypeOnlyWidens

\* A value that is lost has a type that warn_type_conflicts() reports.
LEMMA LossConflicts ==
  ASSUME NEW k \in ValueKinds, NEW dt, NEW to,
         to \in Types \ ({"UNKNOWN", "BOOL"} \cup AltTypes),
         dt = to \/ Widens(dt, to), ~Widens(dt, TypeOfKind(k)),
         k \notin Exact(dt), k \notin Unreadable(dt)
  PROVE  /\ TypeOfKind(k) \notin {"UNKNOWN", "BOOL", to}
         /\ ~(to \in {"REAL", "INT64"} /\ TypeOfKind(k) = "INT")
<1>1. /\ k \in {"int", "intmin", "long", "longmin", "real", "text", "date", "blob"}
      /\ to \in {"INT", "INT64", "REAL", "STRING", "BLOB"}
      /\ dt = to \/ (dt = "INT" /\ to \in {"INT64", "REAL"})
  BY WidensIs DEF ValueKinds, AllKinds, Types
<1> QED BY <1>1, KindsOfTypes, ExactIs, UnreadableIs, WidensIs

\* What a fetch loses, a caller is told of.
THEOREM LossTold == Spec => []LossIsTold
<1>1. Init => LossIsTold
  BY DEF Init, LossIsTold, Fetching
<1>2. IInv /\ LossIsTold /\ [Next]_vars => LossIsTold'
  <2> SUFFICES ASSUME IInv, LossIsTold, [Next]_vars PROVE LossIsTold'
    OBVIOUS
  <2>1. CASE Bind \/ (\E n \in FetchSizes : FetchBegin(n)) \/ FetchRow \/ Peek
    BY <2>1 DEF Bind, FetchBegin, FetchRow, Peek, LossIsTold, Fetching
  <2>2. CASE UNCHANGED vars
    BY <2>2 DEF vars, LossIsTold, Fetching, DeclType, RowAt
  <2>3. CASE FetchEnd
    <3>1. /\ last.dt \in Types /\ last.dt # "BOOL" /\ last.dt \in KnownTypes
          /\ column' \in Seq(Values) /\ DOMAIN column' = 1..i
          /\ \A j \in 1..i :
               /\ RowAt(j) \in 1..Row /\ RowAt(j) \in first..(first + i - 1)
               /\ cells[RowAt(j)] \in AllKinds
               /\ Placed(column'[j], last.dt, RowAt(j), cells[RowAt(j)], DeclType)
      BY <2>3, EndReturns
    <3>2. /\ told' = told \cup IF Conflicts(storage, seen) = {} THEN {}
                               ELSE first..(first + i - 1)
          /\ pc = "rows" /\ decl' = decl /\ cells' = cells /\ first' = first
      BY <2>3 DEF FetchEnd
    <3>3. TypeOK /\ SeenInv
      BY DEF IInv
    <3>4. ASSUME DeclType \notin AltTypes, NEW j \in 1..i,
                 cells[RowAt(j)] # "null"
          PROVE  \/ cells[RowAt(j)] \in SmallestIntegers /\ column'[j] = NA
                 \/ column'[j] = <<RowAt(j), "exact">>
                 \/ RowAt(j) \in told'
      <4> DEFINE r == RowAt(j)
                 k == cells[r]
                 v == column'[j]
      <4>1. /\ Placed(v, last.dt, r, k, DeclType) /\ r \in first..(first + i - 1)
            /\ k \in ValueKinds /\ k # "null"
            /\ TypeIn(DeclType, k) = TypeOfKind(k)
        BY <3>1, <3>4 DEF ValueKinds, TypeIn
      <4>2. TypeIn(DeclType, k) \in seen \/ r \in told
        <5>1. \A q \in first..(first + i - 1) :
                TypeIn(DeclType, cells[q]) \in seen \/ (cells[q] = "blob" /\ q \in told)
          BY <3>2, <3>3 DEF SeenInv
        <5> HIDE DEF r
        <5> QED BY <4>1, <5>1
      <4> HIDE DEF r, k, v
      <4>3. PICK dt \in Types \ {"UNKNOWN"} :
              /\ v = Fetched(dt, r, k) /\ ~Widens(dt, TypeOfKind(k))
              /\ dt = last.dt \/ Widens(dt, last.dt)
        BY <4>1 DEF Placed
      <4>4. last.dt \in Types \ ({"UNKNOWN", "BOOL"} \cup AltTypes)
        <5>1. last.dt # "UNKNOWN"
          BY <4>3, WidensIs
        <5>2. \A q \in 1..Row : TypeIn(DeclType, cells[q]) \notin AltTypes
          BY <3>3, <3>4, RowsAreKinds, TypeOfKindIs DEF TypeIn
        <5> QED BY <3>1, <3>4, <5>1, <5>2 DEF KnownTypes
      <4>5. CASE k \in Exact(dt)
        BY <4>3, <4>5 DEF Fetched, r, v
      <4>6. CASE k \notin Exact(dt) /\ k \in Unreadable(dt)
        <5>1. dt \notin AltTypes
          BY <4>3, <4>4, WidensIs DEF AltTypes
        <5>2. k \in SmallestIntegers
          BY <4>6, <5>1 DEF Unreadable, SmallestIntegers
        <5> QED BY <4>3, <4>6, <5>2 DEF Fetched, k, r, v
      <4>7. CASE k \notin Exact(dt) /\ k \notin Unreadable(dt)
        <5>1. /\ TypeOfKind(k) \notin {"UNKNOWN", "BOOL", last.dt}
              /\ ~(last.dt \in {"REAL", "INT64"} /\ TypeOfKind(k) = "INT")
          BY <4>1, <4>3, <4>4, <4>7, LossConflicts
        <5>2. TypeOf(storage) = last.dt
          BY <4>4 DEF TypeOf, last
        <5>3. TypeOfKind(k) \in seen => Conflicts(storage, seen) # {}
          BY <5>1, <5>2 DEF Conflicts
        <5> QED BY <3>2, <4>1, <4>2, <5>3 DEF r
      <4> QED BY <4>5, <4>6, <4>7
    <3>5. DeclType' = DeclType
      BY <3>2 DEF DeclType
    <3>6. \A j : RowAt(j)' = RowAt(j)
      BY <3>2 DEF RowAt
    <3> QED BY <3>1, <3>2, <3>4, <3>5, <3>6 DEF LossIsTold
  <2> QED BY <2>1, <2>2, <2>3 DEF Next
<1> QED BY <1>1, <1>2, Inductive, PTL DEF Spec

\* Every storage of a column of an extended type is of that type.
LEMMA AltStorages ==
  ASSUME DeclType \in AltTypes
  PROVE  KnownTypes \subseteq {"UNKNOWN", DeclType}
  BY DEF KnownTypes, TypeIn

\* What cannot be read in the rows of the frame has been warned about.
AltToldInv ==
  pc = "rows" /\ DeclType \in AltTypes =>
    \A r \in first..(first + i - 1) : cells[r] \in Unreadable(DeclType) => r \in told

\* fetch_date() and the like warn as they read,
LEMMA FetchRowTells == IInv /\ AltToldInv /\ FetchRow => AltToldInv'
<1> SUFFICES ASSUME IInv, AltToldInv, FetchRow PROVE AltToldInv'
  OBVIOUS
<1>1. TypeOK /\ KnownInv
  BY DEF IInv
<1>2. /\ pc = "rows" /\ decl' = decl /\ first' = first /\ i' = i + 1 /\ Step
      /\ told' = told \cup {r \in {Row} : cell # "null" /\
                              FetchWarns(Target(last, CellType(cell)).dt, cell)}
  BY DEF FetchRow
<1>3. DeclType' = DeclType
  BY <1>2 DEF DeclType
<1> SUFFICES ASSUME DeclType \in AltTypes,
                    NEW r \in first..(first + i), cells'[r] \in Unreadable(DeclType)
             PROVE  r \in told'
  <2>1. first' + i' - 1 = first + i
    BY <1>1, <1>2, RowsAreKinds
  <2>2. Unreadable(DeclType)' = Unreadable(DeclType)
    BY <1>3 DEF Unreadable, AltTypes
  <2> QED BY <1>2, <1>3, <2>1, <2>2 DEF AltToldInv
<1>4. /\ Row = first + i /\ Row \in 1..MaxRows /\ StorageOK(last)
      /\ cell = cells[Row] \/ (Peeked /\ last.dt = "STRING")
  BY RowGrows
<1>5. i \in Nat /\ first \in Nat /\ n_max \in Int
  BY <1>1, RowsAreKinds
<1>6. last.dt \in {"UNKNOWN", DeclType} /\ DeclType # "STRING"
  <2>1. DeclType # "STRING"
    BY DEF AltTypes
  <2> QED BY <1>1, <1>2, <2>1, AltStorages DEF KnownInv
<1>7. cells'[r] = cells[r]
  <2>1. /\ cells \in Seq(Kinds) /\ Row <= MaxRows
    BY <1>1, RowsAreKinds DEF TypeOK
  <2>2. \A q \in 1..Row : cells'[q] = cells[q]
    BY <1>2, <2>1, StepIs
  <2>3. CASE r \in 1..Row
    BY <2>2, <2>3
  <2>4. CASE r \notin 1..Row
    <3>1. r = 0 /\ first = 0
      BY <1>4, <1>5, <2>4
    <3>2. i = 0
      BY <1>1, <1>5, <3>1 DEF IInv, FrameInv
    <3> QED BY <1>4, <1>5, <3>1, <3>2
  <2> QED BY <2>3, <2>4
<1>8. CASE r # Row
  <2>1. r \in first..(first + i - 1)
    BY <1>4, <1>5, <1>8
  <2>2. r \in told
    BY <1>2, <1>7, <2>1 DEF AltToldInv
  <2> QED BY <1>2, <2>2
<1>9. CASE r = Row
  <2>1. cell = cells[Row] /\ cell \in Unreadable(DeclType)
    BY <1>4, <1>6, <1>7, <1>9, Zenon DEF AltTypes
  <2>2. cell # "null"
    BY <2>1 DEF Unreadable, AltTypes
  <2>3. CellType(cell) = DeclType
    BY DEF CellType
  <2>4. DeclType \in Types \ {"UNKNOWN"}
    BY DEF AltTypes, Types
  <2>5. Target(last, DeclType).dt = DeclType
    <3>1. Target(last, DeclType).dt = IF last.dt = "UNKNOWN" \/ Widens(last.dt, DeclType)
                                      THEN DeclType ELSE last.dt
      BY <1>4, <1>5, <2>4, TargetIs
    <3> QED BY <1>6, <3>1
  <2>6. FetchWarns(Target(last, CellType(cell)).dt, cell)
    BY <2>1, <2>3, <2>5, Zenon DEF FetchWarns
  <2> QED BY <1>2, <1>9, <2>2, <2>6, Zenon
<1> QED BY <1>8, <1>9

\* and the frame returns what they read.
LEMMA FetchEndMaps == IInv /\ AltToldInv /\ FetchEnd => MappedOrNA'
<1> SUFFICES ASSUME IInv, AltToldInv, FetchEnd PROVE MappedOrNA'
  OBVIOUS
<1>1. /\ last.dt \in KnownTypes /\ DOMAIN column' = 1..i
      /\ \A j \in 1..i :
           /\ RowAt(j) \in first..(first + i - 1)
           /\ cells[RowAt(j)] \in AllKinds
           /\ Placed(column'[j], last.dt, RowAt(j), cells[RowAt(j)], DeclType)
  BY EndReturns
<1>2. /\ pc = "rows" /\ decl' = decl /\ cells' = cells /\ first' = first /\ told \subseteq told'
  BY DEF FetchEnd
<1>3. ASSUME DeclType \in AltTypes, NEW j \in 1..i
      PROVE  \/ column'[j] = <<RowAt(j), "exact">>
             \/ column'[j] = NA /\ (cells[RowAt(j)] = "null" \/ RowAt(j) \in told')
             \/ column'[j][2] = "coerced" /\ cells[RowAt(j)] \in CutNumbers
  <2> DEFINE r == RowAt(j)
             k == cells[r]
             v == column'[j]
  <2>1. Placed(v, last.dt, r, k, DeclType) /\ k \in AllKinds
    BY <1>1, <1>3
  <2>2. k \in Unreadable(DeclType) => r \in told'
    BY <1>1, <1>2, <1>3 DEF AltToldInv
  <2> HIDE DEF r, k, v
  <2>3. CASE k = "null"
    <3>1. v = NA
      BY <2>1, <2>3 DEF Placed
    <3> QED BY <2>3, <3>1 DEF r, k, v
  <2>4. CASE k # "null"
    <3>1. PICK dt \in Types \ {"UNKNOWN"} :
            /\ v = Fetched(dt, r, k)
            /\ dt = last.dt \/ Widens(dt, last.dt)
      BY <2>1, <2>4 DEF Placed
    <3>2. last.dt \in {"UNKNOWN", DeclType}
      BY <1>1, <1>3, AltStorages
    <3>3. dt = DeclType
      BY <1>3, <3>1, <3>2, WidensIs DEF AltTypes
    <3>4. CASE k \in Exact(dt)
      BY <3>1, <3>4 DEF Fetched, r, v
    <3>5. CASE k \notin Exact(dt) /\ k \in Unreadable(dt)
      <4>1. v = NA /\ r \in told'
        BY <2>2, <3>1, <3>3, <3>5 DEF Fetched
      <4> QED BY <4>1 DEF r, v
    <3>6. CASE k \notin Exact(dt) /\ k \notin Unreadable(dt)
      <4>1. v[2] = "coerced"
        BY <3>1, <3>6 DEF Fetched
      <4>2. k \in CutNumbers
        BY <1>3, <2>1, <2>4, <3>3, <3>6
           DEF Exact, Unreadable, CutNumbers, AltTypes, AllKinds
      <4> QED BY <4>1, <4>2 DEF r, k, v
    <3> QED BY <3>4, <3>5, <3>6
  <2> QED BY <2>3, <2>4
<1>4. DeclType' = DeclType /\ CutNumbers' = CutNumbers
  BY <1>2 DEF DeclType, CutNumbers
<1>5. \A j : RowAt(j)' = RowAt(j)
  BY <1>2 DEF RowAt
<1> QED BY <1>1, <1>2, <1>3, <1>4, <1>5 DEF MappedOrNA

\* A column of an extended type returns the exact value, or NA with a warning
\* for text or a blob it cannot read; only numbers too fine or too large are cut.
THEOREM Mapped == Spec => []MappedOrNA
<1>1. Init => MappedOrNA /\ AltToldInv
  BY DEF Init, MappedOrNA, AltToldInv, Fetching
<1>2. IInv /\ MappedOrNA /\ AltToldInv /\ [Next]_vars => MappedOrNA' /\ AltToldInv'
  <2> SUFFICES ASSUME IInv, MappedOrNA, AltToldInv, [Next]_vars
               PROVE  MappedOrNA' /\ AltToldInv'
    OBVIOUS
  <2>1. CASE Bind \/ Peek
    BY <2>1 DEF Bind, Peek, MappedOrNA, AltToldInv, Fetching
  <2>2. CASE \E n \in FetchSizes : FetchBegin(n)
    <3>1. pc' = "rows" /\ i' = 0 /\ first' = Row
      BY <2>2 DEF FetchBegin
    <3>2. Row \in Nat
      BY RowsAreKinds DEF IInv
    <3>3. \A r \in first'..(first' + i' - 1) : FALSE
      BY <3>1, <3>2
    <3> QED BY <3>1, <3>3 DEF MappedOrNA, AltToldInv, Fetching
  <2>3. CASE FetchRow
    <3>1. pc' = "rows"
      BY <2>3 DEF FetchRow
    <3> QED BY <2>3, <3>1, FetchRowTells DEF MappedOrNA, Fetching
  <2>4. CASE FetchEnd
    <3>1. pc' = "idle"
      BY <2>4 DEF FetchEnd
    <3> QED BY <2>4, <3>1, FetchEndMaps DEF AltToldInv
  <2>5. CASE UNCHANGED vars
    <3>1. DeclType' = DeclType /\ CutNumbers' = CutNumbers
      BY <2>5 DEF vars, DeclType, CutNumbers
    <3> QED BY <2>5, <3>1 DEF vars, MappedOrNA, AltToldInv, Fetching, RowAt
  <2> QED BY <2>1, <2>2, <2>3, <2>4, <2>5 DEF Next
<1> QED BY <1>1, <1>2, Inductive, PTL DEF Spec
=============================================================================
