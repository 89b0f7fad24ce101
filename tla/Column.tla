------------------------------- MODULE Column -------------------------------
(***************************************************************************)
(* One column of a result set: how the R type of a column is guessed and   *)
(* how its values travel from sqlite3_column_*() into an R vector.         *)
(* Sources (src/src): DbColumn.cpp, DbColumnStorage.cpp, DbDataFrame.cpp,  *)
(* SqliteColumnDataSource.cpp and types_ of SqliteResultImpl.              *)
(*                                                                         *)
(* SQLite types values, R types columns.  A fetch fills a chain of         *)
(* storages, each of one type and a fixed capacity; a value that does not  *)
(* fit opens the next storage.  At the end of the fetch the chain is       *)
(* copied into one vector of the last storage's type, which is also where  *)
(* the next fetch starts.  Peeking (dbColumnInfo(), dbFetch(n = 0)) does   *)
(* all of this to one row without consuming it.                            *)
(*                                                                         *)
(* A cell is abstracted to its kind, a value to the row it comes from and  *)
(* what became of it.  Stepping the statement, its errors and interrupts   *)
(* are the business of module ResultSet.                                   *)
(***************************************************************************)
EXTENDS Integers, Sequences, SequencesExt

CONSTANTS
  Decls,            \* declared types the column may have, see DeclType
  Kinds,            \* kinds of cells the query may return, see below
  WithAltTypes,     \* extended_types = TRUE
  FetchSizes,       \* the values of n a caller passes to dbFetch, -1 for all
  MinCapacity,      \* MIN_DATA_CAPACITY, 100
  MaxRows           \* bound: rows the statement steps to

\* "int", "long": an integer of 32 bits, one that needs more (and is no double);
\* "intmin", "longmin": the smallest of each, which R reads as NA;
\* "date": text in the format of an extended type, "text": any other.  No text
\* has a NUL inside: fetch_string() would cut it off there without a warning.
AllKinds == {"null", "int", "intmin", "long", "longmin", "real", "text", "date", "blob"}

ASSUME ConstantsAssumption ==
  /\ Decls \subseteq {"none", "integer", "numeric", "text", "blob",
                      "date", "datetime", "time"}
  /\ Kinds \subseteq AllKinds
  /\ WithAltTypes \in BOOLEAN
  /\ FetchSizes \subseteq {-1} \cup (Nat \ {0})
  /\ MinCapacity \in Nat \ {0}
  /\ MaxRows \in Nat

VARIABLES
  decl,             \* the declared type of the column
  type,             \* types_[j]
  ready, complete,  \* ready_, complete_
  cell,             \* sqlite3_column_type() of the current row, as a kind
  pc,               \* "idle", or "rows" inside fetch_rows()
  n_max, i,         \* DbDataFrame: rows wanted and rows filled
  storage,          \* DbColumn::storage
  seen,             \* DbColumn::data_types_seen
  column,           \* the values of the vector the last call returned
  cells,            \* history: the kinds of the rows stepped to
  first,            \* history: the first row of the current or last frame
  told,             \* history: rows in a frame that came with a warning
  from              \* history: types_[j] when that frame was created

vars == <<decl, type, ready, complete, cell, pc, n_max, i, storage, seen,
          column, cells, first, told, from>>

----------------------------------------------------------------------------
(* SqliteColumnDataSource *)

AltTypes == {"DATE", "DATETIME", "TIME"}

\* get_decl_data_type(); an expression has no declared type.
DeclType ==
  CASE decl = "none"    -> "BOOL"
    [] decl = "integer" -> "INT"
    [] decl = "text"    -> "STRING"
    [] decl = "blob"    -> "BLOB"
    [] decl = "date"     /\ WithAltTypes -> "DATE"
    [] decl = "datetime" /\ WithAltTypes -> "DATETIME"
    [] decl = "time"     /\ WithAltTypes -> "TIME"
    [] OTHER -> "REAL"

\* get_data_type(), with needs_64_bit().
TypeOfKind(k) ==
  CASE k \in {"int", "intmin"}   -> "INT"
    [] k \in {"long", "longmin"} -> "INT64"
    [] k = "real"                -> "REAL"
    [] k \in {"text", "date"}    -> "STRING"
    [] k = "blob"                -> "BLOB"
    [] k = "null"                -> "UNKNOWN"
CellType(k) == IF DeclType \in AltTypes THEN DeclType ELSE TypeOfKind(k)

\* The kinds a storage of type dt holds without loss, and those that come out
\* of it as NA: in R's INT and INT64 vectors the smallest integer is NA, and
\* fetch_date() and the like give NA for what they cannot read.
Exact(dt) ==
  CASE dt = "INT"    -> {"int"}
    [] dt = "INT64"  -> {"int", "intmin", "long"}
    [] dt = "REAL"   -> {"int", "intmin", "longmin", "real"}
    [] dt = "STRING" -> {"text", "date"}
    [] dt = "BLOB"   -> {"blob"}
    [] dt = "DATE"   -> {"int", "intmin", "date"}
    [] OTHER         -> {"int", "intmin", "longmin", "real", "date"}
Unreadable(dt) ==
  CASE dt = "INT"       -> {"intmin"}
    [] dt = "INT64"     -> {"longmin"}
    [] dt \in AltTypes  -> {"text", "blob"}
    [] OTHER            -> {}

NA == <<0, "NA">>

\* fetch_value(): what becomes of a cell of kind k of row r.
Fetched(dt, r, k) ==
  IF k \in Exact(dt) THEN <<r, "exact">>
  ELSE IF k \in Unreadable(dt) THEN NA
  ELSE <<r, "coerced">>

\* fetch_date(), fetch_datetime_local(), fetch_time() warn at once.
FetchWarnsOfText(dt, k) == dt \in AltTypes /\ k = "text"
FetchWarns(dt, k) == dt \in AltTypes /\ k \in Unreadable(dt)

\* sqlite3_column_text() turns the blob it reads into text, in place.
CellAfterFetch(dt) == IF dt = "STRING" /\ cell = "blob" THEN "text" ELSE cell

----------------------------------------------------------------------------
(* DbColumnStorage *)

\* get_new_capacity(); an UNKNOWN storage has no vector at all.
NewCapacity(n, desired) == Max({desired, IF n < 0 THEN MinCapacity ELSE 1})
NewStorage(dt, n, desired) ==
  [dt   |-> dt, i |-> 0, data |-> <<>>,
   capacity |-> IF dt = "UNKNOWN" THEN 0 ELSE NewCapacity(n, desired)]

WidensToNothing(dt, new_dt) == FALSE
WidensTooMuch(dt, new_dt) == dt \notin {"UNKNOWN", new_dt}
Widens(dt, new_dt) == dt = "INT" /\ new_dt \in {"INT64", "REAL"}

Desired(s) == IF n_max < 0 THEN s.capacity * 2 ELSE n_max - s.i

\* append_data() up to fetch_value(): the storage the value goes to.  The one
\* opened by a full storage may in turn be too narrow; it is then lost.
TargetKeepFull(s, new_dt) ==
  IF s.dt = "UNKNOWN" \/ Widens(s.dt, new_dt)
    THEN NewStorage(new_dt, n_max, Desired(s))
    ELSE s
Target(s, new_dt) ==
  LET same == NewStorage(s.dt, n_max, Desired(s))
  IN  IF s.dt = "UNKNOWN" THEN NewStorage(new_dt, n_max, Desired(s))
      ELSE IF s.i >= s.capacity THEN
             IF Widens(s.dt, new_dt) THEN NewStorage(new_dt, n_max, Desired(same))
                                     ELSE same
      ELSE IF Widens(s.dt, new_dt) THEN NewStorage(new_dt, n_max, Desired(s))
      ELSE s

\* fill_default_value() or fetch_value() at data[i]; ++i.  A null that does
\* not fit is only counted.
WithNull(s) ==
  [s EXCEPT !.i = @ + 1,
            !.data = IF s.i < s.capacity THEN Append(@, NA) ELSE @]
WithValue(s, v) == [s EXCEPT !.i = @ + 1, !.data = Append(@, v)]

\* copy_value(): INT data may go to an INT64 or REAL vector; every other pair
\* of types would read the memory of one as the other.
Converted(v, dt, new_dt) ==
  IF dt = new_dt \/ Widens(dt, new_dt) THEN v ELSE <<v[1], "garbage">>

\* copy_to(): the values stored, then a default for each null only counted.
CopiedShort(s, new_dt) == [j \in 1..Len(s.data) |-> Converted(s.data[j], s.dt, new_dt)]
Copied(s, new_dt) ==
  [j \in 1..s.i |-> IF j <= Len(s.data) THEN Converted(s.data[j], s.dt, new_dt) ELSE NA]

----------------------------------------------------------------------------
(* DbColumn *)

last == storage[Len(storage)]
Row == Len(cells)

\* DbColumn(): a column of type BOOL starts over.
StartTypeAsIs(dt) == dt
StartTypeForgotten(dt) == "UNKNOWN"
StartType(dt) == IF dt = "BOOL" THEN "UNKNOWN" ELSE dt
NewColumn(n) == <<NewStorage(StartType(type), n, 0)>>

\* set_col_value() on the chain ss; the cell is null, or a value.
SetColValue(ss) ==
  LET s == ss[Len(ss)]
      t == Target(s, CellType(cell))
  IN  IF cell = "null" THEN [ss EXCEPT ![Len(ss)] = WithNull(s)]
      ELSE LET filled == WithValue(t, Fetched(t.dt, Row, cells[Row]))
           IN  IF t = s THEN [ss EXCEPT ![Len(ss)] = filled] ELSE Append(ss, filled)

\* get_type()
TypeOf(ss) == LET dt == ss[Len(ss)].dt IN IF dt = "UNKNOWN" THEN DeclType ELSE dt

\* warn_type_conflicts()
ConflictsAnyInteger(ss, types) == types \ {"UNKNOWN", "BOOL", TypeOf(ss), "INT"}
Conflicts(ss, types) ==
  types \ ({"UNKNOWN", "BOOL", TypeOf(ss)}
             \cup IF TypeOf(ss) \in {"REAL", "INT64"} THEN {"INT"} ELSE {})

\* The chain copied into one vector.
VectorOf(ss) == FlattenSeq([k \in DOMAIN ss |-> Copied(ss[k], TypeOf(ss))])

----------------------------------------------------------------------------
Init ==
  /\ decl \in Decls
  /\ type = "UNKNOWN"
  /\ ready = FALSE /\ complete = FALSE /\ cell = "null"
  /\ pc = "idle" /\ n_max = 0 /\ i = 0 /\ storage = <<>> /\ seen = {}
  /\ column = <<>>
  /\ cells = <<>> /\ first = 1 /\ told = {} /\ from = "UNKNOWN"

\* step(): the next row, or the end.
Step ==
  \/ /\ Len(cells) < MaxRows
     /\ \E k \in Kinds : cell' = k /\ cells' = Append(cells, k)
     /\ complete' = FALSE
  \/ complete' = TRUE /\ cell' = "null" /\ UNCHANGED cells

\* after_bind(): a new execution of the statement.  types_ stays.
Bind ==
  /\ pc = "idle"
  /\ ready' = TRUE
  /\ Step
  /\ column' = <<>>
  /\ UNCHANGED <<decl, type, pc, n_max, i, storage, seen, first, told, from>>

\* fetch() with n # 0: fetch_rows() creates the frame.
FetchBegin(n) ==
  /\ pc = "idle" /\ ready
  /\ pc' = "rows"
  /\ n_max' = n
  /\ i' = 0
  /\ storage' = NewColumn(n)
  /\ seen' = {}
  /\ first' = Row
  /\ from' = type
  /\ UNCHANGED <<decl, type, ready, complete, cell, column, cells, told>>

\* One turn of the loop of fetch_rows(): set_col_values(); step(); advance().
FetchRow ==
  /\ pc = "rows" /\ ~complete /\ (n_max < 0 \/ i < n_max)
  /\ seen' = seen \cup {CellType(cell)}
  /\ storage' = SetColValue(storage)
  /\ i' = i + 1
  /\ told' = told \cup {r \in {Row} : cell # "null" /\
                          FetchWarns(Target(last, CellType(cell)).dt, cell)}
  /\ Step
  /\ UNCHANGED <<decl, type, ready, pc, n_max, column, first, from>>

\* get_data(types_): types, warnings and vector, in that order.
FetchEnd ==
  /\ pc = "rows" /\ (complete \/ (n_max >= 0 /\ i >= n_max))
  /\ pc' = "idle"
  /\ type' = TypeOf(storage)
  /\ told' = told \cup IF Conflicts(storage, seen) = {} THEN {} ELSE first..(first + i - 1)
  /\ column' = VectorOf(storage)
  /\ storage' = <<>> /\ seen' = {}
  /\ UNCHANGED <<decl, ready, complete, cell, n_max, i, cells, first, from>>

\* peek_first_row(): dbFetch(n = 0), and dbColumnInfo() even before binding.
Peek ==
  /\ pc = "idle"
  /\ LET ss == IF complete THEN NewColumn(1)
               ELSE SetColValue(NewColumn(1))
         dt == ss[Len(ss)].dt
         peeked == IF complete THEN {} ELSE {CellType(cell)}
     IN  /\ type' = TypeOf(ss)
         /\ cell' = IF complete THEN cell ELSE CellAfterFetch(dt)
         /\ told' = told \cup {r \in {Row} : Row > 0 /\ ~complete /\
                         (Conflicts(ss, peeked) # {} \/ FetchWarns(dt, cell))}
  /\ n_max' = 1 /\ i' = 0
  /\ first' = Row /\ from' = type
  /\ column' = <<>>
  /\ UNCHANGED <<decl, ready, complete, pc, storage, seen, cells>>

Next ==
  \/ Bind
  \/ \E n \in FetchSizes : FetchBegin(n)
  \/ FetchRow \/ FetchEnd
  \/ Peek

Spec == Init /\ [][Next]_vars

----------------------------------------------------------------------------
(* Properties *)

Types == {"UNKNOWN", "BOOL", "INT", "INT64", "REAL", "STRING", "BLOB"} \cup AltTypes
Values == {NA} \cup ((1..MaxRows) \X {"exact", "coerced", "garbage"})

\* Every variable has its type, and no storage holds more than its capacity.
TypeOK ==
  /\ decl \in Decls /\ type \in Types /\ from \in Types
  /\ ready \in BOOLEAN /\ complete \in BOOLEAN
  /\ cell \in AllKinds /\ cells \in Seq(Kinds) /\ Len(cells) <= MaxRows
  /\ pc \in {"idle", "rows"} /\ n_max \in FetchSizes \cup {0, 1} /\ i \in 0..MaxRows
  /\ first \in 0..MaxRows + 1 /\ told \subseteq 1..MaxRows /\ seen \subseteq Types
  /\ column \in Seq(Values)
  /\ \A k \in DOMAIN storage :
       /\ storage[k].dt \in Types /\ storage[k].data \in Seq(Values)
       /\ Len(storage[k].data) <= storage[k].capacity
       /\ Len(storage[k].data) <= storage[k].i

\* The rows of the vector last returned are those of its frame.
Fetching == pc = "idle" /\ column # <<>>
RowAt(j) == first + j - 1

\* A fetch returns one value per row, the value of row j at place j whatever
\* storages it went through, NA where the cell was NULL, and no value is read
\* as one of another type.
ValuesInPlace ==
  Fetching =>
    /\ Len(column) = i
    /\ \A j \in DOMAIN column :
         /\ column[j] = NA \/ column[j][1] = RowAt(j)
         /\ cells[RowAt(j)] = "null" => column[j] = NA
         /\ column[j][2] # "garbage"

\* R takes them for NA, in a vector of their width.
SmallestIntegers == {"intmin", "longmin"}

\* What a fetch could not represent exactly, it (or an earlier peek at the
\* row) warned about, but for the smallest integers, which R takes for NA, and
\* for columns of an extended type.
LossIsTold ==
  Fetching /\ DeclType \notin AltTypes =>
    \A j \in DOMAIN column :
      \/ cells[RowAt(j)] = "null"
      \/ cells[RowAt(j)] \in SmallestIntegers /\ column[j] = NA
      \/ column[j] = <<RowAt(j), "exact">>
      \/ RowAt(j) \in told

\* Numbers that fetch_date() cuts to whole days, or to their low 32 bits, and
\* that a double cannot hold.
CutNumbers == IF DeclType = "DATE" THEN {"real", "long", "longmin"} ELSE {"long"}

\* In a column of an extended type every fetch gives the exact value, or NA
\* where the cell is NULL or cannot be read, and of the latter that fetch or an
\* earlier one has warned.  No value but such a number is changed in silence.
MappedOrNA ==
  Fetching /\ DeclType \in AltTypes =>
    \A j \in DOMAIN column :
      \/ column[j] = <<RowAt(j), "exact">>
      \/ column[j] = NA /\ (cells[RowAt(j)] = "null" \/ RowAt(j) \in told)
      \/ column[j][2] = "coerced" /\ cells[RowAt(j)] \in CutNumbers

\* The storages of a chain can all be copied into a vector of the last one's
\* type: before it there are only leading nulls, its own type, or integers.
ChainConverts ==
  \A k \in DOMAIN storage :
    \/ storage[k].dt = last.dt
    \/ storage[k].dt = "UNKNOWN" /\ k = 1
    \/ storage[k].dt = "INT" /\ last.dt \in {"INT64", "REAL"}

\* The kinds of the frame's rows, and the type of the first of them in a set.
FrameKinds == [j \in 1..i |-> cells[first + j - 1]]
FirstIn(kinds, default) ==
  IF \E j \in 1..i : FrameKinds[j] \in kinds
  THEN TypeOfKind(FrameKinds[CHOOSE j \in 1..i :
                               /\ FrameKinds[j] \in kinds
                               /\ \A m \in 1..(j - 1) : FrameKinds[m] \notin kinds])
  ELSE default
ValueKinds == AllKinds \ {"null"}
WideKinds == {k \in AllKinds : TypeOfKind(k) \in {"INT64", "REAL"}}

\* The type of a fetched vector is the type known before the fetch, or else that
\* of its first value, and integers give way to the first wider number only.
\* This is so in every fetch, not in the first alone, after which a comment in
\* SqliteResultImpl.cpp takes the type to be fixed.
TypeIsGuessed ==
  pc = "idle" /\ i > 0 /\ DeclType \notin AltTypes =>
    LET guess == IF StartType(from) = "UNKNOWN" THEN FirstIn(ValueKinds, DeclType)
                 ELSE from
        known == StartType(from) # "UNKNOWN" \/ \E j \in 1..i : FrameKinds[j] \in ValueKinds
    IN  type = IF guess = "INT" /\ known THEN FirstIn(WideKinds, "INT") ELSE guess

\* A column without a declared type whose values are all of one storage class is
\* returned exactly and without a warning, whatever storages it went through,
\* but for the smallest integers: they, and no other value, may become NA.
StorageClass(k) ==
  CASE k \in {"int", "intmin", "long", "longmin"} -> "integer"
    [] k \in {"text", "date"} -> "text"
    [] OTHER -> k
Uniform ==
  \A q, r \in 1..Row :
    cells[q] # "null" /\ cells[r] # "null" => StorageClass(cells[q]) = StorageClass(cells[r])
UniformIsExact ==
  decl = "none" /\ Uniform
  => /\ told = {}
     /\ Fetching =>
          \A j \in DOMAIN column :
            \/ column[j] = <<RowAt(j), "exact">>
            \/ column[j] = NA /\ cells[RowAt(j)] \in {"null"} \cup SmallestIntegers

\* From one call to the next the type of a column is only guessed, started
\* over, or widened from integers.
TypeOnlyWidens ==
  [][type' # type => \/ type \in {"UNKNOWN", "BOOL"}
                     \/ type = "INT" /\ type' \in {"INT64", "REAL"}]_vars
=============================================================================
