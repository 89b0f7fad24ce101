# A TLA+ development of RSQLite

RSQLite embeds SQLite in R and implements the DBI methods for it. Its own logic
is small and stateful: C++ classes in `src/src/` hold connections and result
sets, R methods in `src/R/` drive them and wrap table writes in savepoints.
This directory models that logic, checks it with TLC and proves its most
important parts with TLAPS. Paths below are relative to the repository root,
which is called `src/` here (so `src/src/DbColumn.cpp`, `src/R/transactions.R`).

## 1. The system

| Component | State | Operations | Interacts with |
| --- | --- | --- | --- |
| Result set: `SqliteResultImpl`, `DbResult`, `dbBind`, `dbFetch`, `dbHasCompleted`, `dbGetRowCount`, `dbGetRowsAffected` | `ready_`, `complete_`, `nrows_`, `group_`, `groups_`, `params_`, `total_changes_start_`, the SQLite statement | create, bind, fetch, release | steps SQLite; fills a data frame |
| Column and data frame: `DbDataFrame`, `DbColumn`, `DbColumnStorage`, `SqliteColumnDataSource` | a chain of typed storages per column, the types seen, `types_` across calls | set a value, advance, finish, peek | reads cells of the statement the result set steps |
| Connection: `DbConnection`, `connection_*`, `dbConnect`, `dbDisconnect`, `dbSendQuery`, `sqliteSetBusyHandler`, `sqliteCopyDatabase` | `pConn_`, the owners of the shared pointer, `conn@ref$result`, `busy_callback_` | connect, disconnect, send a query, clear, set the handler, copy, finalizers | SQLite's zombie connections; R's garbage collector; an R callback out of SQLite |
| Transactions and table writes: `dbBegin`, `dbCommit`, `dbRollback`, `dbAppendTable`, `dbWriteTable`, `dbRemoveTable`, `dbExistsTable` | SQLite's transaction and savepoint stack; the running R functions and their `on.exit()` | begin, commit, rollback with and without a name; write a data frame or a file | one statement after another through `dbExecute`; other connections |
| Parameter matching: `db_bind()`, `dbBind()`, `dbGetPreparedQuery()`, `dbSendPreparedQuery()` | none; the prepared queries try twice | match names to placeholders, check, retry | feeds `bind()` with what SQLite numbered |
| File import: `RS_sqlite_import()` | a file position, a line buffer, a statement | split lines and fields, insert | called by `dbWriteTable()` of a file |
| Declared types: `sqlite3AffinityType()` | none | scan a declared type | used by the column data source |
| HTTP VFS: `vendor/extensions/http.c`, `sqliteRemote()`, `sqliteHttpConfig()` | a page cache per file, a downloaded copy, counters | open, read a page, prefetch, fall back to a download | libcurl and a server |
| Extensions, metadata and quoting, deprecated methods, generated glue, vendored SQLite and Boost | none of their own, or third-party | | |

### What is hard here

* **Look-ahead.** Binding already runs the statement up to its first row, and
  every fetched row is followed by the step to the next. A result set is thus
  always one `sqlite3_step()` ahead of its caller, and an error or an interrupt
  belongs to a row the caller has not asked for.
* **Groups.** `dbBind()` with vectors runs the statement once per element;
  executions that return nothing are run in a loop inside one call, the others
  as their rows are fetched. Stepping after `SQLITE_DONE` would run the
  statement again.
* **Types.** SQLite types values, R types columns: the type of a column is
  guessed from declared types and first values, widens while rows arrive, and
  persists across fetches and binds. Data is in several storages by then.
* **Lifetimes.** A connection is owned jointly by R objects that are closed,
  forgotten and finalized in any order, and lives on inside SQLite as a zombie
  while the callback it would call belongs to R's garbage collector.
* **Names.** SQLite numbers placeholders by rules of its own (repeated names,
  gaps, numbers made up for `?`), R matches the names that come out of this,
  and the deprecated prepared queries try again after any error, one in the
  middle of an execution included.
* **Failures.** Each SQL statement of a table write may fail, some failures roll
  the whole transaction back, and `on.exit()` handlers run statements that may
  fail themselves. Outside a transaction another connection may interfere.

`PROJECT.json` lists these hazards at their lines with the properties that
watch over them.

## 2. The modules

```
  Cursor      <--refines------------------- ResultSet    <-- ResultSetProofs
                            MCResultSet --> ResultSet
                            MCColumn    --> Column       <-- ColumnProofs
                            MCParams    --> Params       <-- ParamsProofs
                            MCImport    --> Import       <-- ScannerProofs
                                            Affinity     <-- ScannerProofs
                                            Connection   <-- ConnectionProofs
  AtomicStore <--refines------------------- Transactions <-- TransactionsProofs
       both on Savepoints, what SQLite does
                                            HttpVfs      <-- HttpVfsProofs
       ResultSetProofs, ParamsProofs, ColumnProofs and ScannerProofs on SequenceLemmas
```

### `ResultSet` and `Cursor`

`ResultSet` is one `SqliteResultImpl`. Variables carry the names of the members
without the trailing underscore; `bound` and `cur` are the statement (its
bindings, and the row it stands on in the current execution), `total` is
`sqlite3_total_changes()`, `n_max` and `i` are those of the `DbDataFrame`. What
a query returns is a constant: `RowsOf` and `ChangesOf` give the rows and the
changes of one execution for each parameter group. A row is its position
`<<group, number>>`; a row copied while the statement stands on none has
number 0.

One call of R is several actions, because every `sqlite3_step()` in it may
fail and unwind it: `pc` is `"idle"` between calls and `"step"`, `"copy"` or
`"advance"` inside one.

| Action | Code |
| --- | --- |
| `Create`, `Bind`, `FetchBegin`, `Clear` | the constructor; `bind()` with `bind_row()` and `init()`; the head of `fetch_rows()`; the destructor |
| `StepRow`, `StepDone`, `StepError` | the three ways `step_run()` goes on; `StepDone` contains `step_done()` and the next `bind_row()` |
| `FetchCopy`, `FetchAdvance`, `FetchInterrupt`, `FetchEnd` | one turn of the loop of `fetch_rows()`: `set_col_values()`, then (after the step) `nrows_++` and `advance()`, which may throw a user interrupt; the end of the loop |

A statement without parameters (`has_params`) runs in its constructor and
cannot be bound; both sorts are initial states of one run.

A group that holds a value `bind_parameter_pos()` refuses is in `BadInput`: the
exception leaves some values bound (`Partial`).

`Cursor` says what all this amounts to for a caller: a queue of rows, of which
`dbFetch(n)` takes the first `n`. `ResultSet!RefinesCursor` maps the detailed
state to it; every internal step is a stutter, and after a failure the cursor
is `"broken"` and promises nothing.

### `Column`

One column of a result: `storage` is the chain of storages, `type` is `types_`,
`seen` is `data_types_seen`, `cell` what SQLite has in the current row. A cell
is a *kind* ("int", "intmin", "long", "real", "text", "date", "blob", ...),
chosen so that kinds behave alike in every `fetch_*()` function; a value in R
is the number of its row and whether it is exact, coerced, or read from memory
of another type ("garbage"). One action is one loop turn, because failures in
between are the business of `ResultSet`. `Peek` is `peek_first_row()`, reached
from `dbColumnInfo()` (even before binding) and `dbFetch(n = 0)`.

### `Connection`

`owners` are the sharers of the `boost::shared_ptr<DbConnection>`, `live` the
external pointers that still hold a `DbResult`, `held` what R variables hold,
and reachability follows R's pointers: a result set keeps its connection, the
connection's environment keeps `ref$result`. `sqlite` is the handle:
`"zombie"` after `sqlite3_close_v2()` with statements left. `handler` is what
SQLite calls when it meets a lock, `preserved` the R functions protected from
the collector; `RunIntoLock` records what the call would find. `CopyFails` is
`copy_to()` with this connection as the source: the backup it leaves
`unfinished` keeps the database in use for good.

### `Params`

From the list a caller passes to the variables of a statement. `text` is the
sequence of placeholders in the query, `Variables` what SQLite makes of it
(`Numbering` has it for every prefix of the text),
`get_placeholder_names` the only thing RSQLite sees of that. `Fits` and `Chosen`
are `db_bind()`, `validate_params` and `SizeFits` the checks of `bind()`. The
actions are those of a call: `Refuse` and `Bind`, then `GroupEnds`,
`GroupHasRows` and `GroupFails` for the executions, in just the detail that
matters for the second attempt of `dbGetPreparedQuery()` and
`dbSendPreparedQuery()` (`Raise`), which passes the data frame without its names.
A value is its position in the list of the caller.

### `Affinity`

`sqlite3AffinityType()` character by character: `h` holds the last four of them,
as the 32-bit number of the code does, `aff` the affinity so far. `Table` is the
table in the comment above the function: the first row with a substring
anywhere in the type. The characters are a parameter.

### `Transactions`, `Savepoints` and `AtomicStore`

`db` is SQLite as its documentation describes it: the table's content, what is
on disk, the savepoint stack, `BEGIN`, and whether the connection holds a lock;
`Savepoints` has the operators on this record.
`frames` is the stack of running R functions, each with its place and whether
its `on.exit()` is armed. Every SQL statement is one action built from
`Execute`: it succeeds, or fails (with the first rows of an INSERT written), or
fails and makes SQLite roll everything back. An error unwinds to the nearest
armed `on.exit()`, which is `dbRollback(name)` with its two statements. `Other`
is another connection, which can write only while this one holds no lock.

`AtomicStore` is the promise to the caller: each `dbAppendTable()` and
`dbWriteTable()`, with all its statements, nested calls and clean-ups, is *one*
step on the same record: it adds rows or makes the table (`Add`, `Make`), or
fails without a trace (`Fail`), or loses the transaction around it (`Abort`), or,
at worst, leaves savepoints of its own on top of the user's, with nothing on
disk (`LeaveOpen`). The refinement mapping `Seen` shows `before` while a write
runs, so that the whole of it happens at its last step.

### `HttpVfs`

One open remote file of `vendor/extensions/http.c`. `cache` is the pair of
arrays `cache_page_no` and `cache_data`, front first; `data`, `have_meta`,
`content_length` are the members of `HttpFile`. The contents of a buffer are the
page its first bytes belong to: the page asked for, or page 1 for the body of a
whole file. One read of SQLite is several actions, one per request (`ProbeHead`,
`ProbeRange`, `Miss`, `Prefetch`), because a server may answer each one
differently: `server` says whether it honours ranges, ignores them, or does
either, and `tells` whether its answers to ranges always state the total length.
`Known` is what a range answer leaves of the length: nothing is learnt from
`bytes 0-4095/*`. The prefetch is any number of pages, as the environment
variable is: when it evicts the page that `http_get_page()` has returned,
`ReadEnd` copies from memory that may hold any page or none (`Freed`). SQLite
reads the header of the file before anything else (`header`). No request has a
time limit in the code, so nothing is assumed, or stated, about calls ending.

### `Import`

`RS_sqlite_import()`: `pos` is the file position, `Text` what
`RS_sqlite_getline()` finds, `Cuts` and `Fields` the scan of a line. One action
is one turn of the loop: `SkipLine`, `InsertRow`, or an end (`WrongColumns`,
`InsertFails`, `Finish`). Characters are tokens; a last line without end-of-line
is followed by what the uninitialized buffer may hold (`Leftovers`). The scan
stops at a CR or LF (`ScanStops`), unless it steps over it as a part of a
separator. Two things differ from the letter of the code: `EolAt` does not look
before the start of the buffer, where the code reads memory that `malloc()` owns;
and a line with too many fields is split to its end, where the code stops
stepping over separators, which only changes the number in its error message.

## 3. What TLC checks

| Run | Bounds | Shows |
| --- | --- | --- |
| `result_set` | with parameters: up to 3 groups of 3 sorts (two rows, no row, refused), 2 binds, 1 fault; without: one execution of three rows; fetches of all or 2; fair | rows in order across fetches and groups, exact completion, each group once, counters, refinement of `Cursor`, every call returns |
| `column` | 4 rows of 8 kinds, the smallest integers among them, undeclared, `INTEGER` or (extended) `DATE`, fetches of all or 3, smallest capacity | values in place, loss announced (but for an integer R takes for NA, and numbers a date cannot hold), types guessed and widened by the stated rule, columns of one storage class exact (same exception) |
| `connection` | 3 results, 2 callbacks, copies that fail; fair | one open result, no use of a closed database, the handler preserved while the connection is valid, unreachable things given back |
| `transactions` | 2 rows, one user savepoint, 2 faults, 1 foreign write | table writes are all or nothing; a failed call is never durable even if its clean-up fails; what a write decided on stays so; refinement of `AtomicStore` |
| `params` | 3 placeholders of 7 kinds (`?`, `?1`, `?2`, `:a`, `@a`, `:b`, `:1`), lists of up to 3 with or without 2 names, vectors of 0 or 2 | every placeholder gets the value the text means, complete lists and no others are accepted, nothing runs twice |
| `http_vfs` | 4 pages, cache of 3, prefetch of 0 to 3, 2 failing requests | the cache holds the file; with a prefetch shorter than the cache a page stays until it is read and steady servers are read correctly; the fallback is taken as configured; the size is known unless no answer stated it |
| `import` | every file of up to 6 of 5 tokens, 3 dialects, 1 or 2 columns, 0 or 1 skipped lines | rows spell their lines, lines follow each other, success is complete up to the first blank line |

Why the bounds are enough. A group behaves by its number of rows: none, some,
or refused; three groups make a middle one and let two empty ones meet, the
case in which `step()` loops. The interrupt period (1024 in the code) is set to
2 and the initial capacity of a storage (100) to 1, so that both are passed
several times: four rows let a column begin with NULL, be guessed, widen, spill
twice and be fetched in two chunks, with NULLs beyond a capacity. Three results
are one open, one closed and one to come. One fault shows every unwinding in a
result set; two in `transactions` let a statement and its clean-up fail, or the
caller go on to meet another failure.

A cache of three under four pages is full, with something to evict while a
prefetch runs, and a prefetch of three is as long as the cache; six tokens hold two lines of two fields, or one line with
separators and ends of line of two characters.

Three placeholders are the fewest with a repeated name next to another, and with
a gap or a mix that SQLite closes; seven kinds hold two sigils for one name and
a numeral as a name. Fetches of 2 divide the two rows of a group, and those of
neighbouring groups, in every way.

`Connection`, `Import`, `Params` and the result-set runs do not check for
deadlock: a closed connection, a finished import or call and a released result
set are final.

**Fairness.** `ResultSet!FairSpec` is weakly fair in the internal steps of a
call: R is single threaded and `.Call` runs to its end. No fairness is assumed
of callers. `Connection!FairSpec` is weakly fair in finalizers, which R runs
when it collects and at the end of the session (`finalize_on_exit` is set for
both external pointers). `HttpVfs` has no fair specification: its code waits for
a server without a limit.

### Disagreements

Five runs end in a violation, each of a sentence of the documentation, a comment
or an error message of the repository:

| Run | Says | Does |
| --- | --- | --- |
| `result_set_phantom` | "Query needs to be bound before fetching" | after a failed step a fetch delivers a row of NULLs and runs the statement again |
| `connection_null` | `NULL`: "fail immediately" | the next lock calls a NULL function |
| `connection_freed` | the connection lives on until its results are closed | its busy callback does not |
| `http_vfs_evicted` | "returns pointer to cached page (owned by hf)" | a prefetch as long as the cache frees that page before `httpRead()` copies it (cache of 2, prefetch of 2) |
| `http_vfs_mixed` | "falls back to a one-time full download" | the read that finds the server refusing a range delivers the start of the file for its page |

More are seen in the models without a run of their own.
`db_bind()` says "Cannot mix anonymous and named/numbered placeholders in query"
and "Cannot mix numbered and named placeholders in query"; `? ?1`, `?1 ? ?2` and
`:a ?1` pass all the same, because SQLite makes one variable of two
placeholders, and `:1` is bound by position like a number (`Expected` in
`Params` leaves these texts out). SQLite asks for "exactly one call to
sqlite3_backup_finish()" for each backup; `copy_to()` makes none when the step
fails, and the source stays open as a zombie for good (`GivenBack` names it).
The type of a column "will be fixed after the first call to fetch()"; later
fetches and `dbColumnInfo()` widen it all the same (`TypeIsGuessed` and
`TypeOnlyWidens` state what holds instead). The default for 64-bit integers
"allows the full range of 64 bit integers"; -2147483648 is `NA` in a column with
no wider integer (the exception of `UniformIsExact`). A value of an extended type
that cannot be mapped is "returned in its place" as `NA` "with a warning"; a
count of days of more than 32 bits becomes another date in silence, while a
fraction of a day is cut off as intended (both are `CutNumbers` in `MappedOrNA`).
Defects of a single call, which a unit test finds, are not modelled: `fclose(NULL)`
after an import file cannot be opened, the handle that a failed
`sqlite3_open_v2()` leaves, `in_transaction()` after a disconnect, and a backup
that `sqlite3_backup_init()` refuses with NULL.

Known limits of passing properties: `AllOrNothing` names the one exception the
code has (`LeftOpen`, the action `LeaveOpen` of `AtomicStore`): `dbAppendTable()`
disarms its `on.exit()` before `dbCommit()`, so a failing `RELEASE` leaves rows
and savepoint behind. Both also admit SQLite's own rollback of the whole
transaction, after which nothing the caller did can be kept. `AllOrNothing` says
nothing of a call whose clean-up failed (`unclean`); `RefinesStore` and
`FailedCallIsNotDurable` do. `RowsAffected` counts in `carry` the
changes of an execution that a rebind cuts short, which the code attributes to
the new bind. `SteadyServerIsRead` is about servers that treat all ranges alike
and, like `ShortPrefetchIsSafe`, about prefetching fewer pages than the cache
holds, which the code does not ensure. `SizeIsKnown` admits that the size stays 0
after a successful read if no answer states the length and nothing was
downloaded. `LossIsTold` and `UniformIsExact` let the smallest 32-bit and 64-bit
integers become `NA`, since R has no other reading of them; no other value.
`MappedOrNA` lets `CutNumbers` change in silence: in a `DATE` column numbers
with a fraction or of more than 32 bits, in `DATETIME` and `TIME` columns integers
that a double cannot hold.
`RowsSpellTheirLines` leaves out a last line without end-of-line, and
`SuccessIsComplete` admits that an import stops at a blank line.

## 4. What is proved

Eight modules of proofs (one of them holds the lemmas four others share), each
about every value of the constants. The only
assumptions are the named ones of the modules (`ConstantsAssumption`,
`LengthsAssumption`, `TokensAssumption`), types and bounds of constants
(and that a user does not name a savepoint as the functions name theirs), which
TLC evaluates in the runs.

### A result set (`ResultSetProofs`)

For every statement, every number of groups and rows, every fetch size and every
schedule of failures: `TypeOK`, `RowsInOrder`, `CompleteMeansExhausted`,
`ExactlyOnce`, `RowsCounted`, `ShortFetchMeansComplete`, `RowsAffected`, the
action property `QuietOnceComplete` and the refinement `RefinesCursor`. None of the properties is inductive alone, since in the
middle of a call the statement is ahead of the members. `IInv` adds three parts:

* `GroupInv`: a result that is not complete has a group to run, and its values
  are the ones bound; groups before it have run once, later ones not at all.
* `PositionInv`: between a copy and the end of the step after it, execution is
  *at* the last row taken, or at the start of a later group with only empty
  groups between; at other times the statement stands on the row that follows.
* `CountInv`: `nrows_`, the rows in the frame and the rows delivered add up.

`AtRow`, `AtDone` and `AtEnd` are the heart of the argument: from such a position
a row that `sqlite3_step()` finds is the next one of the plan, the end of a
group leads to the next group, and the end of the last one leaves nothing. The
proof of `InvStep` has one step per action and one below it per conjunct the
action can disturb. All of `IInv` is conditional on `Sound`: no step and no
binding has failed since the last bind. After a failure the code promises
nothing, as `result_set_phantom` shows.

`RowsAffected` needs `ChangesInv`: in the middle of a bind, too, `total` has grown
since `start` by `carry` and the changes of the groups executed so far; it grows
by those of one more group in `StepDone`.

The refinement (`CursorRefined`) rests on `TakenAreFirst`: the rows copied out
begin `AllRows`, the rows of all groups one after another. `FlattenPlaces` gives
the place of each row in it; that each row taken succeeds the one before
(`RowsInOrder`, `PositionInv`) makes the places consecutive. `RetInv` says that
what a call returns is the end of what was taken, and `Windows` that these are
then the first rows of what was left. `CursorStep` takes the actions one by one:
`FetchEnd`, and the `FetchAdvance` that fills the frame, are `Fetch(n)` of the
cursor; `Bind` and the step with which the constructor returns are its `Bind`; a
failure breaks it; every other step is a stutter.

### Parameters (`ParamsProofs`)

`NothingRunsTwice`: for every text, data frame and point of failure, the second
attempt of a prepared query executes nothing the first one has begun. Nothing in
the code checks for this. The argument is that the first attempt passes names:
if it came to an execution, the placeholders are named (`NamedMeansByName`), and
then the second attempt, without names, is refused (`UnnamedIsRefused`).
`StartedInv` carries this from one attempt to the other: at the start of the
second, nothing has been executed or the query takes its parameters by name.

`ValuesArrive` (`EachPlaceholderGetsItsValue`) is an induction over the text: a
variable that is numbered early keeps its number and its name (`AssignKeeps`,
`NumberingKeeps`), so the variable of a placeholder is in the whole statement
still the one it was when it was met (`VarInText`). By position it then has the
value of its number, and `AcceptedPositional` shows that no named placeholder is
among those bound so; by name it has that of its name (`FirstOfName`).
`ValuesInv` is the inductive part: what is bound was accepted for the same list.

`AcceptedExactly` (`AcceptedIffComplete`) takes the three sorts of placeholders
one by one. For numbers, `Filled` says that the variables without a name are the
gaps and that the last one is never a gap, so a text with a gap looks mixed to
`db_bind()`. For names, `FirstsAre` says that the parameters used are the first
of each name, so that nothing is left over exactly if no name is given twice or
in vain. Two assumptions on the placeholders are about SQLite: a number is
positive, and only `?` has no name.

### A connection (`ConnectionProofs`)

`RefIsTheOpenResult`, `HandleOutlivesStatements`, `HandlerPreserved` and `TypeOK`
for any number of results and callbacks. They are inductive together with
`Ownership`: the owners of the shared pointer are exactly what still needs it,
so the destructor and the finalizers cannot find the database in a state that
`close` or `AfterFinalize` does not expect. `DisownedKeeps` is the common part of
`dbClearResult()` and both finalizers.

### A remote file (`HttpVfsProofs`)

`CacheIsTheFile`, `ShortPrefetchIsSafe`, `SteadyServerIsRead`,
`FallbackAsConfigured`, `SizeIsKnown` and `TypeOK`, for files of any length, any
capacity and any prefetch. `IInv` adds what is known of the file (`FileInv`), of the downloaded
copy (`WholeInv`), of a server that never changes its mind (`SteadyInv`), and
where the page just returned is (`PlaceInv`): if the prefetch is shorter than the
cache it is at most as many places from the front as pages have been prefetched
since, hence not last. `Inserted`
and `MovedToFront` say what an insertion and a hit do to the sequence.

### Transactions and table writes (`TransactionsProofs`)

`AllOrNothing`, `FailedCallIsNotDurable`, `FoundStaysTrue`, `TypeOK`, and
`RefinesStore`: for any rows, any savepoints of the user, however deep, any
number of failing statements and any writes of another connection. `IInv` says,
for each place a call can be at (`OwnFacts`, and `NestedFacts` for a
`dbAppendTable()` in a `dbWriteTable()`), how the database compares with the one
the call began with. There are two cases. Either the call is `Inside`: its own
savepoint, whose content is that of the beginning, lies on the user's stack,
which is as it was. A savepoint that an earlier call has left behind may have
the same name: SQLite takes the innermost. Or SQLite has rolled everything back,
and the clean-ups that follow fail without effect. What `dbExistsTable()` read
stays true because the read has taken a lock (`locked`), which only the end of
the transaction gives up.

`NextStep` is the whole argument, with a lemma for each action: a step keeps
`IInv` and is, through `Seen`, a step of `AtomicStore` or a stutter. The lemmas
before `Control` say what the savepoint operators do to a stack, and what an
error does to the running calls.

### A column (`ColumnProofs`)

`ValuesInPlace`, `LossIsTold`, `MappedOrNA`, `ChainConverts`, `TypeIsGuessed`,
`UniformIsExact`, `TypeOK` and the action property `TypeOnlyWidens`, for columns
of any length, any kinds in any order, any capacity and any sizes of fetches.
`IInv` describes a column in the middle of its rows:

* `CellInv` and `FrameInv`: the chain holds a prefix of the rows of this fetch,
  and `seen` the kinds met since it began.
* `ChainInv`: where a storage of the chain begins, how far it is filled, and
  that each value in it is the one of its row, converted to the type of the
  storage. Its offsets are what survives `FlattenSeq`, the copy of all storages
  into one vector (`FlattenPlaces`): row j is at place j.
* `KnownInv`, `SeenInv` and `GuessInv` relate the type of the last storage to
  the declared type, the kinds seen and the first values. A storage before the
  last holds only NULLs, or integers where the last holds wider numbers, or
  values of the same type, so it can be copied into the vector of the last one.

`LossIsTold` follows from the parts about kinds: a value that does not come back
as it was has met a type the column had before it. It excepts the smallest
integers, which R takes for `NA`, and columns of an extended type. Of these
`MappedOrNA` needs one part more, `AltToldInv`: what `fetch_date()` and the like
could not read in the rows of the frame has been warned about. `UniformIsExact` needs the whole of `IInv`: whatever full
storages, leading NULLs and widening a column of one storage class goes through,
no value of it is coerced, and none but a NULL or a smallest integer is lost.

### An import (`ScannerProofs`)

`RowsSpellTheirLines`, `LinesFollow` and `SuccessIsComplete`, for files,
separators and ends-of-line of any length. `IInv` adds where the file is read
(`PosInv`: at its start, its end, or just after an end-of-line, which is the one
after the last row) and how many lines are rows (`CountInv`). The rest of the
argument is about one line. `FirstEolIs` and `LineIs` say that the line ends
before the first end-of-line; `CutsAre` that the recursive scan `Cuts` finds
separators that do not overlap, and that any other separator shares a token with
one of them or begins after the scan has stopped (`StoppedBy`); `FieldsAre` that the fields lie between the cuts; and
`JoinIs` that fields and separators put together are the line again.
`NoSeparatorLeft` has the surprise: the scan stops at the first CR or LF outside
a separator, so the last field may hold a separator, but then it holds that CR or
LF.

### Declared types (`ScannerProofs`)

`ScanFollowsTable`: the scan gives the affinity of the table although it stops
at `INT` and meets the words in the order of the type, not of the table.
`ScanInv` says that the affinity so far is that of the part read so far, and
`TableNext` that one character keeps this so. This result is only proved: a run
over short types would be a sample of it.

### Sequences (`SequenceLemmas`)

Induction is used in the form of a set: one that holds 0 and with each number
the next holds all of them (`Induction`, from the well-foundedness of `<`, as is
`LeastNumber`). What is defined by recursion, such as `FlattenSeq` or `Cuts`, is
a CHOOSE of a function that satisfies an equation: the proofs first show that
there is one (`FlattenDefined`, `CutsDefined`), then what each solution does.

Only model-checked: liveness (`CallReturns` and `GivenBack`), which is out
of reach of the provers. Every invariant and every action property a passing run
checks is a theorem.

## 5. What is not modelled

* `HttpVfs` leaves out files that change on the server, a last page cut short,
  and the process-wide counters. It takes the length HEAD gives to be the file's
  (the code also reads it from the headers of redirects), and the body of a 206 to
  hold all of the page (the code does not compare the lengths).
* `Import` leaves out failing allocations, a table that cannot be prepared and a
  file that cannot be opened, which end the call before its first line.
* `Column` has no text with a NUL inside, which `fetch_string()` cuts in silence.
* Of the database copy, the side of the destination: the whole copy is one call
  into SQLite's backup. `Connection` has what a failed copy does to its source.
* The conversion of parameter values (factors, encodings) and of 64-bit integers
  in R: functions of one value, without state.
* Extensions, metadata, quoting and the other deprecated methods build a text or
  wrap a modelled method, without state. Generated glue and vendored libraries
  are not RSQLite's logic; SQLite appears from outside, as documented.

## 6. Plan

1. (done) `ResultSet`, `Cursor`; `Column`; `Connection`; `Transactions`;
   `HttpVfs`; `Import`; the proofs about `ResultSet`.
2. (done) `Params`, `Affinity`; `Savepoints` and `AtomicStore`, which
   `Transactions` refines; failed copies in `Connection`; the proofs about
   `Params`, `Connection`, `HttpVfs`, `Affinity`, `Transactions` with its
   refinement, `Column` and `Import`, that `ResultSet` implements `Cursor`, and
   the values and the acceptance of parameters.
3. An abstract page store that `HttpVfs` refines for steady servers.
