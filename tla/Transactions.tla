---------------------------- MODULE Transactions ----------------------------
(***************************************************************************)
(* Transactions of one connection: dbBegin(), dbCommit(), dbRollback() and *)
(* the functions that wrap their work in a savepoint of their own,         *)
(* dbAppendTable() and dbWriteTable() of a data frame or of a file.        *)
(* Sources: src/R/db{Begin,Commit,Rollback,AppendTable,WriteTable}*.R.     *)
(*                                                                         *)
(* Every statement may fail, and some failures make SQLite roll the whole  *)
(* transaction back.  An R error runs the on.exit() of each function it    *)
(* unwinds; a frame here is such a running function.  Outside a            *)
(* transaction another connection may change the database at any time.     *)
(*                                                                         *)
(* The data is one table, as the set of its parts: the table itself and    *)
(* the rows of the data to be written.  What SQLite does is in Savepoints.  *)
(***************************************************************************)
EXTENDS Savepoints

CONSTANTS
  Rows,             \* the rows a call writes
  OldRow,           \* a row that was there before
  UserNames,        \* savepoint names a user passes
  MaxDepth,         \* bound: open savepoints when a user opens another
  MaxFaults,        \* bound: failing statements
  MaxOthers         \* bound: changes by another connection

ASSUME ConstantsAssumption ==
  /\ OldRow \notin Rows
  /\ UserNames \cap {"write", "append"} = {}
  /\ {MaxDepth, MaxFaults, MaxOthers} \subseteq Nat

VARIABLES
  db,               \* what SQLite knows, a record as in Savepoints
  frames,           \* the running calls, innermost first
  result,           \* how the last call of the user ended
  call,             \* history: the last call of the user: its mode and data
  found,            \* dbWriteTable(): did the table exist?
  before,           \* history: db when that call began
  unclean,          \* history: a statement of its on.exit() failed
  faults, others    \* used so far of MaxFaults and MaxOthers

vars == <<db, frames, result, call, found, before, unclean, faults, others>>

Table == "table"
NoCall == [fn |-> "other", mode |-> "user", rows |-> {}]

Init ==
  /\ db \in [content : {{}, {Table, OldRow}}, disk : {{}, {Table, OldRow}},
             stack : {<<>>}, begun : {FALSE}, locked : {FALSE}]
  /\ db.content = db.disk
  /\ frames = <<>> /\ result = "ok" /\ call = NoCall /\ found = FALSE
  /\ before = db /\ unclean = FALSE /\ faults = 0 /\ others = 0

----------------------------------------------------------------------------
(* R *)

\* An error leaves the frames up to the first one with an armed on.exit(),
\* which rolls back; on.exit() does not run twice.
Armed(fs) == {k \in DOMAIN fs : fs[k].armed}
Unwound(fs) ==
  IF Armed(fs) = {} THEN <<>>
  ELSE LET k == Min(Armed(fs))
       IN  <<[fs[k] EXCEPT !.armed = FALSE, !.pc = "rollback"]>> \o SubSeq(fs, k + 1, Len(fs))

Stop == frames' = Unwound(frames) /\ result' = "error"
GoOn(fs) == frames' = fs /\ result' = "ok"

Top == frames[1]
At(pc) == frames # <<>> /\ Top.pc = pc
MayFail == faults < MaxFaults

\* dbExecute(): the statement succeeds, if it can, and the call goes on with
\* fs; or it fails; or it fails and SQLite rolls the transaction back.  A
\* failing statement of several rows keeps those it has written, so partial is
\* the set of states it can leave.
Execute(can, after, partial, fs) ==
  \/ can /\ db' = after /\ GoOn(fs) /\ UNCHANGED faults
  \/ ~can /\ Stop /\ UNCHANGED <<db, faults>>
  \/ /\ MayFail /\ faults' = faults + 1
     /\ db' \in {RolledBack(db)} \cup IF can THEN partial ELSE {db}
     /\ Stop

\* The frames after the top one goes on at pc, or returns.
Then(pc) == <<[Top EXCEPT !.pc = pc]>> \o Tail(frames)
Return == Tail(frames)

\* A call of the user starts.
Frame(fn, pc, mode) == [fn |-> fn, pc |-> pc, armed |-> FALSE, mode |-> mode]
UserCall == frames = <<>> /\ call' = NoCall /\ UNCHANGED <<found, before, unclean, others>>

\* dbBegin(), dbCommit() and dbRollback() without a name.
Begin ==
  /\ UserCall
  /\ Execute(~InTransaction(db), Begun(db), {db}, <<>>)
Commit ==
  /\ UserCall
  /\ Execute(InTransaction(db), Committed(db), {db}, <<>>)
Rollback ==
  /\ UserCall
  /\ Execute(InTransaction(db), RolledBack(db), {db}, <<>>)

\* And with one; dbRollback(name) is two statements.
BeginNamed(n) ==
  /\ UserCall
  /\ Len(db.stack) < MaxDepth
  /\ Execute(TRUE, Saved(db, n), {db}, <<>>)
CommitNamed(n) ==
  /\ UserCall
  /\ Execute(Known(db, n), Released(db, n), {db}, <<>>)
RollbackNamed(n) ==
  /\ UserCall
  /\ GoOn(<<Frame(n, "rollback", "user")>>)
  /\ UNCHANGED <<db, faults>>

RollbackTo ==
  /\ At("rollback")
  /\ Execute(Known(db, Top.fn), RolledBackTo(db, Top.fn), {db}, Then("release"))
  /\ unclean' = (unclean \/ faults' > faults)
  /\ UNCHANGED <<call, found, before, others>>

\* ROLLBACK TO is done: RELEASE.  In an on.exit() the error goes on.
ReleaseRolledBack ==
  /\ At("release")
  /\ \/ /\ Known(db, Top.fn)
        /\ db' = Released(db, Top.fn)
        /\ IF Top.mode = "user" THEN GoOn(Return) ELSE frames' = Unwound(Return) /\ result' = "error"
        /\ UNCHANGED faults
     \/ /\ ~Known(db, Top.fn)
        /\ Stop
        /\ UNCHANGED <<db, faults>>
     \/ /\ MayFail /\ faults' = faults + 1
        /\ db' \in {db, RolledBack(db)}
        /\ Stop
  /\ unclean' = (unclean \/ faults' > faults)
  /\ UNCHANGED <<call, found, before, others>>

----------------------------------------------------------------------------
(* dbAppendTable() and dbWriteTable() *)

\* mode: "fail", "overwrite" or "append" to an existing table; file: the data
\* comes from a file.
Start(fn, mode, file, rows) ==
  /\ frames = <<>>
  /\ GoOn(<<Frame(fn, "begin", mode)>>)
  /\ call' = [fn |-> IF file THEN "file" ELSE fn, mode |-> mode, rows |-> rows]
  /\ before' = db
  /\ found' = FALSE /\ unclean' = FALSE
  /\ UNCHANGED <<db, faults, others>>

AppendTable(rows) == Start("append", "append", FALSE, rows)
WriteTable(mode, file, rows) == Start("write", mode, file, rows)

\* dbBegin(conn, name = savepoint_id); on.exit(dbRollback(...))
Guarded(pc) == <<[Top EXCEPT !.pc = pc, !.armed = TRUE]>> \o Tail(frames)
AfterBegin == IF Top.fn = "append" THEN "insert" ELSE "exists"
SaveForgotten == db
Save == Saved(db, Top.fn)
BeginOwn ==
  /\ At("begin")
  /\ Execute(TRUE, Save, {db}, Guarded(AfterBegin))
  /\ UNCHANGED <<call, found, before, unclean, others>>

\* dbExistsTable(), and the decision what to do about it.
Decision ==
  IF Table \notin db.content THEN "create" ELSE IF Top.mode = "overwrite" THEN "remove" ELSE "rows"
Refused == Table \in db.content /\ Top.mode = "fail"
Exists ==
  /\ At("exists")
  /\ found' = (Table \in db.content)
  /\ \/ ~Refused /\ Execute(TRUE, Read(db), {db}, Then(Decision))
     \/ /\ Refused /\ Stop
        /\ \/ db' = Read(db) /\ UNCHANGED faults
           \/ MayFail /\ faults' = faults + 1 /\ db' \in {db, RolledBack(db)}
  /\ UNCHANGED <<call, before, unclean, others>>

\* dbRemoveTable()
RemoveTable ==
  /\ At("remove")
  /\ Execute(Table \in db.content, Written(db, {}), {db}, Then("create"))
  /\ UNCHANGED <<call, found, before, unclean, others>>

\* dbCreateTable()
CreateTable ==
  /\ At("create")
  /\ Execute(Table \notin db.content, Written(db, {Table}), {db}, Then("rows"))
  /\ UNCHANGED <<call, found, before, unclean, others>>

\* The rows of a data frame are written by a nested dbAppendTable(), unless
\* there are none; those of a file by connection_import_file().
AppendFrameOfWrite == Frame("write", "begin", "append")
AppendFrame == Frame("append", "begin", "append")
NestedAppend ==
  /\ At("rows") /\ call.fn = "write"
  /\ \/ call.rows # {} /\ GoOn(<<AppendFrame>> \o Then("commit"))
     \/ call.rows = {} /\ GoOn(Then("commit"))
  /\ UNCHANGED <<db, call, found, before, unclean, faults, others>>

\* What a multi-row INSERT that fails leaves behind: its first rows.
SomeRows == {Written(db, db.content \cup s) : s \in SUBSET call.rows}
InsertRows(pc) ==
  /\ Execute(Table \in db.content, Written(db, db.content \cup call.rows), SomeRows, Then(pc))
  /\ UNCHANGED <<call, found, before, unclean, others>>
ImportFile == At("rows") /\ call.fn = "file" /\ InsertRows("commit")
Insert == At("insert") /\ InsertRows("commit")

\* dbAppendTable() disarms its on.exit() before dbCommit(), dbWriteTable()
\* after it.
DisarmedAlways == TRUE
CommitDisarmed == Top.fn = "append"
CommitOwn ==
  /\ At("commit")
  /\ \/ /\ Known(db, Top.fn)
        /\ db' = Released(db, Top.fn)
        /\ GoOn(Return)
        /\ UNCHANGED faults
     \/ /\ \/ ~Known(db, Top.fn) /\ UNCHANGED <<db, faults>>
           \/ MayFail /\ faults' = faults + 1 /\ db' \in {db, RolledBack(db)}
        /\ frames' = Unwound(IF CommitDisarmed THEN Return ELSE frames)
        /\ result' = "error"
  /\ UNCHANGED <<call, found, before, unclean, others>>

\* Another connection drops, creates or empties the table.
Other ==
  /\ others < MaxOthers /\ ~db.locked
  /\ others' = others + 1
  /\ \E c \in {{}, {Table}} : db' = Changed(db, c) /\ before' = Changed(before, c)
  /\ call' = IF frames = <<>> THEN NoCall ELSE call
  /\ UNCHANGED <<frames, result, found, unclean, faults>>

Next ==
  \/ Begin \/ Commit \/ Rollback
  \/ \E n \in UserNames : BeginNamed(n) \/ CommitNamed(n) \/ RollbackNamed(n)
  \/ \E rows \in {{}, Rows} :
       \/ AppendTable(rows)
       \/ \E mode \in {"fail", "overwrite", "append"}, file \in BOOLEAN :
            WriteTable(mode, file, rows)
  \/ BeginOwn \/ Exists \/ RemoveTable \/ CreateTable \/ NestedAppend
  \/ ImportFile \/ Insert \/ CommitOwn
  \/ RollbackTo \/ ReleaseRolledBack
  \/ Other

Spec == Init /\ [][Next]_vars

----------------------------------------------------------------------------
(* Properties *)

Names == UserNames \cup {"write", "append"}
Modes == {"user", "fail", "overwrite", "append"}

\* Every variable has its type; dbWriteTable() calls dbAppendTable(), and no
\* other call nests.
TypeOK ==
  /\ {db.content, db.disk} \subseteq SUBSET ({Table, OldRow} \cup Rows)
  /\ \A k \in DOMAIN db.stack : db.stack[k].name \in Names
  /\ {db.begun, db.locked, found, unclean} \subseteq BOOLEAN
  /\ frames = <<>> \/ Len(frames) = 1 \/ (Len(frames) = 2 /\ frames[2].fn = "write")
  /\ result \in {"ok", "error"}
  /\ call.fn \in {"other", "append", "write", "file"}
  /\ call.mode \in Modes /\ call.rows \subseteq Rows

\* The last call was a dbAppendTable() or dbWriteTable(), and it is over.
Over == frames = <<>> /\ call.fn # "other"

\* What it should have done to the table.
Intended ==
  IF call.mode = "append" THEN before.content \cup {Table} \cup call.rows
  ELSE {Table} \cup call.rows

\* dbAppendTable() has failed in its dbCommit(), with on.exit() disarmed: all
\* rows are written and its savepoint stays open.
LeftOpen == call.fn = "append" /\ Known(db, "append") /\ db.content = Intended

\* A call that succeeds has done it all; one that fails has changed nothing, or
\* SQLite has rolled back the whole transaction around it (unless a statement
\* of its own rollback fails as well).
AllOrNothing ==
  Over /\ ~unclean =>
    IF result = "ok" THEN db.content = Intended
    ELSE \/ db.content = before.content
         \/ ~InTransaction(db) /\ db.content = before.disk
         \/ LeftOpen

\* However many statements fail, on the way in or in the clean-up, a failed
\* call makes nothing durable.
FailedCallIsNotDurable ==
  Over /\ result = "error" => db.disk = before.disk

\* What dbExistsTable() found is still so when dbWriteTable() acts on it, other
\* connections notwithstanding.
FoundStaysTrue ==
  frames # <<>> /\ Top.fn = "write" =>
    /\ At("remove") => found /\ Table \in db.content
    /\ At("create") => Table \notin db.content
    /\ At("rows") => Table \in db.content

----------------------------------------------------------------------------
(* Refinement *)

\* While a write runs inside its savepoint, its caller is to see the database
\* as it was; a user's dbRollback(name) is two statements like any other.
Running == frames # <<>> /\ frames[Len(frames)].mode # "user"
Seen == IF Running /\ InTransaction(db) THEN before ELSE db

Store == INSTANCE AtomicStore WITH store <- Seen

\* Whatever fails, and whatever others write in between, a table write is one
\* step: all of it, none of it, or the end of the transaction around it; what it
\* may leave behind are savepoints of its own, never a change on disk and never
\* a change of the user's savepoints.
RefinesStore == Store!Spec
=============================================================================
