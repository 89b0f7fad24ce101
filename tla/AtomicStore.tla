----------------------------- MODULE AtomicStore -----------------------------
(***************************************************************************)
(* What the transaction and table functions promise their caller: each     *)
(* statement of the user, and each dbAppendTable() or dbWriteTable() as a  *)
(* whole, is ONE step on the table.  A write that fails leaves the table   *)
(* and the user's transactions alone, or finds that SQLite has given up    *)
(* the transaction around it; at worst it leaves savepoints of its own     *)
(* open on top of the user's, and even then nothing is durable.            *)
(***************************************************************************)
EXTENDS Savepoints

CONSTANTS Rows, OldRow, UserNames   \* as in Transactions

Table == "table"
OwnNames == {"write", "append"}

VARIABLE store      \* a record as in Savepoints

Init ==
  \E c \in {{}, {Table, OldRow}} :
    store = [content |-> c, disk |-> c, stack |-> <<>>, begun |-> FALSE, locked |-> FALSE]

\* The statements of the user.
Begin == ~InTransaction(store) /\ store' = Begun(store)
Commit == InTransaction(store) /\ store' = Committed(store)
Rollback == InTransaction(store) /\ store' = RolledBack(store)
Save(n) == store' = Saved(store, n)
Release(n) == Known(store, n) /\ store' = Released(store, n)
RollbackTo(n) == Known(store, n) /\ store' = RolledBackTo(store, n)

\* A whole dbAppendTable() or dbWriteTable() that succeeds: rows are added to
\* the table, or the table is new or made anew with these rows.
Add(rows) ==
  /\ Table \in store.content
  /\ store' = Written(store, store.content \cup rows)
Make(rows) == store' = Written(store, {Table} \cup rows)

\* One that fails: at most the lock of its reads stays.
Fail == store' = Read(store)

\* One that fails to clean up after itself: savepoints of its own are open on
\* top of the user's, and what it wrote is in them, undone by dbRollback().
LeaveOpen ==
  LET mine == Len(store.stack)
  IN  /\ store'.disk = store.disk /\ store'.begun = store.begun
      /\ Len(store'.stack) > mine
      /\ SubSeq(store'.stack, 1, mine) = store.stack
      /\ store'.stack[mine + 1].content = store.content
      /\ \A k \in (mine + 1)..Len(store'.stack) : store'.stack[k].name \in OwnNames

\* SQLite rolls the transaction back on some errors.
Abort == store' = RolledBack(store)

\* Another connection writes, while this one holds no lock.
Other == ~store.locked /\ \E c \in {{}, {Table}} : store' = Changed(store, c)

Next ==
  \/ Begin \/ Commit \/ Rollback
  \/ \E n \in UserNames : Save(n) \/ Release(n) \/ RollbackTo(n)
  \/ \E rows \in {{}, Rows} : Add(rows) \/ Make(rows)
  \/ Fail \/ LeaveOpen \/ Abort
  \/ Other

Spec == Init /\ [][Next]_store
=============================================================================
