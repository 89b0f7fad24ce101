----------------------------- MODULE Savepoints -----------------------------
(***************************************************************************)
(* What SQLite does to one table when a statement about transactions       *)
(* succeeds, as its documentation has it: operators on a record            *)
(*   content  the table as this connection sees it                         *)
(*   disk     the table as it is committed                                 *)
(*   stack    the open savepoints, outermost first, with the content each  *)
(*            of them can return to                                        *)
(*   begun    whether BEGIN opened the transaction                         *)
(*   locked   whether other connections are kept from writing              *)
(***************************************************************************)
EXTENDS Naturals, Sequences, FiniteSetsExt

InTransaction(d) == d.begun \/ d.stack # <<>>

\* The innermost savepoint of that name.
Known(d, n) == \E k \in DOMAIN d.stack : d.stack[k].name = n
Innermost(d, n) == Max({k \in DOMAIN d.stack : d.stack[k].name = n})

Begun(d) == [d EXCEPT !.begun = TRUE]
Saved(d, n) == [d EXCEPT !.stack = Append(@, [name |-> n, content |-> d.content])]
Committed(d) ==
  [d EXCEPT !.disk = d.content, !.stack = <<>>, !.begun = FALSE, !.locked = FALSE]
RolledBack(d) ==
  [d EXCEPT !.content = d.disk, !.stack = <<>>, !.begun = FALSE, !.locked = FALSE]

\* RELEASE: the outermost savepoint, unless inside BEGIN, commits.
Released(d, n) ==
  LET left == [d EXCEPT !.stack = SubSeq(@, 1, Innermost(d, n) - 1)]
  IN  IF InTransaction(left) THEN left ELSE Committed(left)

\* ROLLBACK TO: the savepoint itself stays.
RolledBackTo(d, n) ==
  LET k == Innermost(d, n)
  IN  [d EXCEPT !.content = d.stack[k].content, !.stack = SubSeq(@, 1, k)]

\* A statement that leaves the table as c; outside a transaction it commits.
Written(d, c) ==
  IF InTransaction(d) THEN [d EXCEPT !.content = c, !.locked = TRUE]
  ELSE [d EXCEPT !.content = c, !.disk = c]
Read(d) == [d EXCEPT !.locked = InTransaction(d)]

\* Another connection commits c; without a lock here every open savepoint
\* stands for what is on disk.
Changed(d, c) ==
  [d EXCEPT !.content = c, !.disk = c,
            !.stack = [k \in DOMAIN @ |-> [@[k] EXCEPT !.content = c]]]
=============================================================================
