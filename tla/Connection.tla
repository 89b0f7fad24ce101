----------------------------- MODULE Connection -----------------------------
(***************************************************************************)
(* The lifetime of a connection, of the result sets opened on it, and of   *)
(* the busy handler R code installs: dbConnect(), dbSendQuery(),           *)
(* dbClearResult(), sqliteSetBusyHandler(), sqliteCopyDatabase(),          *)
(* dbDisconnect() and the finalizers R runs on external pointers.          *)
(* Sources: src/src/DbConnection.cpp, connection.cpp, DbResult.cpp,        *)
(* result.cpp and the R methods of the same names.                         *)
(*                                                                         *)
(* A DbConnection is shared (boost::shared_ptr) by the external pointer of *)
(* the R connection and by every DbResult.  dbDisconnect() closes it under *)
(* its owners' feet: sqlite3_close_v2() then leaves a zombie that lives    *)
(* until its last statement is finalized.  In R, conn@ref$result points to *)
(* the open result set, and each result set points back to its connection. *)
(***************************************************************************)
EXTENDS Naturals, FiniteSets

CONSTANTS
  Results,          \* the result sets that may be created
  Callbacks,        \* the R functions that may be installed as busy handlers
  None

ASSUME ConstantsAssumption == None \notin Results \cup Callbacks /\ "ptr" \notin Results

VARIABLES
  sqlite,           \* the sqlite3 object: "none", "open", "zombie", "closed"
  valid,            \* pConn_ # NULL
  owners,           \* who shares the DbConnection: Ptr and results
  live,             \* results whose external pointer holds a DbResult
  used,             \* results created so far
  unfinished,       \* sqlite3_backup objects reading from sqlite, left behind
  ref,              \* conn@ref$result
  held,             \* R variables: results (and Ptr for the connection)
  busy,             \* busy_callback_
  handler,          \* what SQLite calls when the database is locked
  preserved,        \* R objects between R_PreserveObject and R_ReleaseObject
  outcome           \* history: what came of the last lock SQLite ran into

vars == <<sqlite, valid, owners, live, used, unfinished, ref, held, busy, handler, preserved, outcome>>
lifeVars == <<sqlite, valid, owners, live, used, unfinished, ref, held>>
busyVars == <<busy, handler, preserved, outcome>>

Ptr == "ptr"
NoHandler == [kind |-> "none", data |-> None]

Init ==
  /\ sqlite = "none" /\ valid = FALSE
  /\ owners = {} /\ live = {} /\ used = {} /\ unfinished = FALSE /\ ref = None /\ held = {}
  /\ busy = None /\ handler = NoHandler /\ preserved = {} /\ outcome = "none"

----------------------------------------------------------------------------
(* Reachability: what R's collector keeps. *)

\* A variable holds the connection, or a result set that points to it.
ConnReachable == held # {}
ResultReachable(r) == r \in held \/ (ConnReachable /\ ref = r)

----------------------------------------------------------------------------
(* SQLite *)

\* What keeps a database from being closed: statements that are not finalized,
\* and backups that are not finished (connectionIsBusy()).
InUse(statements) == statements # {} \/ unfinished

\* sqlite3_close_v2(), with the statements that are left, and sqlite3_close(),
\* which refuses to close a database in use.
closeRefusing(statements) == IF InUse(statements) THEN sqlite ELSE "closed"
close(statements) == IF InUse(statements) THEN "zombie" ELSE "closed"

\* sqlite3_finalize(): the last statement of a zombie takes it along.
AfterFinalize(state, statements) ==
  IF state = "zombie" /\ ~InUse(statements) THEN "closed" ELSE state

----------------------------------------------------------------------------
(* DbConnection *)

\* release_callback_data()
releaseNothing == preserved
release == preserved \ {busy}

\* disconnect()
disconnect ==
  /\ sqlite' = close(live)
  /\ valid' = FALSE
  /\ preserved' = release
  /\ busy' = None

\* shared_ptr: the DbConnection loses one of its owners; without owners
\* it is destroyed.  The DbResult has finalized its statement by then.
Disowned(o) ==
  LET left == owners \ {o}
      statements == live \ {o}
      destroyed == left = {} /\ valid
  IN  /\ owners' = left
      /\ live' = statements
      /\ sqlite' = IF destroyed THEN close(statements)
                   ELSE IF o \in live THEN AfterFinalize(sqlite, statements) ELSE sqlite
      /\ valid' = (valid /\ ~destroyed)
      /\ preserved' = IF left = {} THEN release ELSE preserved
      /\ busy' = IF left = {} THEN None ELSE busy

\* dbConnect(); no connection is made when the database cannot be opened.
Connect ==
  /\ sqlite = "none"
  /\ sqlite' = "open" /\ valid' = TRUE
  /\ owners' = {Ptr} /\ held' = {Ptr}
  /\ UNCHANGED <<live, used, unfinished, ref, busyVars>>

\* connection_release(); a second call only warns.
Disconnect ==
  /\ ConnReachable /\ valid
  /\ disconnect
  /\ UNCHANGED <<owners, live, used, unfinished, ref, held, handler, outcome>>

\* set_busy_handler() of a function or of NULL; a NULL handler, too, makes
\* SQLite call busy_callback_helper().
KeptForNow(h) == release
KeptNull(h) == release \cup {h}
Kept(h) == release \cup ({h} \ {None})
SetBusyHandler(h) ==
  /\ ConnReachable /\ valid
  /\ h \notin preserved
  /\ preserved' = Kept(h)
  /\ busy' = h
  /\ handler' = [kind |-> "callback", data |-> h]
  /\ UNCHANGED <<lifeVars, outcome>>

\* set_busy_handler() of a number: sqlite3_busy_timeout(), which takes the
\* callback out of use.  The number itself is preserved; no matter.
SetBusyTimeout ==
  /\ ConnReachable /\ valid
  /\ preserved' = release
  /\ busy' = None
  /\ handler' = [kind |-> "timeout", data |-> None]
  /\ UNCHANGED <<lifeVars, outcome>>

\* copy_to() with this connection as the source: a backup that fails in its
\* step is not finished, and nothing ever will.  (As the destination it may be
\* locked by it, which is no concern of this module.)
CopyFails ==
  /\ ConnReachable /\ valid
  /\ unfinished' = TRUE
  /\ UNCHANGED <<sqlite, valid, owners, live, used, ref, held, busyVars>>

----------------------------------------------------------------------------
(* DbResult and dbSendQuery() *)

\* "Closing open result set, pending rows"
ClearNothing == [live |-> live, ref |-> ref]
ClearOpenResult == [live |-> live \ {ref}, ref |-> None]

\* dbSendQuery(): close the open result set, create the new one and bind its
\* parameters.  Without a valid connection, or if the statement is not good, no
\* result set is created; if it cannot be bound, on.exit() clears it again.
SendQuery(r) ==
  /\ ConnReachable
  /\ r \notin used
  /\ LET before == ClearOpenResult
     IN  \/ /\ valid
            /\ used' = used \cup {r}
            /\ live' = before.live \cup {r}
            /\ owners' = (owners \cap (before.live \cup {Ptr})) \cup {r}
            /\ ref' = r
            /\ held' = held \cup {r}
            /\ UNCHANGED sqlite
         \/ /\ live' = before.live
            /\ owners' = owners \cap (before.live \cup {Ptr})
            /\ ref' = None
            /\ sqlite' = AfterFinalize(sqlite, before.live)
            /\ UNCHANGED <<used, held>>
  /\ UNCHANGED <<valid, unfinished, busyVars>>

\* dbClearResult() of a result set that is held; of one already closed it only
\* warns.  conn@ref$result is reset whichever result set it points to.
ClearResult(r) ==
  /\ r \in held /\ r \in live
  /\ Disowned(r)
  /\ ref' = None
  /\ UNCHANGED <<used, unfinished, held, handler, outcome>>

\* dbFetch() or dbBind() on a live result set runs into a lock: SQLite asks
\* its busy handler.  busy_callback_helper() calls the R function at data.
Answer ==
  IF handler.kind = "none" THEN "fails at once"
  ELSE IF handler.kind = "timeout" THEN "waits"
  ELSE IF handler.data = None THEN "calls NULL"
  ELSE IF handler.data \notin preserved THEN "calls a freed function"
  ELSE "calls the function"

RunIntoLock(r) ==
  /\ r \in live /\ ResultReachable(r)
  /\ outcome' = Answer
  /\ UNCHANGED <<lifeVars, busy, handler, preserved>>

----------------------------------------------------------------------------
(* R *)

\* A variable goes out of scope.
Forget(x) ==
  /\ x \in held
  /\ held' = held \ {x}
  /\ UNCHANGED <<sqlite, valid, owners, live, used, unfinished, ref, busyVars>>

\* The collector runs the finalizers of unreachable external pointers.
FinalizeResult(r) ==
  /\ r \in live /\ ~ResultReachable(r)
  /\ Disowned(r)
  /\ UNCHANGED <<used, unfinished, ref, held, handler, outcome>>

FinalizeConnection ==
  /\ Ptr \in owners /\ ~ConnReachable
  /\ Disowned(Ptr)
  /\ UNCHANGED <<used, unfinished, ref, held, handler, outcome>>

Finalize == FinalizeConnection \/ \E r \in Results : FinalizeResult(r)

Next ==
  \/ Connect \/ Disconnect
  \/ \E h \in Callbacks \cup {None} : SetBusyHandler(h)
  \/ SetBusyTimeout \/ CopyFails
  \/ \E r \in Results : SendQuery(r) \/ ClearResult(r) \/ RunIntoLock(r)
  \/ \E x \in Results \cup {Ptr} : Forget(x)
  \/ Finalize

Spec == Init /\ [][Next]_vars

\* Finalizers run at the latest when the session ends (finalize_on_exit).
FairSpec == Spec /\ WF_vars(Finalize)

----------------------------------------------------------------------------
(* Properties *)

\* Every variable has its type.
TypeOK ==
  /\ sqlite \in {"none", "open", "zombie", "closed"}
  /\ valid \in BOOLEAN /\ unfinished \in BOOLEAN
  /\ live \subseteq Results /\ used \subseteq Results /\ live \subseteq used
  /\ owners \subseteq Results \cup {Ptr} /\ held \subseteq used \cup {Ptr}
  /\ ref \in Results \cup {None} /\ busy \in Callbacks \cup {None}
  /\ handler \in [kind : {"none", "timeout", "callback"}, data : Callbacks \cup {None}]
  /\ preserved \subseteq Callbacks

\* A connection has at most one open result set and conn@ref$result is it: as
\* long as R code can reach the connection, no result set is open that the next
\* dbSendQuery() would not close, and what it closes is open (its stopifnot()).
RefIsTheOpenResult ==
  ConnReachable => live = {ref} \ {None}

\* The statements of a database are finalized before its memory is freed, and a
\* database without a connection object exists only for its statements, or for
\* a backup that was not finished.
HandleOutlivesStatements ==
  /\ live # {} => sqlite \in {"open", "zombie"} /\ live \subseteq owners
  /\ sqlite = "zombie" => InUse(live)
  /\ valid <=> sqlite = "open"

\* While the connection is valid, the R function SQLite may call is preserved,
\* and no other is: replacing a handler neither frees the new nor keeps the old.
HandlerPreserved ==
  /\ preserved = {busy} \ {None}
  /\ valid /\ handler.kind = "callback" => handler.data = busy

\* What R code no longer reaches is given back: the database is closed and the
\* busy handler released.  A failed copy is the exception: the database it read
\* from stays open as a zombie for good.
GivenBack ==
  [](sqlite # "none" /\ ~ConnReachable =>
       <>(sqlite = (IF unfinished THEN "zombie" ELSE "closed") /\ preserved = {}))

\* sqliteSetBusyHandler(NULL): "fail immediately".
NullFailsImmediately == outcome # "calls NULL"

\* "The connection will be released when they are closed": until then, a result
\* set in use after dbDisconnect() has the busy handler it had before.
HandlerLivesAsLongAsConnection == outcome # "calls a freed function"
=============================================================================
