----------------------------- MODULE ResultSet -----------------------------
(***************************************************************************)
(* One result set of RSQLite: class SqliteResultImpl                       *)
(* (src/src/SqliteResultImpl.cpp) behind DbResult and the R methods        *)
(* dbSendQuery, dbBind, dbFetch, dbHasCompleted, dbGetRowCount,            *)
(* dbGetRowsAffected and dbClearResult.                                    *)
(*                                                                         *)
(* A result set owns one prepared statement.  Binding supplies a sequence  *)
(* of parameter groups; the statement is executed once per group, in       *)
(* order, and always one row AHEAD of the caller: binding already runs     *)
(* sqlite3_step until the first row, and fetch_rows copies the current row *)
(* and then steps to the next one.  A call is therefore several steps of   *)
(* this module (pc), and each sqlite3_step in it may fail and unwind the   *)
(* call with a C++ exception, leaving the members as they are then.        *)
(*                                                                         *)
(* What a row contains is the business of module Column; here a row is     *)
(* its position: the parameter group and its number in that execution.     *)
(***************************************************************************)
EXTENDS Integers, Sequences, SequencesExt

CONSTANTS
  Input,            \* the parameter groups a caller can bind
  BadInput,         \* those with a value bind_parameter_pos refuses
  NoInput,          \* the empty binding of a statement without placeholders
  Partial,          \* the binding a refused group leaves behind
  RowsOf,           \* rows one execution returns, by binding
  ChangesOf,        \* rows one execution changes, by binding
  FetchSizes,       \* the values of n a caller passes to dbFetch, -1 for all
  InterruptPeriod,  \* advance() looks for a user interrupt every 1024 rows
  MaxGroups,        \* bound: parameter groups in one bind
  MaxBinds,         \* bound: calls of dbBind
  MaxFaults,        \* bound: failing sqlite3_step calls and user interrupts
  MaxTaken          \* bound: rows copied out after one bind

Binding == Input \cup {NoInput, Partial}

ASSUME ConstantsAssumption ==
  /\ BadInput \subseteq Input
  /\ NoInput \notin Input
  /\ Partial \notin Input
  /\ NoInput # Partial
  /\ RowsOf \in [Binding -> Nat]
  /\ ChangesOf \in [Binding -> Nat]
  /\ FetchSizes \subseteq {-1} \cup (Nat \ {0})
  /\ InterruptPeriod \in Nat \ {0}
  /\ MaxGroups \in Nat \ {0}
  /\ MaxBinds \in Nat
  /\ MaxFaults \in Nat
  /\ MaxTaken \in Nat

VARIABLES
  handle,           \* the R object: "none", "open", "released"
  has_params,       \* cache.nparams_ > 0
  ready,            \* ready_
  complete,         \* complete_
  nrows,            \* nrows_
  group,            \* group_
  params,           \* params_, one element per group; groups_ is its length
  start,            \* total_changes_start_
  bound,            \* the values bound to the statement
  cur,              \* the row it stands on in its execution, 0 if none
  total,            \* sqlite3_total_changes(conn)
  pc,               \* where the running call is, "idle" if there is none
  caller,           \* the call that runs: "create", "bind", "fetch"
  n_max, i,         \* the data frame a fetch fills (DbDataFrame)
  ret,              \* the rows the last dbFetch returned
  taken,            \* history: rows copied out since the last bind
  delivered,        \* history: how many of them reached the caller
  execs,            \* history: completed executions of each group (2: more)
  carry,            \* history: changes of an execution this bind cut short
  tainted,          \* history: a step or a binding failed since the last bind
  lost,             \* history: a fetch was interrupted since the last bind
  binds, faults     \* used so far of MaxBinds and MaxFaults

objVars   == <<has_params, ready, complete, nrows, group, params, start>>
sqlVars   == <<bound, cur, total>>
callVars  == <<pc, caller, n_max, i>>
histVars  == <<taken, delivered, execs, carry, tainted, lost>>
boundVars == <<binds, faults>>
vars == <<handle, objVars, sqlVars, callVars, ret, histVars, boundVars>>

Groups == 1..MaxGroups

\* The executions this result set stands for, in order.
Plan == IF has_params THEN params ELSE <<NoInput>>

NoExecs == [g \in Groups |-> 0]

Init ==
  /\ handle = "none"
  /\ has_params = FALSE /\ ready = FALSE /\ complete = FALSE /\ nrows = 0
  /\ group = 0 /\ params = <<>> /\ start = 0
  /\ bound = NoInput /\ cur = 0 /\ total = 0
  /\ pc = "idle" /\ caller = "create" /\ n_max = 0 /\ i = 0
  /\ ret = <<>>
  /\ taken = <<>> /\ delivered = 0 /\ execs = NoExecs /\ carry = 0
  /\ tainted = FALSE /\ lost = FALSE
  /\ binds = 0 /\ faults = 0

----------------------------------------------------------------------------
(* Binding *)

\* SQLite counts the changes of an execution when it halts: on SQLITE_DONE,
\* or when sqlite3_reset or sqlite3_finalize ends one that stands on a row.
PendingChanges == IF cur > 0 THEN ChangesOf[bound] ELSE 0

\* bind_row(): is there a group number g (from 0), and which values has it?
MoreGroupsShort(g) == g + 1 < Len(params)
MoreGroups(g) == g < Len(params)
GroupInputFirst(ps, g) == ps[1]
GroupInput(ps, g) == ps[g + 1]

\* The point from which n_rows_affected() counts.
MarkChangesOnce == start' = start
MarkChanges == start' = total

\* init(true): members set before the first step.
initKeepingCount ==
  /\ ready' = TRUE
  /\ nrows' = nrows
  /\ complete' = FALSE
init ==
  /\ ready' = TRUE
  /\ nrows' = 0
  /\ complete' = FALSE

\* SqliteResultImpl(): prepare; a statement without placeholders is run up to
\* its first row by the constructor.
Create ==
  /\ handle = "none" /\ pc = "idle"
  /\ handle' = "open"
  /\ has_params' \in BOOLEAN
  /\ MarkChanges
  /\ group' = 0
  /\ params' = <<>>
  /\ bound' = NoInput /\ cur' = 0
  /\ caller' = "create"
  /\ IF has_params'
     THEN /\ ready' = FALSE /\ nrows' = 0 /\ complete' = FALSE
          /\ pc' = "idle"
     ELSE /\ init
          /\ pc' = "step"
  /\ ret' = <<>>
  /\ taken' = <<>> /\ delivered' = 0 /\ execs' = NoExecs /\ carry' = 0
  /\ tainted' = FALSE /\ lost' = FALSE
  /\ UNCHANGED <<total, n_max, i, boundVars>>

\* bind(params) of a statement with placeholders.  total_changes_start_ is read
\* before bind_row() resets the statement; zero groups do not reset it at all;
\* a refused value leaves ready_, complete_ and nrows_ as they were.
Bind(ps) ==
  /\ handle = "open" /\ pc = "idle" /\ has_params
  /\ binds < MaxBinds
  /\ binds' = binds + 1
  /\ params' = ps
  /\ group' = 0
  /\ MarkChanges
  /\ ret' = <<>> /\ taken' = <<>> /\ delivered' = 0 /\ execs' = NoExecs
  /\ lost' = FALSE
  /\ caller' = "bind"
  /\ \/ /\ ps = <<>>
        /\ ready' = TRUE /\ nrows' = 0 /\ complete' = TRUE
        /\ pc' = "idle"
        /\ carry' = 0 /\ tainted' = FALSE
        /\ UNCHANGED sqlVars
     \/ /\ ps # <<>>
        /\ total' = total + PendingChanges
        /\ carry' = PendingChanges
        /\ \/ /\ GroupInput(ps, 0) \in BadInput
              /\ bound' = Partial /\ cur' = 0
              /\ pc' = "idle"
              /\ tainted' = TRUE
              /\ UNCHANGED <<ready, nrows, complete>>
           \/ /\ GroupInput(ps, 0) \notin BadInput
              /\ bound' = GroupInput(ps, 0) /\ cur' = 0
              /\ init
              /\ pc' = "step"
              /\ tainted' = FALSE
  /\ UNCHANGED <<handle, has_params, n_max, i, faults>>

----------------------------------------------------------------------------
(* step(): while (step_run()); *)

\* Where step() returns to.
AfterStep == IF caller = "fetch" THEN "advance" ELSE "idle"

\* step_run() with SQLITE_ROW.
StepRowTooFar ==
  /\ pc = "step"
  /\ cur <= RowsOf[bound]
  /\ cur' = cur + 1
  /\ pc' = AfterStep
  /\ UNCHANGED <<handle, objVars, bound, total, caller, n_max, i, ret, histVars, boundVars>>
StepRow ==
  /\ pc = "step"
  /\ cur < RowsOf[bound]
  /\ cur' = cur + 1
  /\ pc' = AfterStep
  /\ UNCHANGED <<handle, objVars, bound, total, caller, n_max, i, ret, histVars, boundVars>>

\* ++group_ of step_done().
NextGroupStuck == group
NextGroup == group + 1

\* step_run() with SQLITE_DONE: step_done() binds the next group, if any.
StepDone ==
  /\ pc = "step"
  /\ cur = RowsOf[bound]
  /\ total' = total + ChangesOf[bound]
  /\ group' = NextGroup
  /\ execs' = [execs EXCEPT ![group + 1] = IF @ = 0 THEN 1 ELSE 2]
  /\ \/ /\ ~MoreGroups(NextGroup)
        /\ complete' = TRUE
        /\ cur' = 0
        /\ pc' = AfterStep
        /\ UNCHANGED <<bound, tainted>>
     \/ /\ MoreGroups(NextGroup)
        /\ GroupInput(params, NextGroup) \in BadInput
        /\ bound' = Partial /\ cur' = 0
        /\ pc' = "idle"
        /\ tainted' = TRUE
        /\ UNCHANGED complete
     \/ /\ MoreGroups(NextGroup)
        /\ GroupInput(params, NextGroup) \notin BadInput
        /\ bound' = GroupInput(params, NextGroup) /\ cur' = 0
        /\ UNCHANGED <<complete, tainted, pc>>
  /\ UNCHANGED <<handle, has_params, ready, nrows, params, start, caller, n_max, i, ret,
                 taken, delivered, carry, lost, boundVars>>

\* step_run() with any other code: the statement is rolled back and halted and
\* the exception leaves the call.  The constructor finalizes the statement.
StepError ==
  /\ pc = "step"
  /\ faults < MaxFaults
  /\ faults' = faults + 1
  /\ cur' = 0
  /\ pc' = "idle"
  /\ tainted' = TRUE
  /\ handle' = IF caller = "create" THEN "none" ELSE handle
  /\ UNCHANGED <<objVars, bound, total, caller, n_max, i, ret,
                 taken, delivered, execs, carry, lost, binds>>

----------------------------------------------------------------------------
(* fetch(n), n # 0 *)

\* fetch(): refused unless ready_; fetch_rows starts a data frame.
FetchBegin(n) ==
  /\ handle = "open" /\ pc = "idle"
  /\ ready
  /\ n_max' = n
  /\ i' = 0
  /\ caller' = "fetch"
  /\ pc' = "copy"
  /\ UNCHANGED <<handle, objVars, sqlVars, ret, histVars, boundVars>>

\* The loop condition of fetch_rows().
RowWaitingAlways == TRUE
RowWaiting == ~complete

\* data.set_col_values(): the current row, whatever the statement stands on.
\* sqlite3_column_*() of a statement without a row gives NULLs: row number 0.
FetchCopy ==
  /\ pc = "copy" /\ RowWaiting
  /\ Len(taken) < MaxTaken
  /\ taken' = Append(taken, <<group + 1, cur>>)
  /\ pc' = "step"
  /\ UNCHANGED <<handle, objVars, sqlVars, caller, n_max, i, ret,
                 delivered, execs, carry, tainted, lost, boundVars>>

\* The rows of the data frame in hand, with j rows in it.
FrameShort(j) == SubSeq(taken, Len(taken) - j + 1, Len(taken) - 1)
Frame(j) == SubSeq(taken, Len(taken) - j + 1, Len(taken))

\* advance() returns false: the frame has all the rows it was asked for.
FullTooLate(j) == n_max >= 0 /\ j > n_max
Full(j) == n_max >= 0 /\ j >= n_max

\* nrows_++; advance(): go on, or leave the loop with the frame.
FetchAdvance ==
  /\ pc = "advance"
  /\ nrows' = nrows + 1
  /\ i' = i + 1
  /\ \/ /\ ~Full(i + 1)
        /\ pc' = "copy"
        /\ UNCHANGED <<ret, delivered>>
     \/ /\ Full(i + 1)
        /\ pc' = "idle"
        /\ ret' = Frame(i + 1)
        /\ delivered' = delivered + i + 1
  /\ UNCHANGED <<handle, has_params, ready, complete, group, params, start, sqlVars, caller,
                 n_max, taken, execs, carry, tainted, lost, boundVars>>

\* advance() when the user interrupts: the exception drops the data frame.
FetchInterrupt ==
  /\ pc = "advance"
  /\ (i + 1) % InterruptPeriod = 0
  /\ faults < MaxFaults
  /\ faults' = faults + 1
  /\ nrows' = nrows + 1
  /\ i' = i + 1
  /\ pc' = "idle"
  /\ lost' = TRUE
  /\ UNCHANGED <<handle, has_params, ready, complete, group, params, start, sqlVars, caller,
                 n_max, ret, taken, delivered, execs, carry, tainted, binds>>

\* while (!complete_) ends: the frame is returned.
FetchEnd ==
  /\ pc = "copy" /\ complete
  /\ pc' = "idle"
  /\ ret' = Frame(i)
  /\ delivered' = delivered + i
  /\ UNCHANGED <<handle, objVars, sqlVars, caller, n_max, i,
                 taken, execs, carry, tainted, lost, boundVars>>

\* dbClearResult() or the finalizer of the external pointer: the destructor
\* finalizes the statement.
Clear ==
  /\ handle = "open" /\ pc = "idle"
  /\ handle' = "released"
  /\ total' = total + PendingChanges
  /\ cur' = 0
  /\ UNCHANGED <<objVars, bound, callVars, ret, histVars, boundVars>>

----------------------------------------------------------------------------
\* The sequences of groups a caller can bind.
ParamSeqs == UNION {[1..m -> Input] : m \in 0..MaxGroups}

Internal ==
  \/ StepRow \/ StepDone \/ StepError
  \/ FetchCopy \/ FetchAdvance \/ FetchInterrupt \/ FetchEnd

Next ==
  \/ Create
  \/ \E ps \in ParamSeqs : Bind(ps)
  \/ \E n \in FetchSizes : FetchBegin(n)
  \/ Internal
  \/ Clear

Spec == Init /\ [][Next]_vars

\* R is single threaded and a .Call runs to its end: a call that has begun is
\* never left standing.
FairSpec == Spec /\ WF_vars(Internal)

----------------------------------------------------------------------------
(* Properties *)

ObjectTypes ==
  /\ handle \in {"none", "open", "released"}
  /\ has_params \in BOOLEAN /\ ready \in BOOLEAN /\ complete \in BOOLEAN
  /\ nrows \in Nat /\ group \in Nat
  /\ params \in Seq(Input) /\ Len(params) <= MaxGroups
  /\ start \in Nat

StatementTypes ==
  /\ bound \in Binding /\ cur \in Nat /\ cur <= RowsOf[bound]
  /\ total \in Nat

CallTypes ==
  /\ pc \in {"idle", "step", "copy", "advance"}
  /\ caller \in {"create", "bind", "fetch"}
  /\ n_max \in FetchSizes \cup {0} /\ i \in Nat
  /\ ret \in Seq(Nat \X Nat)

HistoryTypes ==
  /\ taken \in Seq(Nat \X Nat) /\ delivered \in Nat
  /\ execs \in [Groups -> 0..2] /\ carry \in Nat
  /\ tainted \in BOOLEAN /\ lost \in BOOLEAN
  /\ binds \in Nat /\ faults \in Nat

\* Every variable has its type; a statement never stands on a row its execution
\* does not have.
TypeOK == ObjectTypes /\ StatementTypes /\ CallTypes /\ HistoryTypes

\* A position in a plan is a group and a row number in it; Origin is before all.
Origin == <<1, 0>>
RowsIn(plan, g) == IF g \in DOMAIN plan THEN RowsOf[plan[g]] ELSE 0
NoRowsIn(plan, lo, hi) == \A g \in lo..hi : RowsIn(plan, g) = 0
LastTaken == IF taken = <<>> THEN Origin ELSE taken[Len(taken)]
Here == <<group + 1, cur>>

\* Row q of the plan is the one that comes right after position p.
Follows(plan, p, q) ==
  \/ q[1] = p[1] /\ q[2] = p[2] + 1 /\ q[2] <= RowsIn(plan, q[1])
  \/ /\ q[1] > p[1] /\ p[2] = RowsIn(plan, p[1])
     /\ NoRowsIn(plan, p[1] + 1, q[1] - 1)
     /\ q[2] = 1 /\ 1 <= RowsIn(plan, q[1])

\* No row of the plan comes after position p.
Exhausted(plan, p) ==
  p[2] = RowsIn(plan, p[1]) /\ NoRowsIn(plan, p[1] + 1, Len(plan))

\* A bound result set nothing has gone wrong with.
Sound == handle = "open" /\ ready /\ ~tainted

\* The rows copied out since the last bind are the rows of the executions of
\* its groups, in order, none skipped and none repeated, however the caller
\* splits them over dbFetch calls.
RowsInOrder ==
  Sound => \A j \in 1..Len(taken) :
             Follows(Plan, IF j = 1 THEN Origin ELSE taken[j - 1], taken[j])

\* Between the steps of a fetch the statement stands on the row that comes
\* next, and dbHasCompleted() is TRUE exactly when no row is left.
CompleteMeansExhausted ==
  Sound /\ pc \in {"idle", "copy"} =>
    IF complete THEN Exhausted(Plan, LastTaken) ELSE Follows(Plan, LastTaken, Here)

\* Each parameter group runs to its end once and only once: no group before
\* group_ is skipped, none is run again, and completion means all were run.
ExactlyOnce ==
  Sound => /\ \A g \in 1..Len(Plan) : execs[g] = IF g <= group THEN 1 ELSE 0
           /\ complete => group = Len(Plan)

\* dbGetRowCount() is the number of rows copied out since the last bind, and
\* they all reached the caller unless a fetch was interrupted.
RowsCounted ==
  Sound /\ pc = "idle" =>
    /\ nrows = Len(taken)
    /\ ~lost => delivered = nrows

\* A dbFetch(n) that returned normally returned at most n rows, and fewer only
\* if the result set is complete (the usual loop over chunks relies on it).
ShortFetchMeansComplete ==
  Sound /\ pc = "idle" /\ caller = "fetch" /\ ~lost =>
    IF n_max < 0 THEN complete
    ELSE Len(ret) <= n_max /\ (Len(ret) < n_max => complete)

\* The changes of the first g executions of a plan.
ChangesUpTo(plan, g) ==
  LET upTo[k \in 0..Len(plan)] ==
        IF k = 0 THEN 0 ELSE upTo[k - 1] + ChangesOf[plan[k]]
  IN  upTo[g]

\* dbGetRowsAffected() counts the changes of the executions of this bind, and
\* those of an earlier execution that the bind's sqlite3_reset() cut short
\* (carry), because total_changes_start_ is read before the reset.
RowsAffected ==
  Sound /\ pc = "idle" => total - start = carry + ChangesUpTo(Plan, group)

\* Once complete, a result set touches its statement no more until it is bound
\* again: sqlite3_step() after SQLITE_DONE would run the statement again.
QuietOnceComplete ==
  [][Sound /\ complete /\ handle' = "open" /\ binds' = binds
       => complete' /\ execs' = execs /\ cur' = cur /\ total' = total]_vars

\* "Query needs to be bound before fetching": fetch() copies a row only if the
\* statement stands on one.
NoPhantomRow == pc = "copy" /\ ~complete => cur > 0

\* Every call comes to an end.
CallReturns == pc # "idle" ~> pc = "idle"

----------------------------------------------------------------------------
(* What a result set is to its caller *)

\* All rows of a sequence of executions, in order.
AllRows(plan) ==
  FlattenSeq([g \in DOMAIN plan |-> [k \in 1..RowsOf[plan[g]] |-> <<g, k>>]])

CursorMode ==
  IF handle # "open" \/ (caller = "create" /\ pc = "step") THEN "closed"
  ELSE IF tainted \/ lost THEN "broken"
  ELSE IF ready THEN "bound" ELSE "unbound"

IsBound == CursorMode = "bound"

C == INSTANCE Cursor WITH
       Answers <- {AllRows(ps) : ps \in ParamSeqs \cup {<<NoInput>>}},
       mode <- CursorMode,
       todo <- IF IsBound THEN SubSeq(AllRows(Plan), delivered + 1, Len(AllRows(Plan)))
                          ELSE <<>>,
       got <- IF IsBound THEN ret ELSE <<>>

\* Seen from its caller, a result set is a queue of rows: dbFetch(n) hands over
\* exactly the next n rows, and what is left stays for the next call.
RefinesCursor == C!Spec
=============================================================================
