-------------------------- MODULE ConnectionProofs --------------------------
(***************************************************************************)
(* The lifetime of connections, result sets and busy handlers, for any     *)
(* number of results and callbacks: what conn@ref$result points to, when   *)
(* the database is closed, and which R function is preserved.              *)
(*                                                                         *)
(* The three properties are inductive once it is said who owns the         *)
(* DbConnection: exactly the results that are live, and the external       *)
(* pointer for as long as R code can reach it.                             *)
(***************************************************************************)
EXTENDS Connection, TLAPS

Ownership ==
  /\ owners \ {Ptr} = live
  /\ ConnReachable => Ptr \in owners
  /\ valid => owners # {}
  /\ sqlite = "none" => live = {} /\ ref = None /\ handler.kind = "none"

IInv ==
  /\ TypeOK
  /\ Ownership
  /\ RefIsTheOpenResult
  /\ HandleOutlivesStatements
  /\ HandlerPreserved

----------------------------------------------------------------------------
LEMMA InvInit == Init => IInv
<1> SUFFICES ASSUME Init PROVE IInv
  OBVIOUS
<1>1. TypeOK
  BY DEF Init, TypeOK, NoHandler
<1>2. Ownership /\ RefIsTheOpenResult
  BY DEF Init, Ownership, RefIsTheOpenResult, ConnReachable, NoHandler
<1>3. HandleOutlivesStatements
  BY DEF Init, HandleOutlivesStatements
<1>4. HandlerPreserved
  BY DEF Init, HandlerPreserved, NoHandler
<1> QED BY <1>1, <1>2, <1>3, <1>4 DEF IInv

\* An owner goes: a result of dbClearResult(), or whatever R no longer reaches.
LEMMA DisownedKeeps ==
  ASSUME IInv, NEW o \in owners, Disowned(o), ref' \in {ref, None},
         ConnReachable => o \in live /\ ref' = None,
         UNCHANGED <<used, unfinished, held, handler>>
  PROVE  IInv'
<1>0. TypeOK /\ Ownership /\ RefIsTheOpenResult /\ HandleOutlivesStatements /\ HandlerPreserved
  BY DEF IInv
<1> DEFINE left == owners \ {o}
           statements == live \ {o}
           destroyed == left = {} /\ valid
<1>1. /\ owners' = left /\ live' = statements
      /\ sqlite' = IF destroyed THEN close(statements)
                   ELSE IF o \in live THEN AfterFinalize(sqlite, statements) ELSE sqlite
      /\ valid' = (valid /\ ~destroyed)
      /\ preserved' = IF left = {} THEN release ELSE preserved
      /\ busy' = IF left = {} THEN None ELSE busy
  BY DEF Disowned
<1>2. valid' <=> valid /\ left # {}
  BY <1>1
<1>3. TypeOK'
  BY <1>0, <1>1 DEF TypeOK, close, AfterFinalize, release
<1>4. Ownership'
  <2>1. owners' \ {Ptr} = live'
    BY <1>0, <1>1 DEF Ownership
  <2>2. ConnReachable' => Ptr \in owners'
    BY <1>0, <1>1, ConstantsAssumption DEF Ownership, ConnReachable, TypeOK, Ptr
  <2>3. valid' => owners' # {}
    BY <1>1, <1>2
  <2>4. sqlite' = "none" => live' = {} /\ ref' = None /\ handler'.kind = "none"
    BY <1>0, <1>1 DEF Ownership, close, AfterFinalize
  <2> QED BY <2>1, <2>2, <2>3, <2>4 DEF Ownership
<1>5. RefIsTheOpenResult'
  <2> SUFFICES ASSUME ConnReachable' PROVE live' = {ref'} \ {None}
    BY DEF RefIsTheOpenResult
  <2>1. ConnReachable
    BY DEF ConnReachable
  <2>2. live = {ref} \ {None} /\ o \in live /\ ref' = None
    BY <1>0, <2>1 DEF RefIsTheOpenResult
  <2> QED BY <1>1, <2>2
<1>6. HandleOutlivesStatements'
  <2>1. live' # {} => left # {} /\ live # {}
    BY <1>0, <1>1 DEF HandleOutlivesStatements
  <2>2. InUse(statements)' <=> InUse(statements)
    BY <1>1 DEF InUse
  <2>3. CASE destroyed
    BY <1>0, <1>1, <1>2, <2>1, <2>3 DEF HandleOutlivesStatements, close, InUse
  <2>4. CASE ~destroyed /\ o \in live
    BY <1>0, <1>1, <1>2, <2>1, <2>4 DEF HandleOutlivesStatements, AfterFinalize, InUse
  <2>5. CASE ~destroyed /\ o \notin live
    BY <1>0, <1>1, <1>2, <2>1, <2>5 DEF HandleOutlivesStatements, InUse
  <2> QED BY <2>3, <2>4, <2>5
<1>7. HandlerPreserved'
  <2>1. preserved' = {busy'} \ {None}
    BY <1>0, <1>1 DEF HandlerPreserved, release
  <2>2. valid' /\ handler'.kind = "callback" => handler'.data = busy'
    BY <1>0, <1>1, <1>2 DEF HandlerPreserved
  <2> QED BY <2>1, <2>2 DEF HandlerPreserved
<1> QED BY <1>3, <1>4, <1>5, <1>6, <1>7 DEF IInv

----------------------------------------------------------------------------
LEMMA ConnectKeeps == IInv /\ Connect => IInv'
<1> SUFFICES ASSUME IInv, Connect PROVE IInv'
  OBVIOUS
<1>0. TypeOK /\ Ownership /\ HandlerPreserved /\ HandleOutlivesStatements
  BY DEF IInv
<1>1. /\ sqlite = "none" /\ sqlite' = "open" /\ valid' = TRUE
      /\ owners' = {Ptr} /\ held' = {Ptr} /\ UNCHANGED <<live, used, unfinished, ref>>
      /\ UNCHANGED <<busy, handler, preserved, outcome>>
  BY DEF Connect, busyVars
<1>2. live = {} /\ ref = None /\ handler.kind = "none"
  BY <1>0, <1>1 DEF Ownership
<1>3. TypeOK'
  BY <1>0, <1>1 DEF TypeOK
<1>4. Ownership' /\ RefIsTheOpenResult'
  BY <1>1, <1>2 DEF Ownership, RefIsTheOpenResult
<1>5. HandleOutlivesStatements'
  BY <1>1, <1>2 DEF HandleOutlivesStatements
<1>6. HandlerPreserved'
  BY <1>0, <1>1, <1>2 DEF HandlerPreserved
<1> QED BY <1>3, <1>4, <1>5, <1>6 DEF IInv

LEMMA DisconnectKeeps == IInv /\ Disconnect => IInv'
<1> SUFFICES ASSUME IInv, Disconnect PROVE IInv'
  OBVIOUS
<1>0. TypeOK /\ Ownership /\ RefIsTheOpenResult /\ HandleOutlivesStatements /\ HandlerPreserved
  BY DEF IInv
<1>1. /\ sqlite' = close(live) /\ valid' = FALSE /\ preserved' = release /\ busy' = None
      /\ UNCHANGED <<owners, live, used, unfinished, ref, held, handler, outcome>>
  BY DEF Disconnect, disconnect
<1>2. TypeOK'
  BY <1>0, <1>1 DEF TypeOK, close, release
<1>3. Ownership' /\ RefIsTheOpenResult'
  BY <1>0, <1>1 DEF Ownership, RefIsTheOpenResult, ConnReachable, close
<1>4. HandleOutlivesStatements'
  BY <1>0, <1>1 DEF HandleOutlivesStatements, close, InUse
<1>5. HandlerPreserved'
  BY <1>0, <1>1 DEF HandlerPreserved, release
<1> QED BY <1>2, <1>3, <1>4, <1>5 DEF IInv

\* A busy handler or a timeout takes the place of what was installed.
LEMMA HandlerKeeps ==
  ASSUME IInv, valid, NEW h \in Callbacks \cup {None},
         preserved' = release \cup ({h} \ {None}), busy' = h,
         \/ handler' = [kind |-> "callback", data |-> h]
         \/ handler' = [kind |-> "timeout", data |-> None],
         UNCHANGED lifeVars
  PROVE  IInv'
<1>0. TypeOK /\ Ownership /\ RefIsTheOpenResult /\ HandleOutlivesStatements /\ HandlerPreserved
  BY DEF IInv
<1>1. UNCHANGED <<sqlite, valid, owners, live, used, unfinished, ref, held>>
  BY DEF lifeVars
<1>2. release = {}
  BY <1>0 DEF HandlerPreserved, release
<1>3. TypeOK'
  BY <1>0, <1>1, <1>2 DEF TypeOK
<1>4. Ownership' /\ RefIsTheOpenResult' /\ HandleOutlivesStatements'
  BY <1>0, <1>1 DEF Ownership, RefIsTheOpenResult, HandleOutlivesStatements, ConnReachable, InUse
<1>5. HandlerPreserved'
  BY <1>2 DEF HandlerPreserved
<1> QED BY <1>3, <1>4, <1>5 DEF IInv

LEMMA CopyFailsKeeps == IInv /\ CopyFails => IInv'
<1> SUFFICES ASSUME IInv, CopyFails PROVE IInv'
  OBVIOUS
<1>0. TypeOK /\ Ownership /\ RefIsTheOpenResult /\ HandleOutlivesStatements /\ HandlerPreserved
  BY DEF IInv
<1>1. /\ unfinished' = TRUE
      /\ UNCHANGED <<sqlite, valid, owners, live, used, ref, held>>
      /\ UNCHANGED <<busy, handler, preserved, outcome>>
  BY DEF CopyFails, busyVars
<1>2. TypeOK'
  BY <1>0, <1>1 DEF TypeOK
<1>3. Ownership' /\ RefIsTheOpenResult' /\ HandlerPreserved'
  BY <1>0, <1>1 DEF Ownership, RefIsTheOpenResult, ConnReachable, HandlerPreserved
<1>4. HandleOutlivesStatements'
  BY <1>0, <1>1 DEF HandleOutlivesStatements, InUse
<1> QED BY <1>2, <1>3, <1>4 DEF IInv

\* What R code can reach has one open result at most, so closing it leaves none.
LEMMA SendQueryKeeps ==
  ASSUME IInv, NEW r \in Results, SendQuery(r)
  PROVE  IInv'
<1>0. TypeOK /\ Ownership /\ RefIsTheOpenResult /\ HandleOutlivesStatements /\ HandlerPreserved
  BY DEF IInv
<1>1. /\ ConnReachable /\ r \notin used
      /\ UNCHANGED <<valid, unfinished>> /\ UNCHANGED <<busy, handler, preserved, outcome>>
  BY DEF SendQuery, busyVars
<1>2. ClearOpenResult.live = {} /\ Ptr \in owners
  BY <1>0, <1>1 DEF ClearOpenResult, RefIsTheOpenResult, Ownership
<1>3. HandlerPreserved'
  BY <1>0, <1>1 DEF HandlerPreserved
<1>4. CASE /\ valid
           /\ used' = used \cup {r} /\ live' = {r} /\ owners' = {Ptr, r}
           /\ ref' = r /\ held' = held \cup {r} /\ UNCHANGED sqlite
  <2>1. TypeOK'
    BY <1>0, <1>1, <1>4 DEF TypeOK
  <2>2. sqlite' = "open" /\ r # None /\ r # Ptr
    BY <1>0, <1>4, ConstantsAssumption DEF HandleOutlivesStatements, Ptr
  <2>3. Ownership' /\ RefIsTheOpenResult'
    BY <1>4, <2>2 DEF Ownership, RefIsTheOpenResult
  <2>4. HandleOutlivesStatements'
    BY <1>0, <1>1, <1>4, <2>2 DEF HandleOutlivesStatements
  <2> QED BY <1>3, <2>1, <2>3, <2>4 DEF IInv
<1>5. CASE /\ live' = {} /\ owners' = {Ptr} /\ ref' = None
           /\ sqlite' = AfterFinalize(sqlite, {}) /\ UNCHANGED <<used, held>>
  <2>1. TypeOK'
    BY <1>0, <1>1, <1>5 DEF TypeOK, AfterFinalize
  <2>2. Ownership' /\ RefIsTheOpenResult'
    <3>1. sqlite' = "none" => handler'.kind = "none"
      BY <1>0, <1>1, <1>5 DEF Ownership, AfterFinalize
    <3>2. valid' => owners' # {}
      BY <1>5
    <3> QED BY <1>5, <3>1, <3>2 DEF Ownership, RefIsTheOpenResult
  <2>3. HandleOutlivesStatements'
    BY <1>0, <1>1, <1>5 DEF HandleOutlivesStatements, AfterFinalize, InUse
  <2> QED BY <1>3, <2>1, <2>2, <2>3 DEF IInv
<1> QED BY <1>2, <1>4, <1>5 DEF SendQuery

----------------------------------------------------------------------------
LEMMA InvStep == IInv /\ [Next]_vars => IInv'
<1> SUFFICES ASSUME IInv, [Next]_vars PROVE IInv'
  OBVIOUS
<1>0. TypeOK /\ Ownership /\ RefIsTheOpenResult /\ HandleOutlivesStatements /\ HandlerPreserved
  BY DEF IInv
<1>1. CASE Connect
  BY <1>1, ConnectKeeps
<1>2. CASE Disconnect
  BY <1>2, DisconnectKeeps
<1>3. ASSUME NEW h \in Callbacks \cup {None}, SetBusyHandler(h) PROVE IInv'
  BY <1>3, HandlerKeeps DEF SetBusyHandler, Kept
<1>4. CASE SetBusyTimeout
  <2>1. preserved' = release \cup ({None} \ {None}) /\ busy' = None
    BY <1>4 DEF SetBusyTimeout
  <2> QED BY <1>4, <2>1, HandlerKeeps DEF SetBusyTimeout
<1>5. CASE CopyFails
  BY <1>5, CopyFailsKeeps
<1>6. ASSUME NEW r \in Results, SendQuery(r) PROVE IInv'
  BY <1>6, SendQueryKeeps
<1>7. ASSUME NEW r \in Results, ClearResult(r) PROVE IInv'
  <2>1. r \in owners
    BY <1>0, <1>7 DEF ClearResult, Ownership
  <2> QED BY <1>7, <2>1, DisownedKeeps DEF ClearResult
<1>8. ASSUME NEW r \in Results, RunIntoLock(r) PROVE IInv'
  <2>1. /\ UNCHANGED <<sqlite, valid, owners, live, used, unfinished, ref, held>>
        /\ UNCHANGED <<busy, handler, preserved>>
    BY <1>8 DEF RunIntoLock, lifeVars
  <2> QED BY <1>0, <2>1 DEF IInv, TypeOK, Ownership, RefIsTheOpenResult,
          HandleOutlivesStatements, HandlerPreserved, ConnReachable, InUse
<1>9. ASSUME NEW x \in Results \cup {Ptr}, Forget(x) PROVE IInv'
  <2>1. /\ held' = held \ {x} /\ UNCHANGED <<sqlite, valid, owners, live, used, unfinished, ref>>
        /\ UNCHANGED <<busy, handler, preserved, outcome>>
    BY <1>9 DEF Forget, busyVars
  <2>2. TypeOK'
    BY <1>0, <2>1 DEF TypeOK
  <2>3. Ownership' /\ RefIsTheOpenResult'
    BY <1>0, <2>1 DEF Ownership, RefIsTheOpenResult, ConnReachable
  <2>4. HandleOutlivesStatements' /\ HandlerPreserved'
    BY <1>0, <2>1 DEF HandleOutlivesStatements, HandlerPreserved, InUse
  <2> QED BY <2>2, <2>3, <2>4 DEF IInv
<1>10. CASE FinalizeConnection
  BY <1>10, DisownedKeeps DEF FinalizeConnection
<1>11. ASSUME NEW r \in Results, FinalizeResult(r) PROVE IInv'
  <2>1. r \in owners /\ ~ConnReachable
    BY <1>0, <1>11 DEF FinalizeResult, Ownership, RefIsTheOpenResult, ResultReachable
  <2> QED BY <1>11, <2>1, DisownedKeeps DEF FinalizeResult
<1>12. CASE UNCHANGED vars
  BY <1>0, <1>12 DEF vars, IInv, TypeOK, Ownership, RefIsTheOpenResult,
     HandleOutlivesStatements, HandlerPreserved, ConnReachable, InUse
<1> QED BY <1>1, <1>2, <1>3, <1>4, <1>5, <1>6, <1>7, <1>8, <1>9, <1>10, <1>11, <1>12
        DEF Next, Finalize

LEMMA Inductive == Spec => []IInv
  BY InvInit, InvStep, PTL DEF Spec

\* Every variable of a connection has its type.
THEOREM TypeCorrect == Spec => []TypeOK
  BY Inductive, PTL DEF IInv

\* dbSendQuery() always finds the open result of the connection in
\* conn@ref$result, whatever was cleared, forgotten or collected before.
THEOREM RefFindsTheResult == Spec => []RefIsTheOpenResult
  BY Inductive, PTL DEF IInv

\* The statements go before the memory of their database, in every order of
\* dbDisconnect(), dbClearResult(), failed copies and finalizers.
THEOREM StatementsGoFirst == Spec => []HandleOutlivesStatements
  BY Inductive, PTL DEF IInv

\* The R function SQLite calls while the connection is valid is preserved.
THEOREM HandlerIsPreserved == Spec => []HandlerPreserved
  BY Inductive, PTL DEF IInv
=============================================================================
