-------------------------- MODULE ResultSetProofs --------------------------
(***************************************************************************)
(* Proofs about ResultSet for every statement, every set of parameter      *)
(* groups and every schedule of failures: TypeOK, the order of the rows,   *)
(* what completion means, the executions of the groups, the counters, and  *)
(* that a result set implements the queue of rows of module Cursor.        *)
(***************************************************************************)
EXTENDS ResultSet, SequenceLemmas

\* Position c is where execution stands when p is the last row copied out:
\* on p itself, or before the first row of a later group with nothing between.
At(plan, p, c) ==
  \/ c = p
  \/ /\ c[1] > p[1] /\ p[2] = RowsIn(plan, p[1])
     /\ NoRowsIn(plan, p[1] + 1, c[1] - 1)
     /\ c[2] = 0

InFetch == caller = "fetch" /\ pc \in {"step", "advance"}

\* How the parts of a running call hang together.
CallInv ==
  /\ pc # "idle" => handle = "open" /\ ready
  /\ pc = "step" => ~complete
  /\ pc \in {"copy", "advance"} => caller = "fetch"
  /\ pc = "copy" => i <= Len(taken)
  /\ InFetch => i < Len(taken)
  /\ pc = "copy" \/ InFetch => n_max \in FetchSizes /\ (n_max >= 0 => i < n_max)
  /\ ~has_params => params = <<>>

\* The statement runs the group group_ points at.
GroupInv ==
  Sound =>
    /\ group <= Len(Plan)
    /\ complete => group = Len(Plan)
    /\ ~complete => group < Len(Plan) /\ bound = Plan[group + 1]
    /\ \A g \in 1..Len(Plan) : execs[g] = IF g <= group THEN 1 ELSE 0

\* Execution is never a row ahead of, or behind, what has been copied out.
PositionInv ==
  Sound =>
    IF pc = "step" THEN At(Plan, LastTaken, Here)
    ELSE IF complete THEN Exhausted(Plan, LastTaken)
    ELSE Follows(Plan, LastTaken, Here)

\* nrows_, the frame in hand and the rows delivered add up.
CountInv ==
  Sound =>
    /\ nrows = IF InFetch THEN Len(taken) - 1 ELSE Len(taken)
    /\ ~lost => nrows = delivered + IF pc = "copy" \/ InFetch THEN i ELSE 0
    /\ caller # "fetch" => taken = <<>>

IInv ==
  /\ TypeOK /\ CallInv /\ GroupInv /\ PositionInv /\ CountInv
  /\ RowsInOrder /\ ShortFetchMeansComplete

----------------------------------------------------------------------------
(* Lemmas about positions *)

\* From a position with rows left in its group, the next row follows.
LEMMA AtRow ==
  ASSUME NEW plan, NEW p, NEW g \in Nat, NEW k \in Nat,
         At(plan, p, <<g, k>>), k + 1 <= RowsIn(plan, g)
  PROVE  Follows(plan, p, <<g, k + 1>>)
  BY DEF At, Follows

\* At the end of a group, execution moves on to the next one.
LEMMA AtDone ==
  ASSUME NEW plan, NEW p, NEW g \in Nat, NEW k \in Nat, p[1] \in Nat,
         At(plan, p, <<g, k>>), k = RowsIn(plan, g)
  PROVE  At(plan, p, <<g + 1, 0>>)
<1>1. CASE p = <<g, k>>
  BY <1>1 DEF At, NoRowsIn
<1>2. CASE /\ g > p[1] /\ p[2] = RowsIn(plan, p[1])
           /\ NoRowsIn(plan, p[1] + 1, g - 1)
           /\ k = 0
  <2>1. NoRowsIn(plan, p[1] + 1, g)
    <3> SUFFICES ASSUME NEW h \in (p[1] + 1)..g PROVE RowsIn(plan, h) = 0
      BY DEF NoRowsIn
    <3>1. h = g \/ h \in (p[1] + 1)..(g - 1)
      OBVIOUS
    <3> QED BY <1>2, <3>1 DEF NoRowsIn
  <2> QED BY <1>2, <2>1 DEF At
<1> QED BY <1>1, <1>2 DEF At

\* At the end of the last group nothing is left.
LEMMA AtEnd ==
  ASSUME NEW plan, NEW p, NEW g \in Nat, NEW k \in Nat, p[1] \in Nat,
         At(plan, p, <<g, k>>), k = RowsIn(plan, g), g = Len(plan)
  PROVE  Exhausted(plan, p)
<1>1. CASE p = <<g, k>>
  BY <1>1 DEF Exhausted, NoRowsIn
<1>2. CASE /\ g > p[1] /\ p[2] = RowsIn(plan, p[1])
           /\ NoRowsIn(plan, p[1] + 1, g - 1)
           /\ k = 0
  <2> SUFFICES ASSUME NEW h \in (p[1] + 1)..g PROVE RowsIn(plan, h) = 0
    BY <1>2 DEF Exhausted, NoRowsIn
  <2>1. h = g \/ h \in (p[1] + 1)..(g - 1)
    OBVIOUS
  <2> QED BY <1>2, <2>1 DEF NoRowsIn
<1> QED BY <1>1, <1>2 DEF At

\* The frame in hand is a sequence of j rows.
LEMMA FrameRows ==
  ASSUME TypeOK, NEW j \in Nat, j <= Len(taken)
  PROVE  Frame(j) \in Seq(Nat \X Nat) /\ Len(Frame(j)) = j
<1> DEFINE Row == Nat \X Nat
<1>1. taken \in Seq(Row) /\ Len(taken) \in Nat
  BY DEF TypeOK, HistoryTypes
<1>2. Len(taken) - j + 1 \in Int /\ Len(taken) - j + 1 >= 1
  BY <1>1
<1>3. \A x \in (Len(taken) - j + 1)..Len(taken) : taken[x] \in Row
  BY <1>1, <1>2
<1> HIDE DEF Row
<1>4. Frame(j) \in Seq(Row)
  BY <1>1, <1>2, <1>3, SubSeqProperties DEF Frame
<1>5. Len(Frame(j)) = j
  BY <1>1, <1>2, <1>3, SubSeqProperties DEF Frame
<1> QED BY <1>4, <1>5 DEF Row

LEMMA NoRows == \A S : <<>> \in Seq(S) /\ Len(<<>>) = 0
  OBVIOUS

\* Facts about the constants in the form the steps use.
LEMMA ConstantFacts ==
  /\ NoExecs \in [Groups -> 0..2]
  /\ FetchSizes \subseteq Int
  /\ \A b \in Binding : RowsOf[b] \in Nat /\ ChangesOf[b] \in Nat
  /\ Input \subseteq Binding /\ NoInput \in Binding /\ Partial \in Binding
  BY ConstantsAssumption DEF NoExecs, Groups, Binding

----------------------------------------------------------------------------
(* TypeOK and CallInv are inductive together *)

TypeInv == TypeOK /\ CallInv

LEMMA TypeInit == Init => TypeInv
<1> SUFFICES ASSUME Init PROVE TypeInv
  OBVIOUS
<1> USE ConstantFacts, NoRows DEF Init
<1>1. ObjectTypes
  <2>1. params \in Seq(Input) /\ Len(params) <= MaxGroups
    BY ConstantsAssumption
  <2> QED BY <2>1 DEF ObjectTypes
<1>2. StatementTypes
  BY DEF StatementTypes
<1>3. CallTypes
  BY DEF CallTypes
<1>4. HistoryTypes
  <2>1. taken \in Seq(Nat \X Nat)
    OBVIOUS
  <2> QED BY <2>1 DEF HistoryTypes
<1>5. CallInv
  BY DEF CallInv, InFetch
<1> QED BY <1>1, <1>2, <1>3, <1>4, <1>5 DEF TypeInv, TypeOK

LEMMA TypeStep == TypeInv /\ [Next]_vars => TypeInv'
<1> SUFFICES ASSUME TypeInv, [Next]_vars PROVE TypeInv'
  OBVIOUS
<1>t. TypeOK /\ ObjectTypes /\ StatementTypes /\ CallTypes /\ HistoryTypes /\ CallInv
  BY DEF TypeInv, TypeOK
<1>f. FetchSizes \subseteq Int
  BY ConstantFacts
<1>1. CASE Create
  <2>o. ObjectTypes'

    <3>1. params' \in Seq(Input) /\ Len(params') <= MaxGroups
      BY <1>1, NoRows, ConstantsAssumption DEF Create
    <3>2. ready' \in BOOLEAN /\ complete' \in BOOLEAN
      BY <1>1 DEF Create, init
    <3>4. nrows' \in Nat
      BY <1>1 DEF Create, init
    <3>3. group' \in Nat /\ start' \in Nat
      BY <1>t, <1>1 DEF Create, StatementTypes, MarkChanges
    <3> QED BY <1>1, <3>1, <3>2, <3>3, <3>4 DEF Create, ObjectTypes
  <2>s. StatementTypes'
    BY <1>t, <1>1, ConstantFacts DEF Create, StatementTypes
  <2>x. CallTypes'
    BY <1>t, <1>1 DEF Create, CallTypes
  <2>h. HistoryTypes'

    <3>1. taken' \in Seq(Nat \X Nat)
      BY <1>1, NoRows DEF Create
    <3>2. execs' \in [Groups -> 0..2]
      BY <1>1, ConstantFacts DEF Create
    <3> QED BY <1>t, <1>1, <3>1, <3>2 DEF Create, HistoryTypes, boundVars
  <2>c. CallInv'
    BY <1>t, <1>1 DEF Create, CallInv, InFetch, init
  <2> QED BY <2>o, <2>s, <2>x, <2>h, <2>c DEF TypeInv, TypeOK
<1>2. ASSUME NEW ps \in ParamSeqs, Bind(ps) PROVE TypeInv'
  <2>1. ps \in Seq(Input) /\ Len(ps) <= MaxGroups
    BY ConstantsAssumption DEF ParamSeqs
  <2>2. ps # <<>> => GroupInput(ps, 0) \in Input
    BY <2>1 DEF GroupInput
  <2>3. PendingChanges \in Nat
    BY <1>t, ConstantFacts DEF PendingChanges, StatementTypes
  <2>o. ObjectTypes'

    <3>1. ready' \in BOOLEAN /\ complete' \in BOOLEAN
      BY <1>t, <1>2 DEF Bind, init, ObjectTypes
    <3>2. nrows' \in Nat
      BY <1>t, <1>2 DEF Bind, init, ObjectTypes
    <3>3. group' \in Nat /\ start' \in Nat
      BY <1>t, <1>2 DEF Bind, StatementTypes, MarkChanges
    <3>4. params' = ps /\ handle' = handle /\ has_params' = has_params
      BY <1>2 DEF Bind
    <3> QED BY <1>t, <2>1, <3>1, <3>2, <3>3, <3>4 DEF ObjectTypes
  <2>s. StatementTypes'
    BY <1>t, <1>2, <2>2, <2>3, ConstantFacts DEF Bind, StatementTypes, sqlVars
  <2>x. CallTypes'
    BY <1>t, <1>2 DEF Bind, CallTypes
  <2>h. HistoryTypes'

    <3>1. taken' \in Seq(Nat \X Nat)
      BY <1>2, NoRows DEF Bind
    <3>2. execs' \in [Groups -> 0..2]
      BY <1>2, ConstantFacts DEF Bind
    <3>3. tainted' \in BOOLEAN /\ lost' \in BOOLEAN
      BY <1>2 DEF Bind
    <3>4. carry' \in Nat /\ delivered' \in Nat /\ binds' \in Nat /\ faults' \in Nat
      BY <1>t, <1>2, <2>3 DEF Bind, HistoryTypes
    <3> QED BY <3>1, <3>2, <3>3, <3>4 DEF HistoryTypes
  <2>c. CallInv'
    BY <1>t, <1>2 DEF Bind, CallInv, InFetch, init
  <2> QED BY <2>o, <2>s, <2>x, <2>h, <2>c DEF TypeInv, TypeOK
<1>3. ASSUME NEW n \in FetchSizes, FetchBegin(n) PROVE TypeInv'
  <2>o. ObjectTypes'
    BY <1>t, <1>3 DEF FetchBegin, ObjectTypes, objVars
  <2>s. StatementTypes'
    BY <1>t, <1>3 DEF FetchBegin, StatementTypes, sqlVars
  <2>x. CallTypes'
    BY <1>t, <1>3 DEF FetchBegin, CallTypes
  <2>h. HistoryTypes'
    BY <1>t, <1>3 DEF FetchBegin, HistoryTypes, histVars, boundVars
  <2>c. CallInv'
    <3>1. n \in Int /\ (n >= 0 => 0 < n)
      BY <1>3, ConstantsAssumption
    <3>2. Len(taken) \in Nat
      BY <1>t DEF HistoryTypes
    <3> QED BY <1>t, <1>3, <3>1, <3>2 DEF FetchBegin, CallInv, InFetch, objVars, histVars
  <2> QED BY <2>o, <2>s, <2>x, <2>h, <2>c DEF TypeInv, TypeOK
<1>4. CASE StepRow
  <2>o. ObjectTypes'
    BY <1>t, <1>4 DEF StepRow, ObjectTypes, objVars
  <2>s. StatementTypes'
    BY <1>t, <1>4, ConstantFacts DEF StepRow, StatementTypes
  <2>x. CallTypes'
    BY <1>t, <1>4 DEF StepRow, AfterStep, CallTypes
  <2>h. HistoryTypes'
    BY <1>t, <1>4 DEF StepRow, HistoryTypes, histVars, boundVars
  <2>c. CallInv'
    BY <1>t, <1>4 DEF StepRow, AfterStep, CallInv, InFetch, objVars, histVars
  <2> QED BY <2>o, <2>s, <2>x, <2>h, <2>c DEF TypeInv, TypeOK
<1>5. CASE StepDone
  <2>1. MoreGroups(NextGroup) => GroupInput(params, NextGroup) \in Input
    BY <1>t DEF MoreGroups, GroupInput, NextGroup, ObjectTypes
  <2>o. ObjectTypes'

    <3>1. group' \in Nat
      BY <1>t, <1>5 DEF StepDone, NextGroup, ObjectTypes
    <3>2. complete' \in BOOLEAN
      BY <1>t, <1>5 DEF StepDone, ObjectTypes
    <3> QED BY <1>t, <1>5, <3>1, <3>2 DEF StepDone, ObjectTypes
  <2>s. StatementTypes'
    <3>1. total' \in Nat
      BY <1>t, <1>5, ConstantFacts DEF StepDone, StatementTypes
    <3>2. bound' \in Binding /\ cur' = 0
      BY <1>t, <1>5, <2>1, ConstantFacts DEF StepDone, StatementTypes
    <3> QED BY <3>1, <3>2, ConstantFacts DEF StatementTypes
  <2>x. CallTypes'
    BY <1>t, <1>5 DEF StepDone, AfterStep, CallTypes
  <2>h. HistoryTypes'
    <3>1. execs' \in [Groups -> 0..2]
      <4>1. execs' = [execs EXCEPT ![group + 1] = IF @ = 0 THEN 1 ELSE 2]
        BY <1>5 DEF StepDone
      <4>2. execs \in [Groups -> 0..2]
        BY <1>t DEF HistoryTypes
      <4>3. execs' = [g \in Groups |-> IF g = group + 1
                                       THEN IF execs[g] = 0 THEN 1 ELSE 2
                                       ELSE execs[g]]
        BY <4>1, <4>2
      <4> HIDE <4>1
      <4> QED BY <4>2, <4>3
    <3>2. tainted' \in BOOLEAN
      BY <1>t, <1>5 DEF StepDone, HistoryTypes
    <3> QED BY <1>t, <1>5, <3>1, <3>2 DEF StepDone, HistoryTypes, boundVars
  <2>c. CallInv'
    BY <1>t, <1>5 DEF StepDone, AfterStep, CallInv, InFetch
  <2> QED BY <2>o, <2>s, <2>x, <2>h, <2>c DEF TypeInv, TypeOK
<1>6. CASE StepError
  <2>o. ObjectTypes'
    BY <1>t, <1>6 DEF StepError, ObjectTypes, objVars
  <2>s. StatementTypes'
    BY <1>t, <1>6, ConstantFacts DEF StepError, StatementTypes
  <2>x. CallTypes'
    BY <1>t, <1>6 DEF StepError, CallTypes
  <2>h. HistoryTypes'
    BY <1>t, <1>6 DEF StepError, HistoryTypes
  <2>c. CallInv'
    BY <1>t, <1>6 DEF StepError, CallInv, InFetch, objVars
  <2> QED BY <2>o, <2>s, <2>x, <2>h, <2>c DEF TypeInv, TypeOK
<1>7. CASE FetchCopy
  <2>1. <<group + 1, cur>> \in Nat \X Nat
    BY <1>t DEF ObjectTypes, StatementTypes
  <2>2. taken' \in Seq(Nat \X Nat) /\ Len(taken') = Len(taken) + 1 /\ Len(taken) \in Nat
    BY <1>t, <1>7, <2>1 DEF FetchCopy, HistoryTypes
  <2>o. ObjectTypes'
    BY <1>t, <1>7 DEF FetchCopy, ObjectTypes, objVars
  <2>s. StatementTypes'
    BY <1>t, <1>7 DEF FetchCopy, StatementTypes, sqlVars
  <2>x. CallTypes'
    BY <1>t, <1>7 DEF FetchCopy, CallTypes
  <2>h. HistoryTypes'
    BY <1>t, <1>7, <2>2 DEF FetchCopy, HistoryTypes, boundVars
  <2>c. CallInv'
    BY <1>t, <1>7, <2>2 DEF FetchCopy, RowWaiting, CallInv, InFetch, CallTypes, objVars
  <2> QED BY <2>o, <2>s, <2>x, <2>h, <2>c DEF TypeInv, TypeOK
<1>8. CASE FetchAdvance
  <2>1. i + 1 \in Nat /\ i + 1 <= Len(taken) /\ n_max \in Int
    <3>1. Len(taken) \in Nat /\ i \in Nat
      BY <1>t DEF HistoryTypes, CallTypes
    <3>2. InFetch
      BY <1>t, <1>8 DEF FetchAdvance, CallInv, InFetch
    <3>3. i < Len(taken) /\ n_max \in FetchSizes
      BY <1>t, <3>2 DEF CallInv
    <3> QED BY <1>f, <3>1, <3>3
  <2>2. Frame(i + 1) \in Seq(Nat \X Nat)
    BY <1>t, <2>1, FrameRows
  <2>o. ObjectTypes'
    BY <1>t, <1>8 DEF FetchAdvance, ObjectTypes
  <2>s. StatementTypes'
    BY <1>t, <1>8 DEF FetchAdvance, StatementTypes, sqlVars
  <2>x. CallTypes'
    BY <1>t, <1>8, <2>1, <2>2 DEF FetchAdvance, CallTypes
  <2>h. HistoryTypes'
    <3>1. delivered' \in Nat
      BY <1>t, <1>8, <2>1 DEF FetchAdvance, HistoryTypes, CallTypes
    <3> QED BY <1>t, <1>8, <3>1 DEF FetchAdvance, HistoryTypes, boundVars
  <2>c. CallInv'
    BY <1>t, <1>8, <2>1 DEF FetchAdvance, Full, CallInv, InFetch
  <2> QED BY <2>o, <2>s, <2>x, <2>h, <2>c DEF TypeInv, TypeOK
<1>9. CASE FetchInterrupt
  <2>o. ObjectTypes'
    BY <1>t, <1>9 DEF FetchInterrupt, ObjectTypes
  <2>s. StatementTypes'
    BY <1>t, <1>9 DEF FetchInterrupt, StatementTypes, sqlVars
  <2>x. CallTypes'
    BY <1>t, <1>9 DEF FetchInterrupt, CallTypes
  <2>h. HistoryTypes'
    BY <1>t, <1>9 DEF FetchInterrupt, HistoryTypes
  <2>c. CallInv'
    BY <1>t, <1>9 DEF FetchInterrupt, CallInv, InFetch
  <2> QED BY <2>o, <2>s, <2>x, <2>h, <2>c DEF TypeInv, TypeOK
<1>10. CASE FetchEnd
  <2>1. Frame(i) \in Seq(Nat \X Nat) /\ i \in Nat
    BY <1>t, <1>10, FrameRows DEF FetchEnd, CallInv, CallTypes
  <2>o. ObjectTypes'
    BY <1>t, <1>10 DEF FetchEnd, ObjectTypes, objVars
  <2>s. StatementTypes'
    BY <1>t, <1>10 DEF FetchEnd, StatementTypes, sqlVars
  <2>x. CallTypes'
    BY <1>t, <1>10, <2>1 DEF FetchEnd, CallTypes
  <2>h. HistoryTypes'
    BY <1>t, <1>10, <2>1 DEF FetchEnd, HistoryTypes, boundVars
  <2>c. CallInv'
    BY <1>t, <1>10 DEF FetchEnd, CallInv, InFetch, objVars
  <2> QED BY <2>o, <2>s, <2>x, <2>h, <2>c DEF TypeInv, TypeOK
<1>11. CASE Clear
  <2>1. PendingChanges \in Nat
    BY <1>t, ConstantFacts DEF PendingChanges, StatementTypes
  <2>o. ObjectTypes'
    BY <1>t, <1>11 DEF Clear, ObjectTypes, objVars
  <2>s. StatementTypes'
    BY <1>t, <1>11, <2>1, ConstantFacts DEF Clear, StatementTypes
  <2>x. CallTypes'
    BY <1>t, <1>11 DEF Clear, CallTypes, callVars
  <2>h. HistoryTypes'
    BY <1>t, <1>11 DEF Clear, HistoryTypes, histVars, boundVars
  <2>c. CallInv'
    BY <1>t, <1>11 DEF Clear, CallInv, InFetch, objVars, callVars, histVars
  <2> QED BY <2>o, <2>s, <2>x, <2>h, <2>c DEF TypeInv, TypeOK
<1>12. CASE UNCHANGED vars
  <2>o. ObjectTypes'
    BY <1>t, <1>12 DEF vars, ObjectTypes, objVars
  <2>s. StatementTypes'
    BY <1>t, <1>12 DEF vars, StatementTypes, sqlVars
  <2>x. CallTypes'
    BY <1>t, <1>12 DEF vars, CallTypes, callVars
  <2>h. HistoryTypes'
    BY <1>t, <1>12 DEF vars, HistoryTypes, histVars, boundVars
  <2>c. CallInv'
    BY <1>t, <1>12 DEF vars, CallInv, InFetch, objVars, callVars, histVars
  <2> QED BY <2>o, <2>s, <2>x, <2>h, <2>c DEF TypeInv, TypeOK
<1> QED
  BY <1>1, <1>2, <1>3, <1>4, <1>5, <1>6, <1>7, <1>8, <1>9, <1>10, <1>11, <1>12
  DEF Next, Internal

\* Type correctness, for every statement and every bind.
THEOREM TypeCorrect == Spec => []TypeOK
<1>1. TypeInv => TypeOK
  BY DEF TypeInv
<1> QED BY TypeInit, TypeStep, <1>1, PTL DEF Spec

----------------------------------------------------------------------------
(* IInv is inductive *)

\* The plan and the positions in it have their types.
LEMMA PlanFacts ==
  ASSUME TypeOK
  PROVE  /\ Plan \in Seq(Binding) /\ Len(Plan) \in Nat
         /\ LastTaken[1] \in Nat
         /\ Len(taken) \in Nat /\ i \in Nat /\ nrows \in Nat /\ delivered \in Nat
         /\ group \in Nat /\ cur \in Nat
<1>1. params \in Seq(Input) /\ Len(params) \in Nat
  BY DEF TypeOK, ObjectTypes
<1>2. Plan \in Seq(Binding) /\ Len(Plan) \in Nat
  <2>1. CASE has_params
    BY <1>1, <2>1, ConstantFacts DEF Plan
  <2>2. CASE ~has_params
    BY <2>2, ConstantFacts DEF Plan
  <2> QED BY <2>1, <2>2
<1>3. taken \in Seq(Nat \X Nat) /\ Len(taken) \in Nat
  BY DEF TypeOK, HistoryTypes
<1>4. LastTaken[1] \in Nat
  BY <1>3 DEF LastTaken, Origin
<1> QED BY <1>2, <1>3, <1>4 DEF TypeOK, ObjectTypes, StatementTypes, CallTypes, HistoryTypes

\* While a step runs, the statement has as many rows as the plan's group.
LEMMA StepFacts ==
  ASSUME TypeOK, CallInv, GroupInv, PositionInv, Sound, pc = "step"
  PROVE  /\ ~complete
         /\ group < Len(Plan) /\ bound = Plan[group + 1]
         /\ RowsIn(Plan, group + 1) = RowsOf[bound]
         /\ At(Plan, LastTaken, <<group + 1, cur>>)
<1>1. ~complete
  BY DEF CallInv
<1>2. group < Len(Plan) /\ bound = Plan[group + 1]
  BY <1>1 DEF GroupInv
<1>3. group + 1 \in DOMAIN Plan
  BY <1>2, PlanFacts
<1>4. At(Plan, LastTaken, <<group + 1, cur>>)
  BY DEF PositionInv, Here
<1> QED BY <1>1, <1>2, <1>3, <1>4 DEF RowsIn

LEMMA RowsKept ==
  ASSUME RowsInOrder, Sound' => Sound,
         UNCHANGED <<has_params, params, taken>>
  PROVE  RowsInOrder'
  BY DEF RowsInOrder, Plan

LEMMA GroupsKept ==
  ASSUME GroupInv, Sound' => Sound,
         UNCHANGED <<has_params, params, group, complete, bound, execs>>
  PROVE  GroupInv'
  BY DEF GroupInv, Plan

LEMMA PositionKept ==
  ASSUME PositionInv, Sound' => Sound,
         UNCHANGED <<has_params, params, group, complete, cur, taken>>,
         pc' = "step" <=> pc = "step"
  PROVE  PositionInv'
  BY DEF PositionInv, Plan, LastTaken, Here

LEMMA InvInit == Init => IInv
<1> SUFFICES ASSUME Init PROVE IInv
  OBVIOUS
<1>1. TypeOK /\ CallInv
  BY TypeInit DEF TypeInv
<1>2. ~Sound
  BY DEF Init, Sound
<1> QED BY <1>1, <1>2
  DEF IInv, GroupInv, PositionInv, CountInv, RowsInOrder, ShortFetchMeansComplete

LEMMA InvStep == IInv /\ [Next]_vars => IInv'
<1> SUFFICES ASSUME IInv, [Next]_vars PROVE IInv'
  OBVIOUS
<1>t. TypeOK' /\ CallInv'
  BY TypeStep DEF IInv, TypeInv
<1>i. /\ TypeOK /\ CallInv /\ GroupInv /\ PositionInv /\ CountInv
      /\ RowsInOrder /\ ShortFetchMeansComplete
  BY DEF IInv
<1>p. /\ Plan \in Seq(Binding) /\ Len(Plan) \in Nat
      /\ LastTaken[1] \in Nat
      /\ Len(taken) \in Nat /\ i \in Nat /\ nrows \in Nat /\ delivered \in Nat
      /\ group \in Nat /\ cur \in Nat
  BY <1>i, PlanFacts
<1>n. ~Sound' => IInv'
  BY <1>t DEF IInv, GroupInv, PositionInv, CountInv, RowsInOrder, ShortFetchMeansComplete
<1>1. CASE Create
  <2>1. CASE has_params'
    BY <1>1, <1>n, <2>1 DEF Create, Sound
  <2>2. CASE ~has_params'
    <3>1. /\ Plan' = <<NoInput>> /\ taken' = <<>> /\ LastTaken' = Origin
          /\ group' = 0 /\ cur' = 0 /\ bound' = NoInput
          /\ ~complete' /\ pc' = "step" /\ caller' = "create"
          /\ nrows' = 0 /\ delivered' = 0 /\ execs' = NoExecs
      BY <1>1, <2>2 DEF Create, init, Plan, LastTaken
    <3>2. GroupInv'
      BY <3>1, ConstantsAssumption DEF GroupInv, NoExecs, Groups
    <3>3. PositionInv'
      BY <3>1 DEF PositionInv, At, Here, Origin
    <3>4. CountInv'
      BY <3>1 DEF CountInv, InFetch
    <3>5. RowsInOrder' /\ ShortFetchMeansComplete'
      BY <3>1 DEF RowsInOrder, ShortFetchMeansComplete
    <3> QED BY <1>t, <3>2, <3>3, <3>4, <3>5 DEF IInv
  <2> QED BY <2>1, <2>2
<1>2. ASSUME NEW ps \in ParamSeqs, Bind(ps) PROVE IInv'
  <2> SUFFICES ASSUME Sound' PROVE IInv'
    BY <1>n
  <2>0. ps \in Seq(Input) /\ Len(ps) \in Nat /\ Len(ps) <= MaxGroups
    BY ConstantsAssumption DEF ParamSeqs
  <2>1. /\ Plan' = ps /\ has_params' /\ taken' = <<>> /\ LastTaken' = Origin
        /\ group' = 0 /\ caller' = "bind" /\ delivered' = 0 /\ execs' = NoExecs
    BY <1>2 DEF Bind, Plan, LastTaken
  <2>2. nrows' = 0 /\ (complete' <=> ps = <<>>)
    BY <1>2 DEF Bind, Sound, init
  <2>3. ps # <<>> => pc' = "step" /\ cur' = 0 /\ bound' = ps[1]
    <3>1. GroupInput(ps, 0) = ps[1]
      BY DEF GroupInput
    <3>2. ~tainted'
      BY DEF Sound
    <3> QED BY <1>2, <3>1, <3>2 DEF Bind
  <2>4. ps = <<>> => pc' = "idle"
    BY <1>2 DEF Bind
  <2>5. ps = <<>> <=> Len(ps) = 0
    BY <2>0
  <2>6. GroupInv'
    <3>1. \A g \in 1..Len(ps) : NoExecs[g] = 0
      BY <2>0, ConstantsAssumption DEF NoExecs, Groups
    <3>2. \A g \in 1..Len(ps) : ~(g <= 0)
      BY <2>0
    <3>3. complete' => 0 = Len(ps)
      BY <2>2, <2>5
    <3>4. ~complete' => 0 < Len(ps) /\ bound' = ps[1]
      BY <2>0, <2>2, <2>3, <2>5
    <3> QED BY <2>0, <2>1, <3>1, <3>2, <3>3, <3>4 DEF GroupInv
  <2>7. PositionInv'
    <3>1. CASE ps = <<>>
      <4>1. Exhausted(<<>>, Origin)
        BY DEF Exhausted, Origin, RowsIn, NoRowsIn
      <4> QED BY <2>1, <2>2, <2>4, <3>1, <4>1 DEF PositionInv
    <3>2. CASE ps # <<>>
      BY <2>1, <2>3, <3>2 DEF PositionInv, At, Here, Origin
    <3> QED BY <3>1, <3>2
  <2>8. CountInv'
    BY <2>1, <2>2, <2>3, <2>4 DEF CountInv, InFetch
  <2>9. RowsInOrder' /\ ShortFetchMeansComplete'
    BY <2>1 DEF RowsInOrder, ShortFetchMeansComplete
  <2> QED BY <1>t, <2>6, <2>7, <2>8, <2>9 DEF IInv
<1>3. ASSUME NEW n \in FetchSizes, FetchBegin(n) PROVE IInv'
  <2>1. /\ UNCHANGED <<has_params, params, group, complete, bound, cur, execs, taken, nrows, delivered, lost>>
        /\ (Sound' <=> Sound) /\ pc = "idle" /\ pc' = "copy"
        /\ caller' = "fetch" /\ i' = 0
    BY <1>3 DEF FetchBegin, Sound, objVars, sqlVars, histVars
  <2>2. GroupInv' /\ RowsInOrder' /\ PositionInv'
    BY <1>i, <2>1, GroupsKept, RowsKept, PositionKept
  <2>3. CountInv' /\ ShortFetchMeansComplete'
    BY <1>i, <1>p, <2>1 DEF CountInv, InFetch, ShortFetchMeansComplete
  <2> QED BY <1>t, <2>2, <2>3 DEF IInv
<1>4. CASE StepRow
  <2> SUFFICES ASSUME Sound' PROVE IInv'
    BY <1>n
  <2>1. /\ UNCHANGED <<has_params, params, group, complete, bound, execs, taken, nrows, delivered, lost, caller, i>>
        /\ Sound /\ pc = "step" /\ cur < RowsOf[bound] /\ cur' = cur + 1
        /\ pc' = IF caller = "fetch" THEN "advance" ELSE "idle"
    BY <1>4 DEF StepRow, AfterStep, Sound, objVars, histVars
  <2>2. GroupInv' /\ RowsInOrder'
    BY <1>i, <2>1, GroupsKept, RowsKept
  <2>3. PositionInv'
    <3>1. RowsOf[bound] \in Nat
      BY <1>i, ConstantFacts DEF TypeOK, StatementTypes
    <3>2. Follows(Plan, LastTaken, <<group + 1, cur + 1>>)
      <4>1. RowsIn(Plan, group + 1) = RowsOf[bound] /\ At(Plan, LastTaken, <<group + 1, cur>>)
        BY <1>i, <2>1, StepFacts
      <4>2. group + 1 \in Nat /\ cur \in Nat /\ cur + 1 <= RowsIn(Plan, group + 1)
        BY <1>p, <2>1, <3>1, <4>1
      <4> QED BY <4>1, <4>2, AtRow
    <3>3. Plan' = Plan /\ LastTaken' = LastTaken /\ Here' = <<group + 1, cur + 1>>
      BY <2>1 DEF Plan, LastTaken, Here
    <3>4. ~complete' /\ pc' # "step"
      BY <1>i, <2>1 DEF CallInv
    <3> QED BY <3>2, <3>3, <3>4 DEF PositionInv
  <2>4. CountInv'
    BY <1>i, <1>p, <2>1 DEF CountInv, InFetch
  <2>5. ShortFetchMeansComplete'
    BY <2>1 DEF ShortFetchMeansComplete
  <2> QED BY <1>t, <2>2, <2>3, <2>4, <2>5 DEF IInv
<1>5. CASE StepDone
  <2> SUFFICES ASSUME Sound' PROVE IInv'
    BY <1>n
  <2>1. /\ UNCHANGED <<has_params, params, taken, nrows, delivered, lost, caller, i>>
        /\ Sound /\ pc = "step" /\ cur = RowsOf[bound] /\ cur' = 0
        /\ group' = group + 1
        /\ execs' = [execs EXCEPT ![group + 1] = IF @ = 0 THEN 1 ELSE 2]
    BY <1>5 DEF StepDone, Sound, NextGroup, boundVars
  <2>2. \/ /\ group + 1 >= Len(params) /\ complete'
           /\ pc' = IF caller = "fetch" THEN "advance" ELSE "idle"
        \/ /\ group + 1 < Len(params) /\ ~complete' /\ pc' = "step"
           /\ bound' = params[group + 2]
    BY <1>5, <1>i, <1>p, <2>1
    DEF StepDone, AfterStep, Sound, NextGroup, MoreGroups, GroupInput, CallInv
  <2>3. /\ ~complete /\ group < Len(Plan) /\ bound = Plan[group + 1]
        /\ RowsIn(Plan, group + 1) = cur
        /\ At(Plan, LastTaken, <<group + 1, cur>>)
    BY <1>i, <2>1, StepFacts
  <2>4. IF complete' THEN Len(Plan) = group + 1
        ELSE group + 1 < Len(Plan) /\ bound' = Plan[group + 2]
    <3>1. CASE has_params
      BY <1>p, <2>2, <2>3, <3>1 DEF Plan
    <3>2. CASE ~has_params
      <4>1. params = <<>> /\ Len(Plan) = 1
        BY <1>i, <3>2 DEF CallInv, Plan
      <4> QED BY <1>p, <2>2, <2>3, <4>1
    <3> QED BY <3>1, <3>2
  <2>5. Plan' = Plan /\ LastTaken' = LastTaken /\ Here' = <<group + 2, 0>>
    BY <1>p, <2>1 DEF Plan, LastTaken, Here
  <2>6. GroupInv'
    <3>1. \A g \in 1..Len(Plan) : execs'[g] = IF g <= group + 1 THEN 1 ELSE 0
      <4> SUFFICES ASSUME NEW g \in 1..Len(Plan)
                   PROVE  execs'[g] = IF g <= group + 1 THEN 1 ELSE 0
        OBVIOUS
      <4>1. execs[g] = IF g <= group THEN 1 ELSE 0
        BY <1>i, <2>1 DEF GroupInv
      <4>2. g \in Groups /\ execs \in [Groups -> 0..2]
        <5>1. Len(Plan) <= MaxGroups
          <6>1. CASE has_params
            BY <1>i, <6>1 DEF TypeOK, ObjectTypes, Plan
          <6>2. CASE ~has_params
            BY <6>2, ConstantsAssumption DEF Plan
          <6> QED BY <6>1, <6>2
        <5> QED BY <1>i, <1>p, <5>1, ConstantsAssumption DEF Groups, TypeOK, HistoryTypes
      <4>3. CASE g = group + 1
        BY <1>p, <2>1, <4>1, <4>2, <4>3
      <4>4. CASE g # group + 1
        <5>1. execs'[g] = execs[g]
          BY <2>1, <4>2, <4>4
        <5> QED BY <1>p, <4>1, <4>4, <5>1
      <4> QED BY <4>3, <4>4
    <3> QED BY <1>p, <2>1, <2>4, <2>5, <3>1 DEF GroupInv
  <2>7. PositionInv'
    <3>1. CASE complete'
      <4>1. Exhausted(Plan, LastTaken)
        BY <1>p, <2>3, <2>4, <3>1, AtEnd
      <4> QED BY <2>2, <2>5, <3>1, <4>1 DEF PositionInv
    <3>2. CASE ~complete'
      <4>1. At(Plan, LastTaken, <<(group + 1) + 1, 0>>)
        BY <1>p, <2>3, AtDone
      <4>2. (group + 1) + 1 = group + 2
        BY <1>p
      <4> QED BY <2>2, <2>5, <3>2, <4>1, <4>2 DEF PositionInv
    <3> QED BY <3>1, <3>2
  <2>8. CountInv'
    BY <1>i, <1>p, <2>1, <2>2 DEF CountInv, InFetch
  <2>9. RowsInOrder'
    BY <1>i, <2>1, RowsKept
  <2>10. ShortFetchMeansComplete'
    BY <2>1, <2>2 DEF ShortFetchMeansComplete
  <2> QED BY <1>t, <2>6, <2>7, <2>8, <2>9, <2>10 DEF IInv
<1>6. CASE StepError
  BY <1>6, <1>n DEF StepError, Sound
<1>7. CASE FetchCopy
  <2> SUFFICES ASSUME Sound' PROVE IInv'
    BY <1>n
  <2>1. /\ UNCHANGED <<has_params, params, group, complete, bound, cur, execs, nrows, delivered, lost, caller, i>>
        /\ Sound /\ pc = "copy" /\ ~complete /\ pc' = "step"
        /\ taken' = Append(taken, Here)
    BY <1>7 DEF FetchCopy, RowWaiting, Sound, Here, objVars, sqlVars
  <2>2. taken \in Seq(Nat \X Nat) /\ Here \in Nat \X Nat
    BY <1>i, <1>p DEF TypeOK, HistoryTypes, Here
  <2>3. /\ Len(taken') = Len(taken) + 1 /\ taken' # <<>>
        /\ taken'[Len(taken) + 1] = Here
        /\ \A j \in 1..Len(taken) : taken'[j] = taken[j]
    BY <2>1, <2>2
  <2>4. Plan' = Plan /\ Here' = Here /\ LastTaken' = Here
    BY <2>1, <2>3 DEF Plan, Here, LastTaken
  <2>5. GroupInv'
    BY <1>i, <2>1, GroupsKept
  <2>6. PositionInv'
    BY <2>1, <2>4 DEF PositionInv, At
  <2>7. CountInv'
    BY <1>i, <1>p, <2>1, <2>3 DEF CountInv, InFetch, CallInv
  <2>8. RowsInOrder'
    <3>1. Follows(Plan, LastTaken, Here)
      BY <1>i, <2>1 DEF PositionInv
    <3> SUFFICES ASSUME NEW j \in 1..Len(taken')
                 PROVE  Follows(Plan, IF j = 1 THEN Origin ELSE taken'[j - 1], taken'[j])
      BY <2>4 DEF RowsInOrder
    <3>2. CASE j \in 1..Len(taken)
      <4>1. taken'[j] = taken[j] /\ (j # 1 => taken'[j - 1] = taken[j - 1])
        BY <1>p, <2>3, <3>2
      <4> QED BY <1>i, <2>1, <3>2, <4>1 DEF RowsInOrder
    <3>3. CASE j = Len(taken) + 1
      <4>1. LastTaken = IF j = 1 THEN Origin ELSE taken'[j - 1]
        <5>1. taken = <<>> <=> Len(taken) = 0
          BY <2>2
        <5>2. taken # <<>> => taken'[Len(taken)] = taken[Len(taken)]
          BY <1>p, <2>3, <5>1
        <5> QED BY <1>p, <3>3, <5>1, <5>2 DEF LastTaken
      <4> QED BY <2>3, <3>1, <3>3, <4>1
    <3> QED BY <1>p, <2>3, <3>2, <3>3
  <2>9. ShortFetchMeansComplete'
    BY <2>1 DEF ShortFetchMeansComplete
  <2> QED BY <1>t, <2>5, <2>6, <2>7, <2>8, <2>9 DEF IInv
<1>8. CASE FetchAdvance
  <2>1. /\ UNCHANGED <<has_params, params, group, complete, bound, cur, execs, taken, lost, caller, n_max>>
        /\ (Sound' <=> Sound) /\ pc = "advance" /\ nrows' = nrows + 1 /\ i' = i + 1
        /\ \/ pc' = "copy" /\ delivered' = delivered
           \/ /\ pc' = "idle" /\ delivered' = delivered + i + 1
              /\ n_max >= 0 /\ i + 1 >= n_max /\ ret' = Frame(i + 1)
    BY <1>8 DEF FetchAdvance, Full, Sound, sqlVars
  <2>2. InFetch /\ caller = "fetch" /\ i < Len(taken) /\ n_max \in Int /\ (n_max >= 0 => i < n_max)
    BY <1>i, <2>1, ConstantFacts DEF CallInv, InFetch
  <2>3. GroupInv' /\ RowsInOrder' /\ PositionInv'
    BY <1>i, <2>1, GroupsKept, RowsKept, PositionKept
  <2>4. CountInv'
    BY <1>i, <1>p, <2>1, <2>2 DEF CountInv, InFetch
  <2>5. ShortFetchMeansComplete'
    <3>1. i + 1 \in Nat /\ i + 1 <= Len(taken)
      BY <1>p, <2>2
    <3>2. Len(Frame(i + 1)) = i + 1
      BY <1>i, <3>1, FrameRows
    <3>3. pc' = "idle" => n_max' >= 0 /\ Len(ret') = n_max'
      BY <1>p, <2>1, <2>2, <3>2
    <3> QED BY <2>1, <2>2, <3>3 DEF ShortFetchMeansComplete
  <2> QED BY <1>t, <2>3, <2>4, <2>5 DEF IInv
<1>9. CASE FetchInterrupt
  <2>1. /\ UNCHANGED <<has_params, params, group, complete, bound, cur, execs, taken, caller>>
        /\ (Sound' <=> Sound) /\ pc = "advance" /\ pc' = "idle" /\ lost'
        /\ nrows' = nrows + 1
    BY <1>9 DEF FetchInterrupt, Sound, sqlVars
  <2>2. GroupInv' /\ RowsInOrder' /\ PositionInv'
    BY <1>i, <2>1, GroupsKept, RowsKept, PositionKept
  <2>3. InFetch /\ caller = "fetch"
    BY <1>i, <2>1 DEF CallInv, InFetch
  <2>4. CountInv'
    BY <1>i, <1>p, <2>1, <2>3 DEF CountInv, InFetch
  <2>5. ShortFetchMeansComplete'
    BY <2>1 DEF ShortFetchMeansComplete
  <2> QED BY <1>t, <2>2, <2>4, <2>5 DEF IInv
<1>10. CASE FetchEnd
  <2>1. /\ UNCHANGED <<has_params, params, group, complete, bound, cur, execs, taken, nrows, lost, caller, n_max, i>>
        /\ (Sound' <=> Sound) /\ pc = "copy" /\ complete /\ pc' = "idle"
        /\ delivered' = delivered + i /\ ret' = Frame(i)
    BY <1>10 DEF FetchEnd, Sound, objVars, sqlVars
  <2>2. GroupInv' /\ RowsInOrder' /\ PositionInv'
    BY <1>i, <2>1, GroupsKept, RowsKept, PositionKept
  <2>3. CountInv'
    BY <1>i, <1>p, <2>1 DEF CountInv, InFetch, CallInv
  <2>4. ShortFetchMeansComplete'
    <3>1. i <= Len(taken) /\ n_max \in Int /\ (n_max >= 0 => i < n_max)
      BY <1>i, <2>1, ConstantFacts DEF CallInv
    <3>2. Len(Frame(i)) = i
      BY <1>i, <1>p, <3>1, FrameRows
    <3>3. complete' /\ Len(ret') = i /\ (n_max' >= 0 => i < n_max') /\ n_max' \in Int
      BY <2>1, <3>1, <3>2
    <3> QED BY <1>p, <3>3 DEF ShortFetchMeansComplete
  <2> QED BY <1>t, <2>2, <2>3, <2>4 DEF IInv
<1>11. CASE Clear
  BY <1>11, <1>n DEF Clear, Sound
<1>12. CASE UNCHANGED vars
  <2>1. /\ UNCHANGED <<has_params, params, group, complete, bound, cur, execs, taken, nrows, delivered, lost>>
        /\ UNCHANGED <<caller, n_max, i, pc, ret>>
        /\ (Sound' <=> Sound)
    BY <1>12 DEF vars, Sound, objVars, sqlVars, callVars, histVars
  <2>2. GroupInv' /\ RowsInOrder' /\ PositionInv'
    BY <1>i, <2>1, GroupsKept, RowsKept, PositionKept
  <2>3. CountInv' /\ ShortFetchMeansComplete'
    BY <1>i, <2>1 DEF CountInv, InFetch, ShortFetchMeansComplete
  <2> QED BY <1>t, <2>2, <2>3 DEF IInv
<1> QED
  BY <1>1, <1>2, <1>3, <1>4, <1>5, <1>6, <1>7, <1>8, <1>9, <1>10, <1>11, <1>12
  DEF Next, Internal

LEMMA Invariant == Spec => []IInv
  BY InvInit, InvStep, PTL DEF Spec

----------------------------------------------------------------------------
(* What follows for the caller of a result set *)

\* The rows copied out since a bind are the rows of its groups, in order.
THEOREM RowsComeInOrder == Spec => []RowsInOrder
<1>1. IInv => RowsInOrder
  BY DEF IInv
<1> QED BY Invariant, <1>1, PTL

\* dbHasCompleted() says TRUE when, and only when, no row is left.
THEOREM CompletionIsExact == Spec => []CompleteMeansExhausted
<1>1. IInv => CompleteMeansExhausted
  BY DEF IInv, PositionInv, CompleteMeansExhausted
<1> QED BY Invariant, <1>1, PTL

\* Each parameter group is executed once and only once.
THEOREM GroupsRunExactlyOnce == Spec => []ExactlyOnce
<1>1. IInv => ExactlyOnce
  BY DEF IInv, GroupInv, ExactlyOnce
<1> QED BY Invariant, <1>1, PTL

\* dbGetRowCount() counts the rows copied out, and they reached the caller.
THEOREM RowCountIsExact == Spec => []RowsCounted
<1>1. IInv => RowsCounted
  <2> SUFFICES ASSUME IInv, Sound, pc = "idle"
               PROVE  nrows = Len(taken) /\ (~lost => delivered = nrows)
    BY DEF RowsCounted
  <2>1. delivered \in Nat
    BY PlanFacts DEF IInv
  <2> QED BY <2>1 DEF IInv, CountInv, InFetch
<1> QED BY Invariant, <1>1, PTL

\* A dbFetch(n) returns no more than n rows, and fewer only at the end.
THEOREM ShortFetchIsTheLast == Spec => []ShortFetchMeansComplete
<1>1. IInv => ShortFetchMeansComplete
  BY DEF IInv
<1> QED BY Invariant, <1>1, PTL

\* A complete result set leaves its statement alone until it is bound again.
THEOREM QuietAfterCompletion == Spec => QuietOnceComplete
<1> DEFINE Quiet == Sound /\ complete /\ handle' = "open" /\ binds' = binds
                      => complete' /\ execs' = execs /\ cur' = cur /\ total' = total
<1>1. IInv /\ [Next]_vars => [Quiet]_vars
  <2> SUFFICES ASSUME IInv, Next, Sound, complete, handle' = "open", binds' = binds
               PROVE  complete' /\ execs' = execs /\ cur' = cur /\ total' = total
    OBVIOUS
  <2>1. handle = "open" /\ pc # "step"
    BY DEF IInv, CallInv, Sound
  <2>2. binds + 1 # binds
    BY DEF IInv, TypeOK, HistoryTypes
  <2>3. ~Create /\ ~StepRow /\ ~StepDone /\ ~StepError /\ ~Clear
    BY <2>1 DEF Create, StepRow, StepDone, StepError, Clear
  <2>4. \A ps \in ParamSeqs : ~Bind(ps)
    BY <2>2 DEF Bind
  <2>5. \/ \E n \in FetchSizes : FetchBegin(n)
        \/ FetchCopy \/ FetchAdvance \/ FetchInterrupt \/ FetchEnd
    BY <2>3, <2>4 DEF Next, Internal
  <2> QED BY <2>5 DEF FetchBegin, FetchCopy, FetchAdvance, FetchInterrupt, FetchEnd,
                      objVars, sqlVars, histVars
<1> QED BY Invariant, <1>1, PTL DEF Spec, QuietOnceComplete

----------------------------------------------------------------------------
(* The changes of a bind *)

\* The sums of changes are the ones their recursion says.
LEMMA ChangesAre ==
  ASSUME NEW plan \in Seq(Binding)
  PROVE  /\ ChangesUpTo(plan, 0) = 0
         /\ \A g \in 1..Len(plan) :
              ChangesUpTo(plan, g) = ChangesUpTo(plan, g - 1) + ChangesOf[plan[g]]
         /\ \A g \in 0..Len(plan) : ChangesUpTo(plan, g) \in Nat
<1> DEFINE n == Len(plan)
           Val(f, k) == IF k = 0 THEN 0 ELSE f[k - 1] + ChangesOf[plan[k]]
           Upto(f, m) == \A k \in 0..m : f[k] = Val(f, k)
           Some(m) == \E f : f = [k \in 0..m |-> f[k]] /\ Upto(f, m)
           P == {m \in Nat : Some(m)}
           D(f) == f = [k \in 0..n |-> Val(f, k)]
<1>1. 0 \in P
  <2> DEFINE f == [k \in 0..0 |-> 0]
  <2>1. f = [k \in 0..0 |-> f[k]]
    OBVIOUS
  <2>2. Upto(f, 0)
    OBVIOUS
  <2> HIDE DEF f, Upto
  <2>3. Some(0)
    BY <2>1, <2>2
  <2> HIDE DEF Some
  <2> QED BY <2>3
<1>2. ASSUME NEW m \in Nat, m \in P PROVE m + 1 \in P
  <2>1. PICK f : f = [k \in 0..m |-> f[k]] /\ Upto(f, m)
    <3> HIDE DEF Upto
    <3> QED BY <1>2
  <2> DEFINE v == Val(f, m + 1)
             g == [k \in 0..m + 1 |-> IF k = m + 1 THEN v ELSE f[k]]
  <2> HIDE DEF v
  <2>2. g = [k \in 0..m + 1 |-> g[k]]
    OBVIOUS
  <2>3. g[m + 1] = v /\ \A k \in 0..m : g[k] = f[k]
    OBVIOUS
  <2> HIDE DEF g
  <2>4. ASSUME NEW k \in 0..m + 1 PROVE g[k] = Val(g, k)
    <3>1. CASE k = 0
      <4>1. 0 \in 0..m
        OBVIOUS
      <4>2. g[0] = f[0] /\ f[0] = 0
        BY <2>1, <2>3, <4>1
      <4> QED BY <3>1, <4>2
    <3>2. CASE k \in 1..m
      <4>1. k - 1 \in 0..m /\ k \in 0..m /\ k # 0
        BY <3>2
      <4>2. g[k] = f[k] /\ g[k - 1] = f[k - 1] /\ f[k] = f[k - 1] + ChangesOf[plan[k]]
        BY <2>1, <2>3, <4>1
      <4> QED BY <4>1, <4>2
    <3>3. CASE k = m + 1
      <4>1. (m + 1) - 1 \in 0..m /\ m + 1 # 0
        OBVIOUS
      <4>2. g[(m + 1) - 1] = f[(m + 1) - 1]
        BY <2>3, <4>1
      <4>3. g[m + 1] = f[(m + 1) - 1] + ChangesOf[plan[m + 1]]
        BY <2>3, <4>1 DEF v
      <4> QED BY <3>3, <4>1, <4>2, <4>3
    <3> QED BY <3>1, <3>2, <3>3
  <2>5. Upto(g, m + 1)
    BY <2>4
  <2> HIDE DEF Upto
  <2>6. Some(m + 1)
    BY <2>2, <2>5
  <2> HIDE DEF Some
  <2> QED BY <2>6
<1>3. n \in Nat
  OBVIOUS
<1>4. \E f : D(f)
  <2> HIDE DEF P
  <2>1. n \in P
    BY <1>1, <1>2, <1>3, Induction
  <2>2. PICK f : f = [k \in 0..n |-> f[k]] /\ Upto(f, n)
    <3> HIDE DEF Upto
    <3> QED BY <2>1 DEF P
  <2>3. [k \in 0..n |-> f[k]] = [k \in 0..n |-> Val(f, k)]
    <3>1. \A k \in 0..n : f[k] = Val(f, k)
      BY <2>2
    <3> HIDE DEF Val
    <3> QED BY <3>1, Zenon
  <2> QED BY <2>2, <2>3
<1>5. PICK u : D(u) /\ u = CHOOSE f : D(f)
  <2> HIDE DEF D
  <2> QED BY <1>4
<1>6. \A g : ChangesUpTo(plan, g) = u[g]
  <2>1. \A g : ChangesUpTo(plan, g) = (CHOOSE f : D(f))[g]
    BY Zenon DEF ChangesUpTo
  <2> HIDE DEF D
  <2> QED BY <1>5, <2>1
<1>7. \A k \in 0..n : u[k] = Val(u, k)
  BY <1>5, Zenon
<1>8. u[0] = 0
  BY <1>3, <1>7
<1>9. \A g \in 1..n : u[g] = u[g - 1] + ChangesOf[plan[g]]
  <2> SUFFICES ASSUME NEW g \in 1..n PROVE u[g] = u[g - 1] + ChangesOf[plan[g]]
    OBVIOUS
  <2>1. g \in 0..n /\ g # 0
    BY <1>3
  <2> QED BY <1>7, <2>1
<1>10. \A g \in 0..n : u[g] \in Nat
  <2> DEFINE Q == {m \in Nat : m <= n => u[m] \in Nat}
  <2>1. 0 \in Q
    BY <1>8
  <2>2. ASSUME NEW m \in Nat, m \in Q PROVE m + 1 \in Q
    <3> SUFFICES ASSUME m + 1 <= n PROVE u[m + 1] \in Nat
      OBVIOUS
    <3>1. m + 1 \in 1..n /\ (m + 1) - 1 = m /\ m <= n
      BY <1>3
    <3>2. u[m + 1] = u[m] + ChangesOf[plan[m + 1]]
      BY <1>9, <3>1
    <3>3. ChangesOf[plan[m + 1]] \in Nat
      BY <3>1, ConstantFacts
    <3> QED BY <2>2, <3>1, <3>2, <3>3
  <2> HIDE DEF Q
  <2>3. Nat \subseteq Q
    BY <2>1, <2>2, Induction
  <2> QED BY <1>3, <2>3 DEF Q
<1> HIDE DEF D
<1> QED BY <1>6, <1>8, <1>9, <1>10

\* The changes counted are those of the groups that have run.
ChangesInv == Sound => total - start = carry + ChangesUpTo(Plan, group)

LEMMA ChangesInit == Init => ChangesInv
  BY DEF Init, ChangesInv, Sound

LEMMA ChangesStep == IInv /\ ChangesInv /\ [Next]_vars => ChangesInv'
<1> SUFFICES ASSUME IInv, ChangesInv, [Next]_vars, Sound'
             PROVE  (total - start = carry + ChangesUpTo(Plan, group))'
  BY DEF ChangesInv
<1>i. TypeOK /\ CallInv /\ GroupInv /\ PositionInv
  BY DEF IInv
<1>t. total \in Nat /\ start \in Nat /\ carry \in Nat /\ bound \in Binding /\ group \in Nat
  BY <1>i DEF TypeOK, ObjectTypes, StatementTypes, HistoryTypes
<1>p. Plan \in Seq(Binding) /\ Len(Plan) \in Nat
  BY <1>i, PlanFacts
<1>k. ASSUME UNCHANGED <<has_params, params, group, total, start, carry>>, Sound
      PROVE  (total - start = carry + ChangesUpTo(Plan, group))'
  BY <1>k DEF ChangesInv, Plan
<1>1. CASE Create
  <2>1. total' = total /\ start' = total /\ carry' = 0 /\ group' = 0
    BY <1>1 DEF Create, MarkChanges
  <2>2. Plan' = <<NoInput>>
    BY <1>1 DEF Create, Plan, init, Sound
  <2>3. ChangesUpTo(Plan', 0) = 0
    <3>1. <<NoInput>> \in Seq(Binding)
      BY ConstantFacts
    <3> QED BY <2>2, <3>1, ChangesAre
  <2> QED BY <1>t, <2>1, <2>3
<1>2. ASSUME NEW ps \in ParamSeqs, Bind(ps)
      PROVE  (total - start = carry + ChangesUpTo(Plan, group))'
  <2>1. ps \in Seq(Binding)
    BY ConstantFacts, ConstantsAssumption DEF ParamSeqs
  <2>2. start' = total /\ group' = 0 /\ Plan' = ps
    BY <1>2 DEF Bind, MarkChanges, Plan
  <2>3. PendingChanges \in Nat
    BY <1>t, ConstantFacts DEF PendingChanges
  <2>4. total' = total + carry' /\ carry' \in Nat
    BY <1>t, <1>2, <2>3 DEF Bind, sqlVars
  <2>5. ChangesUpTo(ps, 0) = 0
    BY <2>1, ChangesAre
  <2> QED BY <1>t, <2>2, <2>4, <2>5
<1>3. ASSUME NEW n \in FetchSizes, FetchBegin(n)
      PROVE  (total - start = carry + ChangesUpTo(Plan, group))'
  BY <1>3, <1>k DEF FetchBegin, objVars, sqlVars, histVars, Sound
<1>4. CASE StepRow
  BY <1>4, <1>k DEF StepRow, objVars, histVars, Sound
<1>5. CASE StepDone
  <2>1. /\ pc = "step" /\ Sound /\ Plan' = Plan /\ start' = start /\ carry' = carry
        /\ total' = total + ChangesOf[bound] /\ group' = group + 1
    BY <1>5 DEF StepDone, NextGroup, Sound, Plan
  <2>2. group < Len(Plan) /\ bound = Plan[group + 1]
    BY <1>i, <2>1, StepFacts
  <2>3. group + 1 \in 1..Len(Plan) /\ (group + 1) - 1 = group /\ group \in 0..Len(Plan)
    BY <1>t, <1>p, <2>2
  <2>4. ChangesUpTo(Plan, group + 1) = ChangesUpTo(Plan, group) + ChangesOf[bound]
    BY <1>p, <2>2, <2>3, ChangesAre
  <2>5. ChangesUpTo(Plan, group) \in Nat /\ ChangesOf[bound] \in Nat
    BY <1>t, <1>p, <2>3, ChangesAre, ConstantFacts
  <2>6. total - start = carry + ChangesUpTo(Plan, group)
    BY <2>1 DEF ChangesInv
  <2> QED BY <1>t, <2>1, <2>4, <2>5, <2>6
<1>6. CASE StepError
  BY <1>6 DEF StepError, Sound
<1>7. CASE FetchCopy
  BY <1>7, <1>k DEF FetchCopy, objVars, sqlVars, Sound
<1>8. CASE FetchAdvance
  BY <1>8, <1>k DEF FetchAdvance, sqlVars, Sound
<1>9. CASE FetchInterrupt
  BY <1>9, <1>k DEF FetchInterrupt, sqlVars, Sound
<1>10. CASE FetchEnd
  BY <1>10, <1>k DEF FetchEnd, objVars, sqlVars, Sound
<1>11. CASE Clear
  BY <1>11 DEF Clear, Sound
<1>12. CASE UNCHANGED vars
  BY <1>12, <1>k DEF vars, objVars, sqlVars, histVars, Sound
<1> QED
  BY <1>1, <1>2, <1>3, <1>4, <1>5, <1>6, <1>7, <1>8, <1>9, <1>10, <1>11, <1>12
  DEF Next, Internal

\* dbGetRowsAffected() counts the changes of this bind's executions.
THEOREM ChangesAreCounted == Spec => []RowsAffected
<1>1. ChangesInv => RowsAffected
  BY DEF ChangesInv, RowsAffected
<1>2. IInv /\ ChangesInv /\ [Next]_vars => ChangesInv'
  BY ChangesStep
<1> QED BY Invariant, ChangesInit, <1>1, <1>2, PTL DEF Spec


----------------------------------------------------------------------------
(* The rows of a plan, one after the other *)

\* A part of a sequence that begins within it or just after it.
LEMMA PartIs ==
  ASSUME NEW S, NEW s \in Seq(S), NEW m \in Nat, NEW n \in Nat, m <= n, n <= Len(s)
  PROVE  /\ SubSeq(s, m + 1, n) \in Seq(S) /\ Len(SubSeq(s, m + 1, n)) = n - m
         /\ \A j \in 1..n - m : SubSeq(s, m + 1, n)[j] = s[m + j]
<1> DEFINE t == SubSeq(s, m + 1, n)
<1>1. Len(s) \in Nat /\ \A j \in m + 1..n : s[j] \in S
  OBVIOUS
<1>2. /\ t \in Seq(S) /\ Len(t) = IF m + 1 <= n THEN n - (m + 1) + 1 ELSE 0
      /\ \A j \in 1..n - (m + 1) + 1 : t[j] = s[(m + 1) + j - 1]
  BY <1>1, SubSeqProperties
<1>3. \A j \in 1..n - m : (m + 1) + j - 1 = m + j
  OBVIOUS
<1>4. n - (m + 1) + 1 = n - m /\ (m + 1 <= n \/ n - m = 0)
  OBVIOUS
<1> HIDE DEF t
<1>5. Len(t) = n - m
  BY <1>2, <1>4
<1>6. \A j \in 1..n - m : t[j] = s[m + j]
  BY <1>2, <1>3, <1>4
<1> QED BY <1>2, <1>5, <1>6 DEF t

\* Where the rows of each group are: o[g] rows come before those of group g.
RowsAt(plan, o) ==
  /\ o \in [1..Len(plan) + 1 -> Nat] /\ o[1] = 0
  /\ \A g \in 1..Len(plan) : o[g + 1] = o[g] + RowsOf[plan[g]]
  /\ AllRows(plan) \in Seq(Nat \X Nat) /\ Len(AllRows(plan)) = o[Len(plan) + 1]
  /\ \A g \in 1..Len(plan), k \in Nat :
       k \in 1..RowsOf[plan[g]] => /\ o[g] + k \in 1..Len(AllRows(plan))
                                   /\ AllRows(plan)[o[g] + k] = <<g, k>>
  /\ \A j \in 1..Len(AllRows(plan)) :
       \E g \in 1..Len(plan), k \in Nat : k \in 1..RowsOf[plan[g]] /\ j = o[g] + k

LEMMA RowsHavePlaces ==
  ASSUME NEW plan \in Seq(Binding)
  PROVE  \E o : RowsAt(plan, o)
<1> DEFINE n == Len(plan)
           R(g) == [k \in 1..RowsOf[plan[g]] |-> <<g, k>>]
           G == [g \in 1..n |-> R(g)]
<1>1. n \in Nat /\ DOMAIN plan = 1..n /\ \A g \in 1..n : RowsOf[plan[g]] \in Nat
  BY ConstantFacts
<1>2. \A g \in 1..n : /\ G[g] \in Seq(Nat \X Nat) /\ Len(G[g]) = RowsOf[plan[g]]
                      /\ \A k \in 1..RowsOf[plan[g]] : G[g][k] = <<g, k>>
  <2> SUFFICES ASSUME NEW g \in 1..n
               PROVE  /\ G[g] \in Seq(Nat \X Nat) /\ Len(G[g]) = RowsOf[plan[g]]
                      /\ \A k \in 1..RowsOf[plan[g]] : G[g][k] = <<g, k>>
    OBVIOUS
  <2>1. G[g] = R(g)
    OBVIOUS
  <2>2. PICK m \in Nat : m = RowsOf[plan[g]]
    BY <1>1
  <2>3. R(g) = [k \in 1..m |-> <<g, k>>]
    BY <2>2
  <2>4. \A k \in 1..m : <<g, k>> \in Nat \X Nat
    BY <1>1
  <2>5. R(g) \in Seq(Nat \X Nat) /\ Len(R(g)) = m /\ \A k \in 1..m : R(g)[k] = <<g, k>>
    <3> HIDE DEF R
    <3> QED BY <2>3, <2>4
  <2> HIDE DEF G, R
  <2> QED BY <2>1, <2>2, <2>5
<1>3. G \in Seq(Seq(Nat \X Nat)) /\ Len(G) = n
  <2>1. G = [g \in 1..n |-> G[g]]
    OBVIOUS
  <2> HIDE DEF G
  <2> QED BY <1>1, <1>2, <2>1
<1>4. AllRows(plan) = FlattenSeq(G)
  BY <1>1 DEF AllRows
<1> HIDE DEF G
<1>5. PICK o \in [1..n + 1 -> Nat] : IsOffsets(o, G)
  BY <1>3, OffsetsExist
<1>6. FlattenSeq(G) \in Seq(Nat \X Nat) /\ InPlace(FlattenSeq(G), o, G)
  BY <1>3, <1>5, FlattenPlaces
<1> DEFINE A == AllRows(plan)
<1>7. A \in Seq(Nat \X Nat) /\ Len(A) = o[n + 1]
  BY <1>3, <1>4, <1>6 DEF InPlace
<1>8. o[1] = 0 /\ \A g \in 1..n : o[g + 1] = o[g] + RowsOf[plan[g]]
  BY <1>2, <1>3, <1>5 DEF IsOffsets
<1>9. ASSUME NEW g \in 1..n, NEW k \in Nat, k \in 1..RowsOf[plan[g]]
      PROVE  o[g] + k \in 1..Len(A) /\ A[o[g] + k] = <<g, k>>
  <2>1. k \in 1..Len(G[g]) /\ g \in 1..Len(G)
    BY <1>2, <1>3, <1>9
  <2>2. o[g] + k \in 1..Len(A) /\ A[o[g] + k] = G[g][k]
    <3>1. \A h \in 1..Len(G), x \in Nat : x \in 1..Len(G[h]) =>
            o[h] + x \in 1..Len(FlattenSeq(G)) /\ FlattenSeq(G)[o[h] + x] = G[h][x]
      BY <1>6 DEF InPlace
    <3>2. \A h \in 1..Len(G), x \in Nat : x \in 1..Len(G[h]) =>
            o[h] + x \in 1..Len(A) /\ A[o[h] + x] = G[h][x]
      BY <1>4, <3>1, Zenon
    <3> HIDE DEF A
    <3> QED BY <2>1, <3>2
  <2> HIDE DEF A
  <2> QED BY <1>2, <1>9, <2>2
<1>10. ASSUME NEW j \in 1..Len(A)
       PROVE  \E g \in 1..n, k \in Nat : k \in 1..RowsOf[plan[g]] /\ j = o[g] + k
  <2>1. PICK g \in 1..Len(G), k \in Nat : k \in 1..Len(G[g]) /\ j = o[g] + k
    BY <1>4, <1>6, <1>10 DEF InPlace
  <2> QED BY <1>2, <1>3, <2>1
<1> HIDE DEF A
<1>11. RowsAt(plan, o)
  BY <1>5, <1>7, <1>8, <1>9, <1>10 DEF RowsAt, A
<1> QED BY <1>11

\* Groups without rows in between do not move the place.
LEMMA SamePlace ==
  ASSUME NEW n \in Nat, NEW o \in [1..n -> Nat], NEW a \in 1..n, NEW b \in 1..n, a <= b,
         \A g \in a..b - 1 : o[g + 1] = o[g]
  PROVE  o[b] = o[a]
<1> DEFINE P == {m \in Nat : a + m <= b => o[a + m] = o[a]}
<1>1. 0 \in P
  OBVIOUS
<1>2. ASSUME NEW m \in Nat, m \in P PROVE m + 1 \in P
  <2> SUFFICES ASSUME a + (m + 1) <= b PROVE o[a + (m + 1)] = o[a]
    OBVIOUS
  <2>1. a + m \in a..b - 1 /\ (a + m) + 1 = a + (m + 1) /\ a + m <= b
    OBVIOUS
  <2>2. o[(a + m) + 1] = o[a + m]
    BY <2>1
  <2> QED BY <1>2, <2>1, <2>2
<1> HIDE DEF P
<1>3. b - a \in P
  <2>1. b - a \in Nat
    OBVIOUS
  <2> QED BY <1>1, <1>2, <2>1, Induction
<1>4. a + (b - a) = b /\ b - a \in Nat
  OBVIOUS
<1> QED BY <1>3, <1>4 DEF P

\* The row that follows row j in a plan is row j + 1, and there is none after
\* the last.
LEMMA NextRow ==
  ASSUME NEW plan \in Seq(Binding), NEW j \in 0..Len(AllRows(plan)), NEW p,
         p = IF j = 0 THEN Origin ELSE AllRows(plan)[j]
  PROVE  /\ \A q \in Nat \X Nat :
              Follows(plan, p, q) => j + 1 <= Len(AllRows(plan)) /\ AllRows(plan)[j + 1] = q
         /\ Exhausted(plan, p) => j = Len(AllRows(plan))
<1> DEFINE n == Len(plan)
           A == AllRows(plan)
<1>1. n \in Nat /\ DOMAIN plan = 1..n /\ \A g \in 1..n : RowsOf[plan[g]] \in Nat
  BY ConstantFacts
<1>2. PICK o : RowsAt(plan, o)
  BY RowsHavePlaces
<1> HIDE DEF n, A
<1>3. /\ o \in [1..n + 1 -> Nat] /\ o[1] = 0
      /\ \A g \in 1..n : o[g + 1] = o[g] + RowsOf[plan[g]]
      /\ Len(A) = o[n + 1]
  BY <1>2 DEF RowsAt, n, A
<1>4. \A g \in 1..n, k \in Nat :
        k \in 1..RowsOf[plan[g]] => o[g] + k \in 1..Len(A) /\ A[o[g] + k] = <<g, k>>
  BY <1>2 DEF RowsAt, n, A
<1>5. \A g \in 1..n : RowsIn(plan, g) = RowsOf[plan[g]]
  BY <1>1 DEF RowsIn
<1>6. \A g : RowsIn(plan, g) # 0 => g \in 1..n
  BY <1>1 DEF RowsIn
<1>7. PICK g \in 1..n + 1, k \in Nat :
        p = <<g, k>> /\ j = o[g] + k /\ (g = n + 1 => k = 0)
  <2>1. CASE j = 0
    <3>1. p = <<1, 0>> /\ 1 \in 1..n + 1 /\ j = o[1] + 0
      BY <1>1, <1>3, <2>1 DEF Origin
    <3> QED BY <3>1
  <2>2. CASE j # 0
    <3>1. j \in 1..Len(AllRows(plan)) /\ p = AllRows(plan)[j]
      <4>1. Len(AllRows(plan)) \in Nat
        BY <1>2 DEF RowsAt
      <4> QED BY <2>2, <4>1
    <3>2. PICK g \in 1..n, k \in Nat : k \in 1..RowsOf[plan[g]] /\ j = o[g] + k
      BY <1>2, <3>1 DEF RowsAt, n
    <3>3. p = <<g, k>>
      BY <1>4, <3>1, <3>2 DEF A
    <3>4. g \in 1..n + 1 /\ g # n + 1
      BY <1>1
    <3> QED BY <3>2, <3>3, <3>4
  <2> QED BY <2>1, <2>2
<1>8. ASSUME NEW c \in 1..n + 1, g < c, k = RowsIn(plan, g), NoRowsIn(plan, g + 1, c - 1)
      PROVE  o[c] = j
  <2>1. g \in 1..n /\ g + 1 \in 1..n + 1 /\ g + 1 <= c
    BY <1>1, <1>8
  <2>2. o[g + 1] = o[g] + k
    BY <1>3, <1>5, <1>8, <2>1
  <2>3. \A x \in g + 1..c - 1 : o[x + 1] = o[x]
    <3> SUFFICES ASSUME NEW x \in g + 1..c - 1 PROVE o[x + 1] = o[x]
      OBVIOUS
    <3>1. x \in 1..n /\ x \in 1..n + 1
      BY <1>1, <2>1
    <3>2. RowsOf[plan[x]] = 0
      BY <1>5, <1>8, <3>1 DEF NoRowsIn
    <3>3. o[x] \in Nat
      BY <1>3, <3>1
    <3> QED BY <1>3, <3>1, <3>2, <3>3
  <2>4. o[c] = o[g + 1]
    <3>1. n + 1 \in Nat
      BY <1>1
    <3> QED BY <1>3, <2>1, <2>3, <3>1, SamePlace
  <2> QED BY <1>7, <2>2, <2>4
<1>9. ASSUME NEW q \in Nat \X Nat, Follows(plan, p, q)
      PROVE  j + 1 <= Len(A) /\ A[j + 1] = q
  <2>1. PICK x \in Nat, y \in Nat : q = <<x, y>>
    OBVIOUS
  <2>2. x \in 1..n /\ y \in 1..RowsOf[plan[x]] /\ o[x] + y = j + 1
    <3>1. CASE x = g /\ y = k + 1 /\ y <= RowsIn(plan, x)
      <4>1. x \in 1..n
        BY <1>6, <3>1
      <4>2. o[g] \in Nat /\ RowsOf[plan[x]] \in Nat
        BY <1>1, <1>3, <4>1
      <4>3. y <= RowsOf[plan[x]] /\ y = k + 1
        BY <1>5, <3>1, <4>1
      <4>4. y \in 1..RowsOf[plan[x]]
        BY <4>2, <4>3
      <4>5. o[x] + y = j + 1
        <5>1. PICK v \in Nat : v = o[g]
          BY <4>2
        <5>2. o[x] = v
          BY <3>1, <5>1, Zenon
        <5>3. j = v + k
          BY <1>7, <5>1, Zenon
        <5> QED BY <3>1, <5>2, <5>3
      <4> QED BY <4>1, <4>4, <4>5
    <3>2. CASE /\ x > g /\ k = RowsIn(plan, g) /\ NoRowsIn(plan, g + 1, x - 1)
               /\ y = 1 /\ 1 <= RowsIn(plan, x)
      <4>1. x \in 1..n /\ x \in 1..n + 1
        BY <1>1, <1>6, <3>2
      <4>2. o[x] = j
        BY <1>8, <3>2, <4>1
      <4>3. RowsOf[plan[x]] \in Nat /\ 1 <= RowsOf[plan[x]]
        BY <1>1, <1>5, <3>2, <4>1
      <4> QED BY <3>2, <4>1, <4>2, <4>3
    <3>3. q[1] = x /\ q[2] = y /\ p[1] = g /\ p[2] = k
      BY <1>7, <2>1
    <3> QED BY <1>9, <3>1, <3>2, <3>3 DEF Follows
  <2>3. o[x] + y \in 1..Len(A) /\ A[o[x] + y] = <<x, y>>
    BY <1>4, <2>2
  <2>4. Len(A) \in Nat
    BY <1>1, <1>3
  <2> QED BY <2>1, <2>2, <2>3, <2>4
<1>10. ASSUME Exhausted(plan, p) PROVE j = Len(A)
  <2>1. k = RowsIn(plan, g) /\ NoRowsIn(plan, g + 1, n)
    BY <1>7, <1>10 DEF Exhausted, n
  <2>2. CASE g = n + 1
    <3>1. o[n + 1] \in Nat
      BY <1>1, <1>3
    <3> QED BY <1>3, <1>7, <2>2, <3>1
  <2>3. CASE g # n + 1
    <3>1. n + 1 \in 1..n + 1 /\ g < n + 1 /\ (n + 1) - 1 = n
      BY <1>1, <2>3
    <3>2. o[n + 1] = j
      BY <1>8, <2>1, <3>1
    <3> QED BY <1>3, <3>2
  <2> QED BY <2>2, <2>3
<1> QED BY <1>9, <1>10 DEF A

\* The rows copied out are the first rows of the plan.
LEMMA TakenAreFirst ==
  ASSUME TypeOK, RowsInOrder, Sound
  PROVE  /\ AllRows(Plan) \in Seq(Nat \X Nat) /\ Len(taken) <= Len(AllRows(Plan))
         /\ \A j \in 1..Len(taken) : taken[j] = AllRows(Plan)[j]
         /\ Exhausted(Plan, LastTaken) => Len(taken) = Len(AllRows(Plan))
<1> DEFINE A == AllRows(Plan)
           n == Len(taken)
           Q == {m \in Nat : m <= n => m <= Len(A) /\ (m # 0 => taken[m] = A[m])}
<1>1. /\ Plan \in Seq(Binding) /\ n \in Nat /\ taken \in Seq(Nat \X Nat)
      /\ \A j \in 1..n : taken[j] \in Nat \X Nat
  BY PlanFacts DEF TypeOK, HistoryTypes
<1>2. A \in Seq(Nat \X Nat) /\ Len(A) \in Nat
  <2>1. PICK o : RowsAt(Plan, o)
    BY <1>1, RowsHavePlaces
  <2> QED BY <2>1 DEF RowsAt
<1> HIDE DEF A, n
<1>3. 0 \in Q
  BY <1>2
<1>4. ASSUME NEW m \in Nat, m \in Q PROVE m + 1 \in Q
  <2> SUFFICES ASSUME m + 1 <= n PROVE m + 1 <= Len(A) /\ taken[m + 1] = A[m + 1]
    OBVIOUS
  <2>1. m <= Len(A) /\ (m # 0 => taken[m] = A[m])
    BY <1>1, <1>4
  <2>2. m \in 0..Len(A) /\ m + 1 \in 1..n /\ (m + 1) - 1 = m /\ (m + 1 = 1 <=> m = 0)
    BY <1>1, <1>2, <2>1
  <2> DEFINE p == IF m = 0 THEN Origin ELSE A[m]
  <2>3. Follows(Plan, p, taken[m + 1])
    <3>1. Follows(Plan, IF m + 1 = 1 THEN Origin ELSE taken[(m + 1) - 1], taken[m + 1])
      BY <2>2 DEF RowsInOrder, n
    <3>2. p = IF m + 1 = 1 THEN Origin ELSE taken[(m + 1) - 1]
      BY <2>1, <2>2
    <3> HIDE DEF p
    <3> QED BY <3>1, <3>2
  <2>4. taken[m + 1] \in Nat \X Nat
    BY <1>1, <2>2
  <2>5. \A q \in Nat \X Nat : Follows(Plan, p, q) => m + 1 <= Len(A) /\ A[m + 1] = q
    BY <1>1, <2>2, NextRow DEF A
  <2> HIDE DEF p
  <2> QED BY <2>3, <2>4, <2>5
<1> HIDE DEF Q
<1>5. \A m \in Nat : m \in Q
  BY <1>3, <1>4, Induction
<1>6. n <= Len(A) /\ \A j \in 1..n : taken[j] = A[j]
  <2>1. \A m \in Nat : m <= n => m <= Len(A) /\ (m # 0 => taken[m] = A[m])
    BY <1>5 DEF Q
  <2> QED BY <1>1, <2>1
<1>7. ASSUME Exhausted(Plan, LastTaken) PROVE n = Len(A)
  <2>1. LastTaken = IF n = 0 THEN Origin ELSE A[n]
    <3>1. taken = <<>> <=> n = 0
      BY <1>1 DEF n
    <3>2. n # 0 => taken[n] = A[n]
      BY <1>1, <1>6
    <3> QED BY <3>1, <3>2 DEF LastTaken, n
  <2>2. n \in 0..Len(A)
    BY <1>1, <1>2, <1>6
  <2> QED BY <1>1, <1>7, <2>1, <2>2, NextRow DEF A
<1> QED BY <1>2, <1>6, <1>7 DEF A, n


----------------------------------------------------------------------------
(* A result set implements a cursor *)

\* A call that is no fetch returns no rows and loses none; the constructor
\* steps only a statement without placeholders, and none that failed.
RetInv ==
  /\ caller # "fetch" => ret = <<>> /\ ~lost
  /\ caller = "create" /\ pc = "step" => ~has_params /\ ~tainted

LEMMA RetInit == Init => RetInv
  BY DEF Init, RetInv

LEMMA RetStep == IInv /\ RetInv /\ [Next]_vars => RetInv'
<1> SUFFICES ASSUME IInv, RetInv, [Next]_vars PROVE RetInv'
  OBVIOUS
<1>i. pc \in {"copy", "advance"} => caller = "fetch"
  BY DEF IInv, CallInv
<1>f. ASSUME pc \in {"copy", "advance"}, caller' = caller PROVE RetInv'
  BY <1>i, <1>f DEF RetInv
<1>k. ASSUME UNCHANGED <<caller, ret, lost, has_params>>,
             pc' = "step" => pc = "step" /\ tainted' = tainted
      PROVE  RetInv'
  BY <1>k DEF RetInv
<1>1. CASE Create
  BY <1>1 DEF Create, RetInv, init
<1>2. ASSUME NEW ps \in ParamSeqs, Bind(ps) PROVE RetInv'
  <2>1. caller' = "bind" /\ ret' = <<>> /\ lost' = FALSE
    BY <1>2 DEF Bind
  <2> QED BY <2>1 DEF RetInv
<1>3. ASSUME NEW n \in FetchSizes, FetchBegin(n) PROVE RetInv'
  BY <1>3 DEF FetchBegin, RetInv
<1>4. CASE StepRow
  BY <1>4, <1>k DEF StepRow, AfterStep, objVars, histVars
<1>5. CASE StepDone
  <2>1. pc = "step" /\ UNCHANGED <<caller, ret, lost, has_params>>
    BY <1>5 DEF StepDone
  <2>2. pc' = "step" => tainted' = tainted
    BY <1>5 DEF StepDone
  <2> QED BY <2>1, <2>2, <1>k
<1>6. CASE StepError
  <2>1. pc' = "idle" /\ UNCHANGED <<caller, ret, lost, has_params>>
    BY <1>6 DEF StepError, objVars
  <2> QED BY <2>1, <1>k
<1>7. CASE FetchCopy
  BY <1>7, <1>f DEF FetchCopy
<1>8. CASE FetchAdvance
  BY <1>8, <1>f DEF FetchAdvance
<1>9. CASE FetchInterrupt
  BY <1>9, <1>f DEF FetchInterrupt
<1>10. CASE FetchEnd
  BY <1>10, <1>f DEF FetchEnd
<1>11. CASE Clear
  BY <1>11, <1>k DEF Clear, objVars, callVars, histVars
<1>12. CASE UNCHANGED vars
  BY <1>12, <1>k DEF vars, objVars, callVars, histVars
<1> QED
  BY <1>1, <1>2, <1>3, <1>4, <1>5, <1>6, <1>7, <1>8, <1>9, <1>10, <1>11, <1>12
  DEF Next, Internal

\* What the caller has not fetched yet.
Rest(s, d) == SubSeq(s, d + 1, Len(s))
First(s, j) == SubSeq(s, 1, j)
After(s, d, j) == SubSeq(s, d + 1, d + j)
Todo == Rest(AllRows(Plan), delivered)

\* The whole of a sequence, and a window of it seen from a common start.
LEMMA WholeIs == ASSUME NEW S, NEW s \in Seq(S) PROVE Rest(s, 0) = s
<1>1. Len(s) \in Nat /\ 0 \in Nat /\ 0 <= Len(s) /\ Len(s) <= Len(s)
  OBVIOUS
<1> DEFINE t == SubSeq(s, 0 + 1, Len(s))
<1>2. /\ t \in Seq(S) /\ Len(t) = Len(s) - 0
      /\ \A j \in 1..Len(s) - 0 : t[j] = s[0 + j]
  BY <1>1, PartIs, Zenon
<1> HIDE DEF t
<1>3. Len(t) = Len(s) /\ \A j \in 1..Len(t) : t[j] = s[j]
  BY <1>1, <1>2
<1>4. t = s
  BY <1>2, <1>3, SeqEqual
<1> QED BY <1>4 DEF t, Rest

LEMMA Windows ==
  ASSUME NEW S, NEW all \in Seq(S), NEW some \in Seq(S), NEW d \in Nat, NEW j \in Nat,
         d + j <= Len(some), d + j <= Len(all), \A x \in 1..d + j : some[x] = all[x]
  PROVE  /\ After(some, d, j) = First(Rest(all, d), j)
         /\ Rest(all, d + j) = Rest(Rest(all, d), j)
<1> DEFINE n == Len(all)
           e == d + j
           r == SubSeq(all, d + 1, n)
           u == SubSeq(some, d + 1, e)
           t == SubSeq(r, 0 + 1, j)
           v == SubSeq(all, (d + j) + 1, n)
           w == SubSeq(r, j + 1, Len(r))
<1>1. n \in Nat /\ e \in Nat /\ d <= n /\ d + j <= n /\ d <= e /\ n <= n
  OBVIOUS
<1>2. r \in Seq(S) /\ Len(r) = n - d /\ \A x \in 1..n - d : r[x] = all[d + x]
  BY <1>1, PartIs, Zenon DEF n
<1>3. e <= Len(some)
  BY <1>1
<1>4. u \in Seq(S) /\ Len(u) = j /\ \A x \in 1..j : u[x] = some[d + x]
  <2>1. e - d = j
    OBVIOUS
  <2> HIDE DEF e
  <2>2. u \in Seq(S) /\ Len(u) = e - d /\ \A x \in 1..e - d : u[x] = some[d + x]
    BY <1>1, <1>3, PartIs
  <2> HIDE DEF u
  <2> QED BY <2>1, <2>2
<1>5. v \in Seq(S) /\ Len(v) = n - (d + j) /\ \A x \in 1..n - (d + j) : v[x] = all[(d + j) + x]
  BY <1>1, PartIs, Zenon DEF n, e
<1> HIDE DEF n, r, u, v
<1>r. r \in Seq(S)
  BY <1>2
<1>6. Len(r) \in Nat /\ j <= Len(r) /\ Len(r) <= Len(r) /\ 0 \in Nat /\ 0 <= j
  BY <1>1, <1>2
<1>7. t \in Seq(S) /\ Len(t) = j - 0 /\ \A x \in 1..j - 0 : t[x] = r[0 + x]
  BY <1>6, <1>r, PartIs
<1>8. w \in Seq(S) /\ Len(w) = Len(r) - j /\ \A x \in 1..Len(r) - j : w[x] = r[j + x]
  BY <1>6, <1>r, PartIs
<1> HIDE DEF t, w
<1>9. u = t
  <2>1. Len(u) = j /\ Len(t) = j
    BY <1>4, <1>7
  <2>2. ASSUME NEW x \in 1..j PROVE u[x] = t[x]
    <3>1. u[x] = some[d + x] /\ t[x] = r[x]
      BY <1>4, <1>7
    <3>2. r[x] = all[d + x]
      BY <1>1, <1>2
    <3>3. some[d + x] = all[d + x]
      BY <1>1
    <3> QED BY <3>1, <3>2, <3>3
  <2> QED BY <1>4, <1>7, <2>1, <2>2, SeqEqual
<1>10. v = w
  <2>1. Len(v) = Len(w) /\ Len(v) = n - (d + j) /\ n - (d + j) = Len(r) - j
    BY <1>1, <1>2, <1>5, <1>8
  <2>2. ASSUME NEW x \in 1..Len(v) PROVE v[x] = w[x]
    <3>1. w[x] = r[j + x]
      BY <1>8, <2>1, <2>2
    <3>2. v[x] = all[(d + j) + x]
      BY <1>5, <2>1, <2>2
    <3>3. j + x \in 1..n - d /\ d + (j + x) = (d + j) + x
      BY <1>1, <2>1, <2>2
    <3>4. r[j + x] = all[(d + j) + x]
      BY <1>2, <3>3
    <3> QED BY <3>1, <3>2, <3>4
  <2> QED BY <1>5, <1>8, <2>1, <2>2, SeqEqual
<1>11. 0 + 1 = 1
  OBVIOUS
<1>12. SubSeq(r, 1, j) = u
  BY <1>9, <1>11, Zenon DEF t
<1> QED BY <1>10, <1>12, Zenon DEF Rest, First, After, n, e, r, u, v, w

\* The same of rows, in the form an instance is taken from.
Rows == Seq(Nat \X Nat)

LEMMA RowWindows ==
  ASSUME NEW all \in Rows, NEW some \in Rows, NEW d \in Nat, NEW j \in Nat,
         d + j <= Len(some), d + j <= Len(all), \A x \in 1..d + j : some[x] = all[x]
  PROVE  /\ After(some, d, j) = First(Rest(all, d), j)
         /\ Rest(all, d + j) = Rest(Rest(all, d), j)
<1> DEFINE Row == Nat \X Nat
<1>1. all \in Seq(Row) /\ some \in Seq(Row)
  BY DEF Rows
<1> HIDE DEF Row
<1>2. After(some, d, j) = First(Rest(all, d), j)
  BY <1>1, Windows
<1>3. Rest(all, d + j) = Rest(Rest(all, d), j)
  BY <1>1, Windows
<1> QED BY <1>2, <1>3

\* In a bound result set the rows copied out begin the rows of the plan.
LEMMA BoundFacts ==
  ASSUME IInv, IsBound
  PROVE  /\ Sound /\ ~lost /\ delivered \in Nat
         /\ taken \in Seq(Nat \X Nat) /\ AllRows(Plan) \in Seq(Nat \X Nat)
         /\ Len(taken) <= Len(AllRows(Plan))
         /\ \A j \in 1..Len(taken) : taken[j] = AllRows(Plan)[j]
<1>1. Sound /\ ~lost
  BY DEF IsBound, CursorMode, Sound
<1>2. TypeOK /\ RowsInOrder
  BY DEF IInv
<1>3. delivered \in Nat /\ taken \in Seq(Nat \X Nat)
  BY <1>2 DEF TypeOK, HistoryTypes
<1> QED BY <1>1, <1>2, <1>3, TakenAreFirst

\* A step that changes nothing the caller can see.
LEMMA Unseen ==
  ASSUME CursorMode' = CursorMode,
         IsBound => UNCHANGED <<has_params, params, delivered, ret>>
  PROVE  UNCHANGED C!cursorVars
<1>1. IsBound' <=> IsBound
  BY DEF IsBound
<1>2. CASE IsBound
  <2>1. Plan' = Plan /\ delivered' = delivered /\ ret' = ret
    BY <1>2 DEF Plan
  <2>2. AllRows(Plan)' = AllRows(Plan)
    <3>1. AllRows(Plan)' = AllRows(Plan')
      OBVIOUS
    <3> QED BY <2>1, <3>1, Zenon
  <2>3. Todo' = Todo
    BY <2>1, <2>2 DEF Todo
  <2> QED BY <1>1, <1>2, <2>1, <2>3 DEF C!cursorVars, Todo, Rest
<1>3. CASE ~IsBound
  BY <1>1, <1>3 DEF C!cursorVars
<1> QED BY <1>2, <1>3

\* A failure and a release are those of a cursor.
LEMMA Fails == CursorMode' = "broken" => C!Break
  BY DEF C!Break, IsBound
LEMMA Closes == CursorMode' = "closed" => C!Close
  BY DEF C!Close, IsBound

\* A bind makes all rows of its plan available.
LEMMA Binds ==
  ASSUME CursorMode' = "bound", NEW ps \in ParamSeqs \cup {<<NoInput>>}, Plan' = ps,
         delivered' = 0, ret' = <<>>
  PROVE  C!Bind
<1>1. IsBound'
  BY DEF IsBound
<1>2. ps \in Seq(Binding)
  <2>1. CASE ps = <<NoInput>>
    BY <2>1, ConstantFacts
  <2>2. CASE ps \in ParamSeqs
    BY <2>2, ConstantFacts, ConstantsAssumption DEF ParamSeqs
  <2> QED BY <2>1, <2>2
<1> DEFINE A == AllRows(ps)
<1>3. A \in Seq(Nat \X Nat)
  <2>1. PICK o : RowsAt(ps, o)
    BY <1>2, RowsHavePlaces
  <2> QED BY <2>1 DEF RowsAt
<1>4. Rest(A, 0) = A
  BY <1>3, WholeIs
<1>5. Todo' = A
  BY <1>4 DEF Todo
<1>6. A \in {AllRows(q) : q \in ParamSeqs \cup {<<NoInput>>}}
  OBVIOUS
<1> HIDE DEF A
<1> QED BY <1>1, <1>5, <1>6 DEF C!Bind, Todo, Rest

\* A fetch that returns j rows hands over the next j rows.
LEMMA Fetches ==
  ASSUME IInv, IsBound, CursorMode' = CursorMode, UNCHANGED <<has_params, params>>,
         NEW j \in Nat, Len(taken) = delivered + j,
         delivered' = delivered + j, ret' = Frame(j),
         NEW n \in FetchSizes,
         j = IF n < 0 \/ n > Len(Todo) THEN Len(Todo) ELSE n
  PROVE  C!Fetch(n)
<1>1. IsBound' /\ Plan' = Plan
  BY DEF IsBound, Plan
<1> DEFINE A == AllRows(Plan)
<1>2. /\ delivered \in Nat /\ A \in Seq(Nat \X Nat) /\ taken \in Seq(Nat \X Nat)
      /\ Len(taken) <= Len(A) /\ \A x \in 1..Len(taken) : taken[x] = A[x]
  BY BoundFacts
<1>3. Todo = Rest(A, delivered)
  BY DEF Todo
<1>4. Todo' = Rest(A, delivered + j)
  BY <1>1 DEF Todo
<1> HIDE DEF A
<1>5. /\ After(taken, delivered, j) = First(Todo, j)
      /\ Rest(A, delivered + j) = Rest(Todo, j)
  <2>1. /\ A \in Rows /\ taken \in Rows /\ delivered \in Nat
        /\ delivered + j <= Len(taken) /\ delivered + j <= Len(A)
        /\ \A x \in 1..delivered + j : taken[x] = A[x]
    <3>1. A \in Rows /\ taken \in Rows /\ delivered \in Nat
      BY <1>2 DEF Rows
    <3>2. Len(taken) \in Nat /\ Len(A) \in Nat
      BY <1>2
    <3>3. delivered + j <= Len(taken) /\ delivered + j <= Len(A)
      BY <1>2, <3>2
    <3>4. \A x \in 1..delivered + j : taken[x] = A[x]
      BY <1>2, Zenon
    <3> QED BY <3>1, <3>3, <3>4, Zenon
  <2>2. PICK all \in Rows, some \in Rows, d \in Nat :
          all = A /\ some = taken /\ d = delivered
    BY <2>1
  <2>3. /\ d + j <= Len(some) /\ d + j <= Len(all)
        /\ \A x \in 1..d + j : some[x] = all[x]
    BY <2>1, <2>2, Zenon
  <2>4. /\ After(some, d, j) = First(Rest(all, d), j)
        /\ Rest(all, d + j) = Rest(Rest(all, d), j)
    BY <2>3, RowWindows
  <2> QED BY <1>3, <2>2, <2>4, Zenon
<1>6. Frame(j) = After(taken, delivered, j)
  <2>1. Len(taken) - j = delivered
    BY <1>2
  <2> QED BY <2>1 DEF Frame, After
<1>7. ret' = First(Todo, j) /\ Todo' = Rest(Todo, j)
  BY <1>4, <1>5, <1>6
<1> QED BY <1>1, <1>7 DEF C!Fetch, IsBound, Todo, Rest, First


\* How many rows are left for the caller.
LEMMA TodoLength ==
  ASSUME IInv, IsBound
  PROVE  /\ Len(Todo) \in Nat /\ Len(Todo) = Len(AllRows(Plan)) - delivered
         /\ Len(taken) - delivered <= Len(Todo)
<1> DEFINE A == AllRows(Plan)
<1>1. /\ Sound /\ ~lost /\ delivered \in Nat /\ A \in Seq(Nat \X Nat)
      /\ Len(taken) \in Nat /\ Len(taken) <= Len(A)
  BY BoundFacts
<1>2. delivered <= Len(taken)
  <2>1. CountInv /\ i \in Nat /\ nrows \in Nat
    BY DEF IInv, TypeOK, CallTypes, ObjectTypes
  <2> QED BY <1>1, <2>1 DEF CountInv
<1> HIDE DEF A
<1>3. Len(A) \in Nat /\ delivered <= Len(A) /\ Len(A) <= Len(A)
  BY <1>1, <1>2
<1>4. Len(SubSeq(A, delivered + 1, Len(A))) = Len(A) - delivered
  <2>1. A \in Seq(Nat \X Nat) /\ delivered \in Nat
    BY <1>1
  <2> QED BY <1>3, <2>1, PartIs
<1>5. Len(Todo) = Len(A) - delivered
  BY <1>4, Zenon DEF Todo, Rest, A
<1> QED BY <1>1, <1>3, <1>5 DEF A

\* The constructor's run to the first row ends in a bound result set.
LEMMA ConstructorReturns ==
  ASSUME IInv, RetInv, caller = "create", pc = "step", pc' = "idle",
         UNCHANGED <<handle, has_params, ready, delivered, tainted, lost, caller, ret>>
  PROVE  C!Bind
<1>1. CallInv /\ CountInv /\ delivered \in Nat /\ nrows \in Nat
  BY DEF IInv, TypeOK, HistoryTypes, ObjectTypes
<1>2. Sound /\ ~lost /\ ret = <<>> /\ ~has_params
  BY <1>1 DEF CallInv, RetInv, Sound
<1>3. delivered = 0
  BY <1>1, <1>2 DEF CountInv, InFetch
<1>4. CursorMode' = "bound"
  BY <1>2 DEF CursorMode, Sound
<1>5. Plan' = <<NoInput>>
  BY <1>2 DEF Plan
<1> QED BY <1>2, <1>3, <1>4, <1>5, Binds

\* A full frame is what was asked for.
LEMMA FullFetch ==
  ASSUME IInv, IsBound, FetchAdvance, Full(i + 1)
  PROVE  C!Fetch(n_max)
<1>1. TypeOK /\ CallInv /\ CountInv
  BY DEF IInv
<1>2. /\ i \in Nat /\ delivered \in Nat /\ nrows \in Nat /\ Len(taken) \in Nat
      /\ FetchSizes \subseteq Int
  BY <1>1, PlanFacts, ConstantFacts DEF TypeOK, CallTypes, HistoryTypes, ObjectTypes
<1>3. Sound /\ ~lost
  BY BoundFacts
<1>4. pc = "advance" /\ InFetch
  BY <1>1 DEF FetchAdvance, CallInv, InFetch
<1>5. Len(taken) = delivered + (i + 1)
  BY <1>1, <1>2, <1>3, <1>4 DEF CountInv
<1>6. n_max \in FetchSizes /\ n_max \in Int /\ n_max = i + 1
  <2>1. n_max \in FetchSizes /\ (n_max >= 0 => i < n_max)
    BY <1>1, <1>4 DEF CallInv
  <2>2. n_max >= 0 /\ i + 1 >= n_max
    BY DEF Full
  <2>3. n_max \in Int
    BY <1>2, <2>1
  <2> QED BY <1>2, <2>1, <2>2, <2>3
<1>7. i + 1 = IF n_max < 0 \/ n_max > Len(Todo) THEN Len(Todo) ELSE n_max
  BY <1>2, <1>5, <1>6, TodoLength
<1>8. /\ delivered' = delivered + (i + 1) /\ ret' = Frame(i + 1)
      /\ UNCHANGED <<has_params, params, handle, ready, caller, tainted, lost>>
      /\ pc' = "idle"
  BY <1>2 DEF FetchAdvance
<1>9. CursorMode' = CursorMode
  BY <1>4, <1>8 DEF CursorMode
<1>10. i + 1 \in Nat
  BY <1>2
<1> QED BY <1>5, <1>6, <1>7, <1>8, <1>9, <1>10, Fetches

\* A frame that is not full holds all the rows there were.
LEMMA LastFetch ==
  ASSUME IInv, IsBound, FetchEnd
  PROVE  C!Fetch(n_max)
<1>1. TypeOK /\ CallInv /\ CountInv /\ PositionInv /\ RowsInOrder
  BY DEF IInv
<1>2. /\ i \in Nat /\ delivered \in Nat /\ nrows \in Nat /\ Len(taken) \in Nat
      /\ FetchSizes \subseteq Int
  BY <1>1, PlanFacts, ConstantFacts DEF TypeOK, CallTypes, HistoryTypes, ObjectTypes
<1>3. Sound /\ ~lost
  BY BoundFacts
<1>4. pc = "copy" /\ complete /\ caller = "fetch" /\ ~InFetch
  BY <1>1 DEF FetchEnd, CallInv, InFetch
<1>5. Len(taken) = delivered + i
  BY <1>1, <1>2, <1>3, <1>4 DEF CountInv
<1>6. n_max \in FetchSizes /\ n_max \in Int /\ (n_max >= 0 => i < n_max)
  BY <1>1, <1>2, <1>4 DEF CallInv
<1>7. Len(taken) = Len(AllRows(Plan))
  <2>1. Exhausted(Plan, LastTaken)
    BY <1>1, <1>3, <1>4 DEF PositionInv
  <2> QED BY <1>1, <1>3, <2>1, TakenAreFirst
<1>8. i = Len(Todo)
  BY <1>2, <1>5, <1>7, TodoLength
<1>9. i = IF n_max < 0 \/ n_max > Len(Todo) THEN Len(Todo) ELSE n_max
  BY <1>2, <1>6, <1>8
<1>10. /\ delivered' = delivered + i /\ ret' = Frame(i)
       /\ UNCHANGED <<has_params, params, handle, ready, caller, tainted, lost>>
       /\ pc' = "idle"
  BY DEF FetchEnd, objVars
<1>11. CursorMode' = CursorMode
  BY <1>4, <1>10 DEF CursorMode
<1> QED BY <1>2, <1>5, <1>6, <1>9, <1>10, <1>11, Fetches

LEMMA CursorInit == Init => C!Init
  BY DEF Init, C!Init, IsBound, CursorMode

LEMMA CursorStep == IInv /\ RetInv /\ [Next]_vars => [C!Next]_(C!cursorVars)
<1> SUFFICES ASSUME IInv, RetInv, [Next]_vars PROVE C!Next \/ UNCHANGED C!cursorVars
  OBVIOUS
<1>i. CallInv
  BY DEF IInv
<1>k. ASSUME UNCHANGED <<handle, ready, caller, tainted, lost, has_params, params,
                         delivered, ret>>,
             pc' = pc \/ caller # "create"
      PROVE  UNCHANGED C!cursorVars
  <2>1. CursorMode' = CursorMode
    BY <1>k DEF CursorMode
  <2> QED BY <1>k, <2>1, Unseen
<1>1. CASE Create
  <2>1. CASE has_params'
    <3>1. /\ handle = "none" /\ handle' = "open" /\ pc' = "idle" /\ ready' = FALSE
          /\ tainted' = FALSE /\ lost' = FALSE
      BY <1>1, <2>1 DEF Create
    <3>2. CursorMode = "closed" /\ CursorMode' = "unbound" /\ ~IsBound'
      BY <3>1 DEF CursorMode, IsBound
    <3> QED BY <3>2 DEF C!Next, C!Bind
  <2>2. CASE ~has_params'
    <3>1. caller' = "create" /\ pc' = "step"
      BY <1>1, <2>2 DEF Create
    <3>2. CursorMode' = "closed"
      BY <3>1 DEF CursorMode
    <3> QED BY <3>2, Closes DEF C!Next
  <2> QED BY <2>1, <2>2
<1>2. ASSUME NEW ps \in ParamSeqs, Bind(ps) PROVE C!Next
  <2>1. /\ handle' = "open" /\ caller' = "bind" /\ Plan' = ps /\ delivered' = 0
        /\ ret' = <<>> /\ lost' = FALSE
    BY <1>2 DEF Bind, Plan
  <2>2. tainted' = TRUE \/ (tainted' = FALSE /\ ready' = TRUE)
    BY <1>2 DEF Bind, init
  <2>3. CASE tainted' = TRUE
    <3>1. CursorMode' = "broken"
      BY <2>1, <2>3 DEF CursorMode
    <3> QED BY <3>1, Fails DEF C!Next
  <2>4. CASE tainted' = FALSE /\ ready' = TRUE
    <3>1. CursorMode' = "bound"
      BY <2>1, <2>4 DEF CursorMode
    <3> QED BY <2>1, <3>1, Binds DEF C!Next
  <2> QED BY <2>2, <2>3, <2>4
<1>3. ASSUME NEW n \in FetchSizes, FetchBegin(n) PROVE UNCHANGED C!cursorVars
  <2>1. /\ pc = "idle" /\ caller' = "fetch"
        /\ UNCHANGED <<handle, ready, tainted, lost, has_params, params, delivered, ret>>
    BY <1>3 DEF FetchBegin, objVars, histVars
  <2>2. CursorMode' = CursorMode
    BY <2>1 DEF CursorMode
  <2> QED BY <2>1, <2>2, Unseen
<1>4. CASE StepRow
  <2>1. /\ pc = "step" /\ pc' = AfterStep
        /\ UNCHANGED <<handle, ready, caller, tainted, lost, has_params, params,
                       delivered, ret>>
    BY <1>4 DEF StepRow, objVars, histVars
  <2>2. CASE caller = "create"
    BY <2>1, <2>2, ConstructorReturns DEF AfterStep, C!Next
  <2>3. CASE caller # "create"
    BY <1>k, <2>1, <2>3
  <2> QED BY <2>2, <2>3
<1>5. CASE StepDone
  <2>1. /\ pc = "step" /\ handle = "open"
        /\ UNCHANGED <<handle, ready, caller, lost, has_params, params, delivered, ret>>
    BY <1>5, <1>i DEF StepDone, CallInv
  <2>2. \/ tainted' = tainted /\ pc' = AfterStep
        \/ tainted' = TRUE /\ pc' = "idle"
        \/ tainted' = tainted /\ pc' = pc
    BY <1>5 DEF StepDone
  <2>3. CASE tainted' = tainted /\ pc' = AfterStep /\ caller = "create"
    BY <2>1, <2>3, ConstructorReturns DEF AfterStep, C!Next
  <2>4. CASE tainted' = tainted /\ (pc' = pc \/ caller # "create")
    BY <1>k, <2>1, <2>4
  <2>5. CASE tainted' = TRUE /\ pc' = "idle"
    <3>1. CursorMode' = "broken"
      BY <2>1, <2>5 DEF CursorMode
    <3> QED BY <3>1, Fails DEF C!Next
  <2> QED BY <2>2, <2>3, <2>4, <2>5
<1>6. CASE StepError
  <2>1. /\ pc = "step" /\ pc' = "idle" /\ tainted' = TRUE /\ handle = "open"
        /\ handle' = IF caller = "create" THEN "none" ELSE handle
    BY <1>6, <1>i DEF StepError, CallInv
  <2>2. CursorMode' = "closed" \/ CursorMode' = "broken"
    BY <2>1 DEF CursorMode
  <2> QED BY <2>2, Closes, Fails DEF C!Next
<1>7. CASE FetchCopy
  <2>1. /\ caller = "fetch"
        /\ UNCHANGED <<handle, ready, caller, tainted, lost, has_params, params,
                       delivered, ret>>
    BY <1>7, <1>i DEF FetchCopy, CallInv, objVars
  <2> QED BY <1>k, <2>1
<1>8. CASE FetchAdvance
  <2>1. /\ caller = "fetch" /\ UNCHANGED <<handle, ready, caller, tainted, lost,
                                           has_params, params>>
    BY <1>8, <1>i DEF FetchAdvance, CallInv
  <2>2. \/ UNCHANGED <<ret, delivered>>
        \/ Full(i + 1)
    BY <1>8 DEF FetchAdvance
  <2>3. CASE UNCHANGED <<ret, delivered>>
    BY <1>k, <2>1, <2>3
  <2>4. CASE Full(i + 1) /\ IsBound
    <3>1. n_max \in FetchSizes
      BY <1>8, <1>i DEF FetchAdvance, CallInv, InFetch
    <3> QED BY <1>8, <2>4, <3>1, FullFetch DEF C!Next
  <2>5. CASE ~IsBound
    <3>1. CursorMode' = CursorMode
      BY <2>1 DEF CursorMode
    <3> QED BY <2>5, <3>1, Unseen
  <2> QED BY <2>2, <2>3, <2>4, <2>5
<1>9. CASE FetchInterrupt
  <2>1. handle' = "open" /\ caller' = "fetch" /\ lost' = TRUE
    BY <1>9, <1>i DEF FetchInterrupt, CallInv
  <2>2. CursorMode' = "broken"
    BY <2>1 DEF CursorMode
  <2> QED BY <2>2, Fails DEF C!Next
<1>10. CASE FetchEnd
  <2>1. /\ caller = "fetch" /\ n_max \in FetchSizes
        /\ UNCHANGED <<handle, ready, caller, tainted, lost>>
    BY <1>10, <1>i DEF FetchEnd, CallInv, objVars
  <2>2. CASE IsBound
    BY <1>10, <2>1, <2>2, LastFetch DEF C!Next
  <2>3. CASE ~IsBound
    <3>1. CursorMode' = CursorMode
      BY <2>1 DEF CursorMode
    <3> QED BY <2>3, <3>1, Unseen
  <2> QED BY <2>2, <2>3
<1>11. CASE Clear
  <2>1. CursorMode' = "closed"
    BY <1>11 DEF Clear, CursorMode
  <2> QED BY <2>1, Closes DEF C!Next
<1>12. CASE UNCHANGED vars
  BY <1>12, <1>k DEF vars, objVars, callVars, histVars
<1> QED
  BY <1>1, <1>2, <1>3, <1>4, <1>5, <1>6, <1>7, <1>8, <1>9, <1>10, <1>11, <1>12
  DEF Next, Internal

\* Seen from its caller, a result set is a queue of rows: every dbFetch(n) that
\* returns hands over exactly the next n rows of the executions bound, whatever
\* the steps behind it, and the rest stays for the next call.
THEOREM CursorRefined == Spec => RefinesCursor
<1>1. IInv /\ RetInv /\ [Next]_vars => RetInv'
  BY RetStep
<1>2. IInv /\ RetInv /\ [Next]_vars => [C!Next]_(C!cursorVars)
  BY CursorStep
<1> QED BY Invariant, RetInit, CursorInit, <1>1, <1>2, PTL DEF Spec, RefinesCursor, C!Spec
=============================================================================
