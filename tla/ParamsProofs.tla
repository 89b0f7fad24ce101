---------------------------- MODULE ParamsProofs ----------------------------
(***************************************************************************)
(* The second attempt of a prepared query executes no group of parameters  *)
(* that the first one has executed, for all texts, parameters and lengths. *)
(*                                                                         *)
(* The first attempt passes named parameters.  If it got as far as an      *)
(* execution, the placeholders of the query have names; then db_bind()     *)
(* refuses the unnamed parameters of the second attempt.                   *)
(*                                                                         *)
(* Each placeholder gets the value meant for it: an induction over the     *)
(* text shows that a variable keeps its number and its name, and db_bind() *)
(* goes by one of the two.  What is accepted is shown for each sort of     *)
(* placeholders.                                                           *)
(***************************************************************************)
EXTENDS Params, SequenceLemmas

names == get_placeholder_names(text)

\* The query has placeholders, and all of them take their values by name.
ByName == DOMAIN names # {} /\ ~Positional(names)

NothingStarted == \A g \in Groups : started[g] = 0

TypeInv ==
  /\ started \in [Groups -> Nat] /\ group \in Nat
  /\ attempt \in {1, 2} /\ stage \in {"bind", "fetch"}

\* What the attempts know of their parameters.
ListInv ==
  /\ Prepared /\ attempt = 1 => params.named
  /\ attempt = 2 => ~params.named /\ Range(params.names) \subseteq {""}

\* What has been executed when.
StartedInv ==
  /\ RunsOnce
  /\ pc = "match" /\ attempt = 1 => NothingStarted
  /\ pc = "match" /\ attempt = 2 => NothingStarted \/ ByName
  /\ pc = "run" => \A g \in Groups : g > group => started[g] = 0
  /\ pc = "run" /\ Prepared /\ attempt = 1 => ByName

IInv == TypeInv /\ ListInv /\ StartedInv

----------------------------------------------------------------------------
LEMMA GroupsAreNumbers == Groups \subseteq Nat
<1>1. PICK n \in Lengths : \A m \in Lengths : n >= m
  BY LengthsAssumption
<1>2. Max(Lengths) \in Lengths
  BY <1>1 DEF Max
<1>3. Max(Lengths) \in Nat
  BY <1>2, LengthsAssumption
<1> QED BY <1>3 DEF Groups

\* A statement that is accepted has placeholders.
LEMMA AcceptedHasPlaceholders == Accepted => DOMAIN names # {}
<1> SUFFICES ASSUME Accepted, DOMAIN names = {} PROVE FALSE
  OBVIOUS
<1>1. names # <<>>
  BY DEF Accepted, SizeFits, names
<1>2. names = [v \in {} |-> Variables(text)[v].name]
  BY DEF names, get_placeholder_names
<1> QED BY <1>1, <1>2

\* Named parameters are accepted for named placeholders only.
LEMMA NamedMeansByName ==
  ASSUME params.named, Accepted
  PROVE  ByName
<1>1. Positional(names) => UnnamedFor(params)
  BY DEF Accepted, Fits, names
<1> QED BY <1>1, AcceptedHasPlaceholders DEF UnnamedFor, ByName

\* Parameters without names are refused for them.
LEMMA UnnamedIsRefused ==
  ASSUME Range(params.names) \subseteq {""}, ByName
  PROVE  ~Accepted
<1> SUFFICES ASSUME Accepted PROVE FALSE
  OBVIOUS
<1>1. AllGiven(names, params)
  BY DEF Accepted, Fits, Matched, ByName, names
<1>2. PICK v \in DOMAIN names : names[v] = ""
  BY <1>1 DEF ByName, AllGiven
<1>3. v \in empty(names)
  BY <1>2 DEF empty
<1> QED BY <1>3 DEF ByName, Positional

----------------------------------------------------------------------------
LEMMA InvInit == Init => IInv
<1> SUFFICES ASSUME Init PROVE IInv
  OBVIOUS
<1>1. TypeInv
  BY DEF Init, TypeInv
<1>2. Prepared => params.named
  BY DEF Init, Prepared, DataFrames
<1>3. attempt = 1 /\ pc = "match" /\ \A g \in Groups : started[g] = 0
  BY DEF Init
<1>4. ListInv
  BY <1>2, <1>3 DEF ListInv
<1>5. StartedInv
  BY <1>3 DEF StartedInv, NothingStarted, RunsOnce
<1> QED BY <1>1, <1>4, <1>5 DEF IInv

\* One more execution: of a group that has not been executed.
LEMMA StartNext ==
  ASSUME IInv, pc = "run", started' = Started
  PROVE  /\ started' \in [Groups -> Nat]
         /\ RunsOnce'
         /\ \A g \in Groups : g > group + 1 => started'[g] = 0
<1>1. started \in [Groups -> Nat] /\ group \in Nat
  BY DEF IInv, TypeInv
<1>2. \A g \in Groups : g \in Nat
  BY GroupsAreNumbers
<1>3. \A g \in Groups : started'[g] = IF g = group + 1 THEN started[g] + 1 ELSE started[g]
  BY <1>1 DEF Started
<1>4. \A g \in Groups : started[g] <= 1 /\ (g > group => started[g] = 0)
  BY DEF IInv, StartedInv, RunsOnce
<1>5. started' \in [Groups -> Nat]
  <2>1. started' = [g \in Groups |-> IF g = group + 1 THEN started[g] + 1 ELSE started[g]]
    BY <1>1 DEF Started
  <2> QED BY <1>1, <2>1
<1>6. RunsOnce'
  BY <1>1, <1>2, <1>3, <1>4 DEF RunsOnce
<1>7. \A g \in Groups : g > group + 1 => started'[g] = 0
  BY <1>1, <1>2, <1>3, <1>4
<1> QED BY <1>5, <1>6, <1>7

\* The handler of a prepared query takes the names off the parameters.
LEMMA RaiseKeeps ==
  ASSUME IInv, Raise, text' = text, call' = call, RunsOnce',
         Prepared /\ attempt = 1 => NothingStarted' \/ ByName
  PROVE  attempt' \in {1, 2} /\ ListInv' /\ StartedInv'
<1>1. CASE Prepared /\ stage = "bind" /\ attempt = 1
  <2>1. attempt' = 2 /\ params' = unname(params) /\ pc' = "match"
    BY <1>1 DEF Raise
  <2>2. ~params'.named /\ Range(params'.names) \subseteq {""}
    BY <2>1 DEF unname, Range
  <2>3. ByName' <=> ByName
    BY DEF ByName, names
  <2>4. NothingStarted' \/ ByName'
    BY <1>1, <2>3
  <2>5. ListInv'
    <3>1. attempt' # 1
      BY <2>1
    <3> QED BY <2>2, <3>1 DEF ListInv
  <2>6. StartedInv'
    BY <2>1, <2>4 DEF StartedInv
  <2> QED BY <2>1, <2>5, <2>6
<1>2. CASE ~(Prepared /\ stage = "bind" /\ attempt = 1)
  <2>1. attempt' = attempt /\ params' = params /\ pc' = "failed"
    BY <1>2 DEF Raise
  <2>2. ListInv'
    BY <2>1 DEF IInv, ListInv, Prepared
  <2> QED BY <2>1, <2>2 DEF IInv, TypeInv, StartedInv
<1> QED BY <1>1, <1>2

\* An execution that does not fail: the next group, the caller's rows, or the end.
LEMMA RunGoesOn ==
  ASSUME IInv, pc = "run", started' = Started, stage' \in {"bind", "fetch"},
         UNCHANGED <<text, call, params, attempt>>,
         \/ pc' \in {"run", "done"} /\ group' = group + 1
         \/ pc' = "done" /\ group' = group
  PROVE  IInv'
<1>1. /\ started' \in [Groups -> Nat] /\ RunsOnce'
      /\ \A g \in Groups : g > group + 1 => started'[g] = 0
  BY StartNext
<1>2. TypeInv'
  BY <1>1 DEF IInv, TypeInv
<1>3. ListInv'
  BY DEF IInv, ListInv, Prepared
<1>4. StartedInv'
  <2>1. Prepared /\ attempt = 1 => ByName
    BY DEF IInv, StartedInv
  <2>2. /\ Prepared' <=> Prepared
        /\ ByName' <=> ByName
    BY DEF Prepared, ByName, names
  <2> QED BY <1>1, <2>1, <2>2 DEF StartedInv
<1> QED BY <1>2, <1>3, <1>4 DEF IInv

LEMMA InvStep == IInv /\ [Next]_vars => IInv'
<1> SUFFICES ASSUME IInv, [Next]_vars PROVE IInv'
  OBVIOUS
<1>0. TypeInv /\ ListInv /\ StartedInv
  BY DEF IInv
<1>1. CASE Refuse
  <2>1. Raise /\ pc = "match" /\ ~Accepted
        /\ UNCHANGED <<text, call, stage, bound, group, started>>
    BY <1>1 DEF Refuse
  <2>2. RunsOnce' /\ (NothingStarted' <=> NothingStarted)
    BY <1>0, <2>1 DEF StartedInv, RunsOnce, NothingStarted
  <2>3. attempt' \in {1, 2} /\ ListInv' /\ StartedInv'
    BY <1>0, <2>1, <2>2, RaiseKeeps DEF StartedInv
  <2> QED BY <1>0, <2>1, <2>3 DEF IInv, TypeInv
<1>2. CASE Bind
  <2>1. Accepted /\ pc = "match" /\ group' = 0 /\ pc' \in {"run", "done"}
        /\ UNCHANGED <<text, call, params, attempt, stage, started>>
    BY <1>2 DEF Bind, Return
  <2>2. NothingStarted
    BY <1>0, <2>1, UnnamedIsRefused DEF TypeInv, ListInv, StartedInv
  <2>3. Prepared /\ attempt = 1 => ByName
    BY <1>0, <2>1, NamedMeansByName DEF ListInv
  <2>4. /\ Prepared' <=> Prepared
        /\ ByName' <=> ByName
        /\ RunsOnce' <=> RunsOnce
    BY <2>1 DEF Prepared, ByName, names, RunsOnce
  <2>5. ListInv'
    BY <1>0, <2>1, <2>4 DEF ListInv
  <2>6. StartedInv'
    BY <1>0, <2>1, <2>2, <2>3, <2>4 DEF StartedInv, NothingStarted
  <2> QED BY <1>0, <2>1, <2>5, <2>6 DEF IInv, TypeInv
<1>3. CASE GroupEnds
  <2>1. pc = "run" /\ started' = Started /\ group' = group + 1 /\ pc' \in {"run", "done"}
        /\ UNCHANGED <<text, call, params, attempt, stage>>
    BY <1>3 DEF GroupEnds, Return
  <2>2. stage' \in {"bind", "fetch"}
    BY <1>0, <2>1 DEF TypeInv
  <2> QED BY <2>1, <2>2, RunGoesOn
<1>4. CASE GroupHasRows
  <2>1. pc = "run" /\ started' = Started /\ stage' = "fetch"
        /\ UNCHANGED <<text, call, params, attempt>>
    BY <1>4 DEF GroupHasRows
  <2>2. \/ pc' \in {"run", "done"} /\ group' = group + 1
        \/ pc' = "done" /\ group' = group
    <3>1. CASE call = "dbGetPreparedQuery" /\ group + 1 < groups
      BY <1>4, <2>1, <3>1 DEF GroupHasRows
    <3>2. CASE ~(call = "dbGetPreparedQuery" /\ group + 1 < groups)
      BY <1>4, <3>2 DEF GroupHasRows, Return
    <3> QED BY <3>1, <3>2
  <2> QED BY <2>1, <2>2, RunGoesOn
<1>5. CASE GroupFails
  <2>1. pc = "run" /\ started' = Started /\ Raise
        /\ UNCHANGED <<text, call, stage, bound, group>>
    BY <1>5 DEF GroupFails
  <2>2. started' \in [Groups -> Nat] /\ RunsOnce'
    BY <2>1, StartNext
  <2>3. Prepared /\ attempt = 1 => ByName
    BY <1>0, <2>1 DEF StartedInv
  <2>4. attempt' \in {1, 2} /\ ListInv' /\ StartedInv'
    BY <2>1, <2>2, <2>3, RaiseKeeps
  <2> QED BY <1>0, <2>1, <2>2, <2>4 DEF IInv, TypeInv
<1>6. CASE UNCHANGED vars
  BY <1>0, <1>6 DEF vars, IInv, TypeInv, ListInv, StartedInv, Prepared, ByName, names,
                    RunsOnce, NothingStarted
<1> QED BY <1>1, <1>2, <1>3, <1>4, <1>5, <1>6 DEF Next

\* No group of parameters is executed twice by one call, whatever fails in it.
THEOREM NothingRunsTwice == Spec => []RunsOnce
<1>1. IInv => RunsOnce
  BY DEF IInv, StartedInv
<1> QED BY InvInit, InvStep, <1>1, PTL DEF Spec

----------------------------------------------------------------------------
(* How SQLite numbers the placeholders of a text *)

\* What a variable may be called.
Variable == Tokens \cup {Anonymous}

\* The larger of two numbers.
LEMMA MaxOfTwo ==
  ASSUME NEW a \in Nat, NEW b \in Nat
  PROVE  Max({a, b}) = IF a >= b THEN a ELSE b
<1>1. CASE a >= b
  <2>1. \A y \in {a, b} : a >= y
    BY <1>1
  <2>2. \A x \in {a, b} : (\A y \in {a, b} : x >= y) => x = a
    BY <1>1
  <2> QED BY <1>1, <2>1, <2>2 DEF Max
<1>2. CASE ~(a >= b)
  <2>1. \A y \in {a, b} : b >= y
    BY <1>2
  <2>2. \A x \in {a, b} : (\A y \in {a, b} : x >= y) => x = b
    BY <1>2
  <2> QED BY <1>2, <2>1, <2>2 DEF Max
<1> QED BY <1>1, <1>2

\* A placeholder with another first character than "?" is not "?".
LEMMA NamedIsNotAnonymous ==
  ASSUME NEW t, IsNamed(t)
  PROVE  t # Anonymous
<1>1. Anonymous.sigil = "?"
  BY DEF Anonymous
<1> QED BY <1>1, Zenon DEF IsNamed

\* A placeholder is of one sort, and without a name only if it is "?".
LEMMA Sorts ==
  ASSUME NEW t \in Variable
  PROVE  /\ t = Anonymous \/ IsNumbered(t) \/ IsNamed(t)
         /\ ~(t = Anonymous /\ IsNumbered(t))
         /\ ~(t = Anonymous /\ IsNamed(t))
         /\ ~(IsNumbered(t) /\ IsNamed(t))
         /\ IsNumbered(t) => t.name \in DOMAIN NumberOf /\ NumberOf[t.name] \in Nat \ {0}
         /\ t.name = "" <=> t = Anonymous
<1>1. Anonymous.sigil = "?" /\ Anonymous.name = ""
  BY DEF Anonymous
<1>2. t \in Tokens \/ t = Anonymous
  BY DEF Variable
<1>3. t.name = "" => t = Anonymous
  BY <1>2, TokensAssumption
<1>4. IsNumbered(t) => t \in Tokens
  BY <1>2 DEF IsNumbered
<1> QED BY <1>1, <1>3, <1>4, TokensAssumption DEF IsNumbered, IsNamed

\* "?" opens a variable of its own.
LEMMA AssignAnonymous ==
  ASSUME NEW s \in Seq(Variable)
  PROVE  /\ AssignVarNumber(s, Anonymous) = Append(s, Anonymous)
         /\ AssignVarNumber(s, Anonymous) \in Seq(Variable)
<1>1. AssignVarNumber(s, Anonymous) = Append(s, Anonymous)
  BY Zenon DEF AssignVarNumber
<1>2. Anonymous \in Variable
  BY DEF Variable
<1> QED BY <1>1, <1>2

\* A name opens a variable when it is met first.
LEMMA AssignNamed ==
  ASSUME NEW s \in Seq(Variable), NEW t \in Variable, IsNamed(t)
  PROVE  /\ AssignVarNumber(s, t) \in Seq(Variable)
         /\ \/ AssignVarNumber(s, t) = s /\ \E v \in 1..Len(s) : s[v] = t
            \/ AssignVarNumber(s, t) = Append(s, t)
<1>1. t # Anonymous
  BY Sorts
<1>2. CASE Contains(s, t)
  <2>1. AssignVarNumber(s, t) = s
    BY <1>1, <1>2, Zenon DEF AssignVarNumber
  <2> QED BY <1>2, <2>1 DEF Contains
<1>3. CASE ~Contains(s, t)
  <2>1. AssignVarNumber(s, t) = Append(s, t)
    BY <1>1, <1>3, Zenon DEF AssignVarNumber
  <2> QED BY <2>1
<1> QED BY <1>2, <1>3

\* A number makes room for itself and takes its place, if that is not taken.
LEMMA AssignNumbered ==
  ASSUME NEW s \in Seq(Variable), NEW t \in Variable, IsNumbered(t),
         NEW r, r = AssignVarNumber(s, t), NEW n, n = NumberOf[t.name]
  PROVE  /\ r \in Seq(Variable) /\ n \in Nat \ {0}
         /\ Len(r) = IF n >= Len(s) THEN n ELSE Len(s)
         /\ n \in 1..Len(r)
         /\ \A v \in 1..Len(r) :
              r[v] = IF v = n /\ (v > Len(s) \/ s[v] = Anonymous) THEN t
                     ELSE IF v > Len(s) THEN Anonymous ELSE s[v]
<1>1. n \in Nat \ {0} /\ Len(s) \in Nat /\ t # Anonymous /\ ~IsNamed(t)
  <2>1. t # Anonymous /\ ~IsNamed(t) /\ NumberOf[t.name] \in Nat \ {0}
    BY Sorts, Zenon
  <2>2. Len(s) \in Nat
    OBVIOUS
  <2> QED BY <2>1, <2>2
<1> DEFINE m == Max({n, Len(s)})
           Val(v) == IF v = n /\ (v > Len(s) \/ s[v] = Anonymous) THEN t
                     ELSE IF v > Len(s) THEN Anonymous ELSE s[v]
<1>2. m = IF n >= Len(s) THEN n ELSE Len(s)
  BY <1>1, MaxOfTwo
<1>3. m \in Nat /\ n \in 1..m
  BY <1>1, <1>2
<1>4. r = [v \in 1..m |-> Val(v)]
  BY <1>1, Zenon DEF AssignVarNumber
<1> HIDE DEF m
<1>5. \A v \in 1..m : Val(v) \in Variable
  <2>1. Anonymous \in Variable
    BY DEF Variable
  <2>2. \A v \in 1..m : v > Len(s) \/ s[v] \in Variable
    BY <1>1, <1>3
  <2> QED BY <2>1, <2>2
<1>6. \A v \in 1..m : r[v] = Val(v)
  BY <1>4, Zenon
<1>7. r \in [1..m -> Variable]
  <2> HIDE DEF Val
  <2> QED BY <1>4, <1>5
<1>8. r \in Seq(Variable) /\ Len(r) = m
  BY <1>3, <1>7
<1> QED BY <1>1, <1>2, <1>3, <1>6, <1>8

\* The numbering of a text by prefixes: the recursion has a solution.
LEMMA NumberingIs ==
  ASSUME NEW t \in Seq(Variable)
  PROVE  /\ Numbering(t)[0] = <<>>
         /\ \A k \in 1..Len(t) :
              Numbering(t)[k] = AssignVarNumber(Numbering(t)[k - 1], t[k])
<1> DEFINE n == Len(t)
           Val(f, k) == IF k = 0 THEN <<>> ELSE AssignVarNumber(f[k - 1], t[k])
           D(f) == f = [k \in 0..n |-> Val(f, k)]
           Upto(f, m) == \A k \in 0..m : f[k] = Val(f, k)
           Exists(m) == \E f : f = [k \in 0..m |-> f[k]] /\ Upto(f, m)
           P == {m \in Nat : Exists(m)}
<1>1. 0 \in P
  <2> DEFINE f == [k \in 0..0 |-> <<>>]
  <2>1. f = [k \in 0..0 |-> f[k]] /\ Upto(f, 0)
    OBVIOUS
  <2>2. Exists(0)
    <3> HIDE DEF Upto
    <3> QED BY <2>1
  <2> HIDE DEF Exists
  <2> QED BY <2>2
<1>2. ASSUME NEW m \in Nat, m \in P PROVE m + 1 \in P
  <2>0. Exists(m)
    <3> HIDE DEF Exists
    <3> QED BY <1>2
  <2>1. PICK f : Upto(f, m)
    <3> HIDE DEF Upto
    <3> QED BY <2>0
  <2> DEFINE v == AssignVarNumber(f[m], t[m + 1])
             g == [k \in 0..m + 1 |-> IF k = m + 1 THEN v ELSE f[k]]
  <2> HIDE DEF v
  <2>2. g = [k \in 0..m + 1 |-> g[k]]
    OBVIOUS
  <2>3. g[m + 1] = v /\ \A k \in 0..m : g[k] = f[k]
    OBVIOUS
  <2> HIDE DEF g
  <2>4. ASSUME NEW k \in 0..m + 1 PROVE g[k] = Val(g, k)
    <3>1. CASE k = 0
      <4>1. 0 \in 0..m
        OBVIOUS
      <4>2. g[0] = f[0] /\ f[0] = <<>>
        BY <2>1, <2>3, <4>1
      <4> QED BY <3>1, <4>2
    <3>2. CASE k \in 1..m
      <4>1. k - 1 \in 0..m /\ k \in 0..m /\ k # 0
        BY <3>2
      <4>2. g[k] = f[k] /\ g[k - 1] = f[k - 1] /\ f[k] = Val(f, k)
        BY <2>1, <2>3, <4>1
      <4> QED BY <4>1, <4>2
    <3>3. CASE k = m + 1
      <4>1. (m + 1) - 1 = m /\ m \in 0..m /\ m + 1 # 0
        OBVIOUS
      <4>2. g[m] = f[m]
        BY <2>3, <4>1
      <4>3. g[m + 1] = AssignVarNumber(g[(m + 1) - 1], t[m + 1])
        BY <2>3, <4>1, <4>2 DEF v
      <4> QED BY <3>3, <4>1, <4>3
    <3> QED BY <3>1, <3>2, <3>3
  <2>5. Upto(g, m + 1)
    BY <2>4
  <2> HIDE DEF Upto
  <2>6. Exists(m + 1)
    BY <2>2, <2>5
  <2> HIDE DEF Exists
  <2> QED BY <2>6
<1>3. n \in Nat
  OBVIOUS
<1>4. \E f : D(f)
  <2> HIDE DEF P
  <2>1. n \in P
    BY <1>1, <1>2, <1>3, Induction
  <2>2. PICK f : f = [k \in 0..n |-> f[k]] /\ Upto(f, n)
    <3> HIDE DEF Upto
    <3> QED BY <2>1 DEF P
  <2>3. [k \in 0..n |-> f[k]] = [k \in 0..n |-> Val(f, k)]
    <3>1. \A k \in 0..n : f[k] = Val(f, k)
      BY <2>2
    <3> HIDE DEF Val
    <3> QED BY <3>1, Zenon
  <2> QED BY <2>2, <2>3
<1>5. PICK u : D(u) /\ u = CHOOSE f : D(f)
  <2> HIDE DEF D
  <2> QED BY <1>4
<1>6. Numbering(t) = u
  <2>1. Numbering(t) = CHOOSE f : D(f)
    BY Zenon DEF Numbering
  <2> HIDE DEF D
  <2> QED BY <1>5, <2>1
<1>7. \A k \in 0..n : u[k] = Val(u, k)
  BY <1>5, Zenon
<1>8. u[0] = <<>>
  BY <1>3, <1>7
<1>9. \A k \in 1..n : u[k] = AssignVarNumber(u[k - 1], t[k])
  <2> SUFFICES ASSUME NEW k \in 1..n PROVE u[k] = AssignVarNumber(u[k - 1], t[k])
    OBVIOUS
  <2>1. k \in 0..n /\ k # 0
    BY <1>3
  <2> QED BY <1>7, <2>1
<1> HIDE DEF D
<1> QED BY <1>6, <1>8, <1>9

\* The numbering of a text, and the prefixes of the text it is of.
NumberingOf(u, t) ==
  /\ u[0] = <<>>
  /\ \A k \in 1..Len(t) : u[k] = AssignVarNumber(u[k - 1], t[k])

\* Induction over the placeholders of a text.
LEMMA ByPlaceholder ==
  ASSUME NEW n \in Nat, NEW S, 0 \in S, \A k \in 1..n : k - 1 \in S => k \in S
  PROVE  0..n \subseteq S
<1> DEFINE P == {k \in Nat : k <= n => k \in S}
<1>1. 0 \in P
  OBVIOUS
<1>2. ASSUME NEW k \in Nat, k \in P PROVE k + 1 \in P
  <2> SUFFICES ASSUME k + 1 <= n PROVE k + 1 \in S
    OBVIOUS
  <2>1. k + 1 \in 1..n /\ (k + 1) - 1 = k /\ k <= n
    OBVIOUS
  <2>2. k \in S
    BY <1>2, <2>1
  <2> QED BY <2>1, <2>2
<1>3. Nat \subseteq P
  <2> HIDE DEF P
  <2> QED BY <1>1, <1>2, Induction
<1>4. \A k \in 0..n : k \in Nat /\ k <= n
  OBVIOUS
<1> QED BY <1>3, <1>4

\* The variables after each placeholder are a sequence of placeholders.
LEMMA VariablesTyped ==
  ASSUME NEW t \in Seq(Variable), NEW u, NumberingOf(u, t)
  PROVE  \A k \in 0..Len(t) : u[k] \in Seq(Variable)
<1> DEFINE S == {k \in 0..Len(t) : u[k] \in Seq(Variable)}
<1>1. 0 \in S
  <2>1. u[0] = <<>> /\ <<>> \in Seq(Variable)
    BY DEF NumberingOf
  <2>2. 0 \in 0..Len(t)
    OBVIOUS
  <2>3. u[0] \in Seq(Variable)
    BY <2>1, Zenon
  <2> QED BY <2>2, <2>3, Zenon
<1>2. ASSUME NEW k \in 1..Len(t), k - 1 \in S PROVE k \in S
  <2> SUFFICES u[k] \in Seq(Variable)
    OBVIOUS
  <2>1. u[k - 1] \in Seq(Variable) /\ t[k] \in Variable
    BY <1>2
  <2>2. u[k] = AssignVarNumber(u[k - 1], t[k])
    BY Zenon DEF NumberingOf
  <2>3. CASE t[k] = Anonymous
    BY <2>1, <2>2, <2>3, AssignAnonymous
  <2>4. CASE IsNamed(t[k])
    BY <2>1, <2>2, <2>4, AssignNamed
  <2>5. CASE IsNumbered(t[k])
    BY <2>1, <2>2, <2>5, AssignNumbered
  <2> QED BY <2>1, <2>3, <2>4, <2>5, Sorts
<1> HIDE DEF S
<1>3. Len(t) \in Nat
  OBVIOUS
<1>4. 0..Len(t) \subseteq S
  BY <1>1, <1>2, <1>3, ByPlaceholder
<1> QED BY <1>4 DEF S

\* Variables stay: none is given up, and one that has a name keeps it.
Kept(s, r) ==
  /\ Len(s) <= Len(r)
  /\ \A v \in 1..Len(s) : s[v] # Anonymous => r[v] = s[v]

\* The variable of a placeholder: the last one, that of its number, or the one
\* of its name.
Serves(r, t, v) ==
  /\ v \in 1..Len(r)
  /\ t = Anonymous => v = Len(r)
  /\ IsNumbered(t) => v = NumberOf[t.name]
  /\ IsNamed(t) => r[v] = t

\* One more placeholder keeps the variables there are.
LEMMA AssignKeeps ==
  ASSUME NEW s \in Seq(Variable), NEW t \in Variable
  PROVE  Kept(s, AssignVarNumber(s, t))
<1> DEFINE r == AssignVarNumber(s, t)
<1>1. CASE t = Anonymous
  <2>1. r = Append(s, Anonymous) /\ Anonymous \in Variable
    BY <1>1, AssignAnonymous DEF Variable
  <2> QED BY <2>1 DEF Kept
<1>2. CASE IsNamed(t)
  <2>1. r = s \/ r = Append(s, t)
    BY <1>2, AssignNamed
  <2> HIDE DEF r
  <2>2. Kept(s, r)
    BY <2>1 DEF Kept
  <2> QED BY <2>2 DEF r
<1>3. CASE IsNumbered(t)
  <2> DEFINE n == NumberOf[t.name]
  <2>1. /\ n \in Nat \ {0}
        /\ Len(r) = IF n >= Len(s) THEN n ELSE Len(s)
        /\ \A v \in 1..Len(r) :
             r[v] = IF v = n /\ (v > Len(s) \/ s[v] = Anonymous) THEN t
                    ELSE IF v > Len(s) THEN Anonymous ELSE s[v]
    BY <1>3, AssignNumbered
  <2> HIDE DEF r, n
  <2>2. Len(s) <= Len(r) /\ Len(s) \in Nat /\ Len(r) \in Nat
    BY <2>1
  <2>3. ASSUME NEW v \in 1..Len(s), s[v] # Anonymous PROVE r[v] = s[v]
    <3>1. v \in 1..Len(r) /\ ~(v > Len(s))
      BY <2>2
    <3> QED BY <2>1, <2>3, <3>1
  <2>4. Kept(s, r)
    BY <2>2, <2>3 DEF Kept
  <2> QED BY <2>4 DEF r
<1> QED BY <1>1, <1>2, <1>3, Sorts

\* And so does any number of them.
LEMMA KeptTransitive ==
  ASSUME NEW a \in Seq(Variable), NEW b \in Seq(Variable), NEW c \in Seq(Variable),
         Kept(a, b), Kept(b, c)
  PROVE  Kept(a, c)
<1>1. Len(a) \in Nat /\ Len(b) \in Nat /\ Len(c) \in Nat
  OBVIOUS
<1>2. Len(a) <= Len(b) /\ Len(b) <= Len(c)
  BY DEF Kept
<1>3. ASSUME NEW v \in 1..Len(a), a[v] # Anonymous PROVE c[v] = a[v]
  <2>1. v \in 1..Len(b)
    BY <1>1, <1>2
  <2>2. b[v] = a[v]
    BY <1>3 DEF Kept
  <2> QED BY <1>3, <2>1, <2>2 DEF Kept
<1> QED BY <1>1, <1>2, <1>3 DEF Kept

\* What is numbered early is so in the whole text.
LEMMA NumberingKeeps ==
  ASSUME NEW t \in Seq(Variable), NEW u, NumberingOf(u, t), NEW i \in 0..Len(t)
  PROVE  Kept(u[i], u[Len(t)])
<1>0. Len(t) \in Nat /\ i \in Nat
  OBVIOUS
<1>1. \A k \in 0..Len(t) : u[k] \in Seq(Variable)
  BY VariablesTyped
<1> DEFINE S == {k \in 0..Len(t) : i <= k => Kept(u[i], u[k])}
<1>2. ASSUME NEW s \in Seq(Variable) PROVE Kept(s, s)
  BY DEF Kept
<1>3. 0 \in S
  <2> SUFFICES ASSUME i <= 0 PROVE Kept(u[i], u[0])
    OBVIOUS
  <2>1. i = 0
    BY <1>0
  <2> QED BY <1>1, <1>2, <2>1
<1>4. ASSUME NEW k \in 1..Len(t), k - 1 \in S PROVE k \in S
  <2> SUFFICES ASSUME i <= k PROVE Kept(u[i], u[k])
    OBVIOUS
  <2>1. CASE i = k
    BY <1>1, <1>2, <2>1
  <2>2. CASE i <= k - 1
    <3>1. Kept(u[i], u[k - 1])
      BY <1>4, <2>2
    <3>2. u[i] \in Seq(Variable) /\ u[k - 1] \in Seq(Variable) /\ u[k] \in Seq(Variable)
      BY <1>1
    <3>3. u[k] = AssignVarNumber(u[k - 1], t[k]) /\ t[k] \in Variable
      BY DEF NumberingOf
    <3>4. Kept(u[k - 1], u[k])
      BY <3>2, <3>3, AssignKeeps
    <3> QED BY <3>1, <3>2, <3>4, KeptTransitive
  <2> QED BY <1>0, <2>1, <2>2
<1> HIDE DEF S
<1>5. 0..Len(t) \subseteq S
  BY <1>0, <1>3, <1>4, ByPlaceholder
<1>6. Len(t) \in 0..Len(t) /\ i <= Len(t)
  BY <1>0
<1> QED BY <1>5, <1>6 DEF S

\* The numbering of a text, in the form the inductions use.
LEMMA NumberingFacts ==
  ASSUME NEW t \in Seq(Variable)
  PROVE  NumberingOf(Numbering(t), t)
  BY NumberingIs DEF NumberingOf

\* VarOf finds the variable that serves the placeholder when it is met.
LEMMA VarServes ==
  ASSUME NEW t \in Seq(Variable), NEW k \in 1..Len(t)
  PROVE  Serves(Numbering(t)[k], t[k], VarOf(t, k))
<1> DEFINE u == Numbering(t)
           s == u[k - 1]
           r == u[k]
<1>1. NumberingOf(u, t)
  BY NumberingFacts
<1>2. s \in Seq(Variable) /\ r \in Seq(Variable) /\ t[k] \in Variable
  <2>1. k - 1 \in 0..Len(t) /\ k \in 0..Len(t)
    OBVIOUS
  <2> HIDE DEF u
  <2> QED BY <1>1, <2>1, VariablesTyped
<1>3. r = AssignVarNumber(s, t[k])
  BY <1>1 DEF NumberingOf
<1>4. VarOf(t, k) = IF t[k] = Anonymous THEN Len(r)
                    ELSE IF IsNumbered(t[k]) THEN NumberOf[t[k].name]
                    ELSE CHOOSE v \in DOMAIN r : r[v] = t[k]
  BY Zenon DEF VarOf
<1> HIDE DEF s, r, u
<1>5. CASE t[k] = Anonymous
  <2>1. r = Append(s, Anonymous)
    BY <1>2, <1>3, <1>5, AssignAnonymous
  <2>2. Len(r) \in 1..Len(r)
    BY <1>2, <2>1
  <2>3. Serves(r, t[k], VarOf(t, k))
    BY <1>2, <1>4, <1>5, <2>2, Sorts DEF Serves
  <2> QED BY <2>3 DEF r, u
<1>6. CASE IsNumbered(t[k])
  <2>1. NumberOf[t[k].name] \in 1..Len(r)
    BY <1>2, <1>3, <1>6, AssignNumbered
  <2>2. Serves(r, t[k], VarOf(t, k))
    BY <1>2, <1>4, <1>6, <2>1, Sorts DEF Serves
  <2> QED BY <2>2 DEF r, u
<1>7. CASE IsNamed(t[k])
  <2>1. t[k] # Anonymous /\ ~IsNumbered(t[k])
    BY <1>2, <1>7, Sorts
  <2>2. \E v \in 1..Len(r) : r[v] = t[k]
    <3>1. \/ r = s /\ \E v \in 1..Len(s) : s[v] = t[k]
          \/ r = Append(s, t[k])
      BY <1>2, <1>3, <1>7, AssignNamed
    <3>2. CASE r = Append(s, t[k])
      <4>1. Len(s) + 1 \in 1..Len(r) /\ r[Len(s) + 1] = t[k]
        BY <1>2, <3>2
      <4> QED BY <4>1
    <3> QED BY <3>1, <3>2
  <2>3. DOMAIN r = 1..Len(r)
    BY <1>2
  <2>4. VarOf(t, k) = CHOOSE v \in 1..Len(r) : r[v] = t[k]
    BY <1>4, <2>1, <2>3
  <2>5. VarOf(t, k) \in 1..Len(r) /\ r[VarOf(t, k)] = t[k]
    BY <2>2, <2>4
  <2>6. Serves(r, t[k], VarOf(t, k))
    BY <2>1, <2>5, Zenon DEF Serves
  <2> QED BY <2>6 DEF r, u
<1> QED BY <1>2, <1>5, <1>6, <1>7, Sorts

\* In the variables of the whole text a placeholder has one, which has its name
\* if the placeholder has one.
LEMMA VarInText ==
  ASSUME NEW t \in Seq(Variable), NEW k \in 1..Len(t)
  PROVE  /\ Variables(t) \in Seq(Variable)
         /\ VarOf(t, k) \in DOMAIN Variables(t)
         /\ IsNumbered(t[k]) => VarOf(t, k) = NumberOf[t[k].name]
         /\ IsNamed(t[k]) => Variables(t)[VarOf(t, k)] = t[k]
<1> DEFINE u == Numbering(t)
           r == u[k]
           z == u[Len(t)]
           v == VarOf(t, k)
<1>1. NumberingOf(u, t)
  BY NumberingFacts
<1>2. k \in 0..Len(t) /\ Len(t) \in 0..Len(t)
  OBVIOUS
<1>3. Serves(r, t[k], v)
  BY VarServes
<1>4. Variables(t) = z
  BY DEF Variables
<1> HIDE DEF u, v
<1>5. r \in Seq(Variable) /\ z \in Seq(Variable)
  BY <1>1, <1>2, VariablesTyped
<1>6. Kept(r, z)
  BY <1>1, <1>2, NumberingKeeps
<1> HIDE DEF r, z
<1>7. v \in 1..Len(r) /\ v \in 1..Len(z) /\ DOMAIN z = 1..Len(z)
  <2>1. Len(r) \in Nat /\ Len(z) \in Nat
    BY <1>5
  <2> QED BY <1>3, <1>5, <1>6, <2>1 DEF Serves, Kept
<1>8. ASSUME IsNamed(t[k]) PROVE z[v] = t[k]
  <2>1. t[k] # Anonymous
    BY <1>8, NamedIsNotAnonymous, Zenon
  <2>2. r[v] = t[k]
    BY <1>3, <1>8 DEF Serves
  <2> QED BY <1>6, <1>7, <2>1, <2>2 DEF Kept
<1>9. IsNumbered(t[k]) => v = NumberOf[t[k].name]
  BY <1>3 DEF Serves
<1> QED BY <1>4, <1>5, <1>7, <1>8, <1>9 DEF v

----------------------------------------------------------------------------
(* What is bound *)

NameOrNone == ParamNames \cup {""}

\* The lists of a caller: one name for each parameter, or none at all.
ListsInv ==
  /\ text \in Seq(Variable)
  /\ params.names \in Seq(NameOrNone)
  /\ ~params.named => \A j \in DOMAIN params.names : params.names[j] = ""

\* Once bound, the parameters are those accepted.
BoundInv == pc \in {"run", "done"} => Accepted /\ bound = Chosen(names, params)

ValuesInv == ListsInv /\ BoundInv

\* A function on 1..m is a sequence of that length.
LEMMA FunctionIsSequence ==
  ASSUME NEW A, NEW m \in Nat, NEW f \in [1..m -> A]
  PROVE  f \in Seq(A) /\ Len(f) = m
  OBVIOUS

LEMMA FunctionLength ==
  ASSUME NEW m \in Nat, NEW f, f = [v \in 1..m |-> f[v]]
  PROVE  Len(f) = m
<1> DEFINE R == {f[v] : v \in 1..m}
<1>1. f \in [1..m -> R]
  OBVIOUS
<1> HIDE DEF R
<1> QED BY <1>1, FunctionIsSequence

\* The fields of a list of parameters.
LEMMA FieldsOf ==
  ASSUME NEW A, NEW B, NEW C, NEW r \in [named : A, names : B, lengths : C]
  PROVE  r.named \in A /\ r.names \in B
  OBVIOUS

\* Nothing is bound at the start.
LEMMA ValuesInit == Init => ValuesInv
<1> SUFFICES ASSUME Init PROVE ValuesInv
  OBVIOUS
<1>1. text \in Seq(Variable)
  <2>1. PICK m \in 0..MaxTokens : text \in [1..m -> Tokens]
    BY DEF Init, Texts
  <2>2. text \in [1..m -> Variable]
    BY <2>1 DEF Variable
  <2>3. m \in Nat
    BY <2>1
  <2> QED BY <2>2, <2>3
<1>2. params \in Lists
  BY DEF Init, DataFrames
<1>3. PICK m \in 0..MaxParams :
        params \in [named : {FALSE}, names : [1..m -> {""}], lengths : [1..m -> Lengths]] \cup
                   [named : {TRUE}, names : [1..m -> ParamNames], lengths : [1..m -> Lengths]]
  BY <1>2 DEF Lists
<1>4. /\ m \in Nat
      /\ \/ params.named /\ params.names \in [1..m -> ParamNames]
         \/ ~params.named /\ params.names \in [1..m -> {""}]
  <2>0. m \in Nat
    OBVIOUS
  <2>1. CASE params \in [named : {FALSE}, names : [1..m -> {""}], lengths : [1..m -> Lengths]]
    <3>1. params.named \in {FALSE} /\ params.names \in [1..m -> {""}]
      BY <2>1, FieldsOf, Zenon
    <3> QED BY <2>0, <3>1, Zenon
  <2>2. CASE params \in [named : {TRUE}, names : [1..m -> ParamNames], lengths : [1..m -> Lengths]]
    <3>1. params.named \in {TRUE} /\ params.names \in [1..m -> ParamNames]
      BY <2>2, FieldsOf, Zenon
    <3> QED BY <2>0, <3>1, Zenon
  <2> QED BY <1>3, <2>1, <2>2
<1>5. CASE params.named
  <2>1. params.names \in [1..m -> ParamNames]
    BY <1>4, <1>5
  <2>2. params.names \in [1..m -> NameOrNone]
    BY <2>1 DEF NameOrNone
  <2>3. params.names \in Seq(NameOrNone)
    BY <1>4, <2>2, FunctionIsSequence, Zenon
  <2> QED BY <1>1, <1>4, <1>5, <2>3 DEF ValuesInv, ListsInv, BoundInv, Init
<1>6. CASE ~params.named
  <2>1. params.names \in [1..m -> {""}]
    BY <1>4, <1>6
  <2>2. params.names \in [1..m -> NameOrNone]
    BY <2>1 DEF NameOrNone
  <2>3. params.names \in Seq(NameOrNone)
    BY <1>4, <2>2, FunctionIsSequence, Zenon
  <2>4. \A j \in DOMAIN params.names : params.names[j] = ""
    BY <2>1
  <2> QED BY <1>1, <2>3, <2>4 DEF ValuesInv, ListsInv, BoundInv, Init
<1> QED BY <1>5, <1>6

\* What Raise does to the list: nothing, or it takes the names off.
LEMMA RaiseLists ==
  ASSUME ValuesInv, Raise, text' = text
  PROVE  ValuesInv'
<1>1. CASE params' = unname(params) /\ pc' = "match"
  <2>1. params'.names = [j \in DOMAIN params.names |-> ""]
    BY <1>1 DEF unname
  <2>2. PICK ns \in Seq(NameOrNone) : ns = params.names
    BY DEF ValuesInv, ListsInv
  <2>3. [j \in DOMAIN ns |-> ""] \in Seq(NameOrNone)
    <3>0. "" \in NameOrNone
      BY DEF NameOrNone
    <3>1. DOMAIN ns = 1..Len(ns) /\ Len(ns) \in Nat
      BY <2>2
    <3>2. [j \in 1..Len(ns) |-> ""] \in [1..Len(ns) -> NameOrNone]
      BY <3>0, Zenon
    <3> QED BY <3>1, <3>2, FunctionIsSequence, Zenon
  <2>4. \A j \in DOMAIN params'.names : params'.names[j] = ""
    BY <2>1
  <2>5. params'.names \in Seq(NameOrNone)
    BY <2>1, <2>2, <2>3, Zenon
  <2> QED BY <1>1, <2>4, <2>5 DEF ValuesInv, ListsInv, BoundInv
<1>2. CASE params' = params /\ pc' = "failed"
  BY <1>2 DEF ValuesInv, ListsInv, BoundInv
<1> QED BY <1>1, <1>2 DEF Raise

\* Only Bind binds, and only a second attempt changes the list.
LEMMA ValuesStep == ValuesInv /\ [Next]_vars => ValuesInv'
<1> SUFFICES ASSUME ValuesInv, [Next]_vars PROVE ValuesInv'
  OBVIOUS
<1>1. CASE Refuse
  BY <1>1, RaiseLists DEF Refuse
<1>2. CASE Bind
  <2>1. Accepted' /\ bound' = Chosen(names', params')
    BY <1>2 DEF Bind, names, Accepted, Superset, Prepared
  <2> QED BY <1>2, <2>1 DEF Bind, ValuesInv, ListsInv, BoundInv
<1>k. ASSUME UNCHANGED <<text, call, params, attempt, bound>>, pc = "run" \/ pc' = pc
      PROVE  ValuesInv'
  <2>1. (Accepted' <=> Accepted) /\ names' = names
    BY <1>k DEF Accepted, Superset, Prepared, names
  <2> QED BY <1>k, <2>1 DEF ValuesInv, ListsInv, BoundInv
<1>3. CASE GroupEnds
  BY <1>3, <1>k DEF GroupEnds
<1>4. CASE GroupHasRows
  BY <1>4, <1>k DEF GroupHasRows
<1>5. CASE GroupFails
  BY <1>5, RaiseLists DEF GroupFails
<1>6. CASE UNCHANGED vars
  BY <1>6, <1>k DEF vars
<1> QED BY <1>1, <1>2, <1>3, <1>4, <1>5, <1>6 DEF Next

\* Min is the least number of a set.
LEMMA LeastIs ==
  ASSUME NEW S \in SUBSET Nat, S # {}
  PROVE  Min(S) \in S /\ \A x \in S : Min(S) <= x
<1>1. \E m \in S : \A x \in S : m <= x
  BY LeastNumber
<1> QED BY <1>1 DEF Min

\* The place of the first parameter of a name.
FirstOf(ns, a) == Min({i \in DOMAIN ns : ns[i] = a})

LEMMA FirstOfName ==
  ASSUME NEW ns \in Seq(NameOrNone), NEW a \in Range(ns), NEW j, j = FirstOf(ns, a)
  PROVE  /\ j \in DOMAIN ns /\ ns[j] = a
         /\ \A h \in 1..(j - 1) : ns[h] # a
<1> DEFINE S == {i \in DOMAIN ns : ns[i] = a}
<1>1. DOMAIN ns = 1..Len(ns) /\ Len(ns) \in Nat
  OBVIOUS
<1>2. S \in SUBSET Nat
  BY <1>1
<1>3. S # {}
  BY DEF Range
<1> HIDE DEF S
<1>4. j \in S /\ \A x \in S : j <= x
  BY <1>2, <1>3, LeastIs DEF S, FirstOf
<1>5. j \in 1..Len(ns) /\ ns[j] = a
  BY <1>1, <1>4 DEF S
<1>6. ASSUME NEW h \in 1..(j - 1) PROVE ns[h] # a
  <2> SUFFICES ASSUME ns[h] = a PROVE FALSE
    OBVIOUS
  <2>1. h \in 1..Len(ns) /\ h < j
    BY <1>1, <1>5
  <2>2. h \in S
    BY <1>1, <2>1 DEF S
  <2> QED BY <1>4, <1>5, <2>1, <2>2
<1> QED BY <1>1, <1>5, <1>6

\* The names RSQLite sees.
LEMMA NamesAre ==
  ASSUME text \in Seq(Variable)
  PROVE  /\ Variables(text) \in Seq(Variable)
         /\ names \in Seq({t.name : t \in Variable})
         /\ DOMAIN names = DOMAIN Variables(text)
         /\ Len(names) = Len(Variables(text))
         /\ \A v \in DOMAIN names : names[v] = Variables(text)[v].name
<1>1. Variables(text) \in Seq(Variable)
  <2>1. NumberingOf(Numbering(text), text) /\ Len(text) \in 0..Len(text)
    BY NumberingFacts
  <2> QED BY <2>1, VariablesTyped DEF Variables
<1> DEFINE z == Variables(text)
<1>2. names = [v \in DOMAIN z |-> z[v].name]
  BY DEF names, get_placeholder_names
<1> HIDE DEF z
<1>3. z \in Seq(Variable)
  BY <1>1 DEF z
<1>4. names \in [1..Len(z) -> {t.name : t \in Variable}] /\ Len(z) \in Nat
  BY <1>2, <1>3
<1>5. names \in Seq({t.name : t \in Variable}) /\ Len(names) = Len(z)
  BY <1>4
<1>6. DOMAIN names = DOMAIN z /\ \A v \in DOMAIN names : names[v] = z[v].name
  BY <1>2, Zenon
<1> QED BY <1>3, <1>5, <1>6 DEF z

\* A text of nothing but "?" has one variable without a name for each of them.
LEMMA AllAnonymous ==
  ASSUME NEW t \in Seq(Variable), NEW n \in 0..Len(t), \A k \in 1..n : t[k] = Anonymous
  PROVE  Len(Numbering(t)[n]) = n /\ \A v \in 1..n : Numbering(t)[n][v] = Anonymous
<1> DEFINE u == Numbering(t)
           S == {k \in 0..n : Len(u[k]) = k /\ \A v \in 1..k : u[k][v] = Anonymous}
<1>1. NumberingOf(u, t)
  BY NumberingFacts
<1>0. n \in Nat /\ n <= Len(t) /\ Len(t) \in Nat
  OBVIOUS
<1>2. \A k \in 0..Len(t) : u[k] \in Seq(Variable)
  BY <1>1, VariablesTyped
<1> HIDE DEF u
<1>3. 0 \in S
  BY <1>0, <1>1 DEF NumberingOf
<1>4. ASSUME NEW k \in 1..n, k - 1 \in S PROVE k \in S
  <2>1. k \in 1..Len(t) /\ k - 1 \in 0..Len(t) /\ k \in Nat
    BY <1>0
  <2>2. u[k] = AssignVarNumber(u[k - 1], Anonymous) /\ u[k - 1] \in Seq(Variable)
    BY <1>1, <1>2, <2>1 DEF NumberingOf
  <2>3. u[k] = Append(u[k - 1], Anonymous)
    BY <2>2, AssignAnonymous
  <2>4. Len(u[k - 1]) = k - 1 /\ \A v \in 1..k - 1 : u[k - 1][v] = Anonymous
    BY <1>4
  <2>5. Len(u[k]) = k
    BY <2>1, <2>2, <2>3, <2>4
  <2>6. ASSUME NEW v \in 1..k PROVE u[k][v] = Anonymous
    <3>1. CASE v = k
      BY <2>1, <2>2, <2>3, <2>4, <3>1
    <3>2. CASE v \in 1..k - 1
      BY <2>1, <2>2, <2>3, <2>4, <3>2
    <3> QED BY <2>1, <3>1, <3>2
  <2> QED BY <2>5, <2>6
<1> HIDE DEF S
<1>5. 0..n \subseteq S
  BY <1>0, <1>3, <1>4, ByPlaceholder
<1>6. n \in S
  BY <1>0, <1>5
<1> QED BY <1>6 DEF S, u

\* In a text of nothing but "?" the k-th stands for variable k.
LEMMA AnonymousInOrder ==
  ASSUME NEW t \in Seq(Variable), NEW k \in 1..Len(t), \A i \in 1..Len(t) : t[i] = Anonymous
  PROVE  VarOf(t, k) = k
<1>1. k \in 0..Len(t) /\ \A i \in 1..k : t[i] = Anonymous
  OBVIOUS
<1>2. Len(Numbering(t)[k]) = k
  BY <1>1, AllAnonymous
<1>3. t[k] = Anonymous
  OBVIOUS
<1> QED BY <1>2, <1>3, Zenon DEF VarOf

\* A mix is refused: with one variable without a name none has one, and with
\* one that is a numeral all are.
LEMMA AcceptedPositional ==
  ASSUME Accepted, NEW v \in DOMAIN names, Positional(names)
  PROVE  /\ ~params.named
         /\ names[v] = "" \/ names[v] \in DOMAIN NumberOf
         /\ Chosen(names, params) = [j \in DOMAIN params.names |-> j]
<1>1. ~Mixed(names) /\ ~params.named
  BY DEF Accepted, Fits, UnnamedFor, names
<1>2. v \in empty(names) \/ v \in numbers(names)
  BY <1>1 DEF Positional, Mixed, Some
<1>3. Chosen(names, params) = [j \in DOMAIN params.names |-> j]
  BY DEF Chosen
<1> QED BY <1>1, <1>2, <1>3 DEF empty, numbers

\* By name: each variable gets the first parameter of its name.
LEMMA AcceptedByName ==
  ASSUME ListsInv, Accepted, NEW v \in DOMAIN names, ~Positional(names)
  PROVE  /\ names[v] # "" /\ names[v] \notin DOMAIN NumberOf
         /\ params.named
         /\ v \in DOMAIN Chosen(names, params)
         /\ Chosen(names, params)[v] \in DOMAIN params.names
         /\ params.names[Chosen(names, params)[v]] = names[v]
<1>1. names[v] # "" /\ names[v] \notin DOMAIN NumberOf
  BY DEF Positional, empty, numbers
<1>2. names[v] \in Range(params.names)
  BY DEF Accepted, Fits, Matched, AllGiven, names
<1>3. params.named
  BY <1>1, <1>2 DEF ListsInv, Range
<1>4. Chosen(names, params) = match(names, params)
  BY DEF Chosen
<1>5. /\ v \in DOMAIN match(names, params)
      /\ match(names, params)[v] = FirstOf(params.names, names[v])
  BY DEF match, FirstOf
<1>6. PICK ns \in Seq(NameOrNone) : ns = params.names
  BY DEF ListsInv
<1>7. /\ match(names, params)[v] \in DOMAIN params.names
      /\ params.names[match(names, params)[v]] = names[v]
  <2>1. PICK a \in Range(ns) : a = names[v]
    BY <1>2, <1>6, Zenon
  <2>2. PICK j : j = FirstOf(ns, a)
    OBVIOUS
  <2>3. j \in DOMAIN ns /\ ns[j] = a
    BY <2>2, FirstOfName
  <2> QED BY <1>5, <1>6, <2>1, <2>2, <2>3, Zenon
<1> QED BY <1>1, <1>3, <1>4, <1>5, <1>7

\* By position a variable has the value of its number, by name that of its name.
LEMMA ValuesBound == ValuesInv => EachPlaceholderGetsItsValue
<1> SUFFICES ASSUME ValuesInv, pc \in {"run", "done"}, NEW k \in DOMAIN text
             PROVE  VarOf(text, k) \in DOMAIN bound /\ Expected(k, bound[VarOf(text, k)])
  BY DEF EachPlaceholderGetsItsValue
<1> DEFINE v == VarOf(text, k)
           z == Variables(text)
<1>1. ListsInv /\ Accepted /\ bound = Chosen(names, params)
  BY DEF ValuesInv, BoundInv
<1>2. text \in Seq(Variable) /\ params.names \in Seq(NameOrNone)
  BY <1>1 DEF ListsInv
<1>3. k \in 1..Len(text) /\ text[k] \in Variable
  BY <1>2
<1>4. /\ v \in DOMAIN z
      /\ IsNumbered(text[k]) => v = NumberOf[text[k].name]
      /\ IsNamed(text[k]) => z[v] = text[k]
  BY <1>2, <1>3, VarInText
<1>5. /\ DOMAIN names = DOMAIN z /\ Len(names) = Len(z) /\ z \in Seq(Variable)
      /\ \A w \in DOMAIN names : names[w] = z[w].name
  BY <1>2, NamesAre
<1> HIDE DEF v, z
<1>6. v \in DOMAIN names /\ names[v] = z[v].name
  BY <1>4, <1>5
<1>7. CASE Positional(names)
  <2>1. /\ ~params.named /\ bound = [j \in DOMAIN params.names |-> j]
        /\ names[v] = "" \/ names[v] \in DOMAIN NumberOf
    BY <1>1, <1>6, <1>7, AcceptedPositional
  <2>2. Len(bound) = Len(names)
    BY <1>1 DEF Accepted, SizeFits, names
  <2>3. DOMAIN bound = DOMAIN names
    <3>0. PICK ns \in Seq(NameOrNone) : ns = params.names
      BY <1>2
    <3>a. DOMAIN ns = 1..Len(ns) /\ Len(ns) \in Nat
      BY <3>0
    <3>1. DOMAIN bound = 1..Len(params.names) /\ Len(params.names) \in Nat
      BY <2>1, <3>0, <3>a, Zenon
    <3>2. Len(bound) = Len(params.names)
      BY <3>1
    <3>3. DOMAIN names = 1..Len(z)
      BY <1>5
    <3> QED BY <1>5, <2>2, <3>1, <3>2, <3>3
  <2>4. v \in DOMAIN bound /\ bound[v] = v
    BY <1>6, <2>1, <2>3
  <2>5. ASSUME text[k] = Anonymous, OneSort PROVE v = k
    <3>1. Range(text) \subseteq {Anonymous}
      BY <1>3, <2>5, Sorts DEF OneSort
    <3>2. \A i \in 1..Len(text) : text[i] = Anonymous
      BY <1>2, <3>1 DEF Range
    <3> QED BY <1>2, <1>3, <3>2, AnonymousInOrder DEF v
  <2>6. ASSUME IsNamed(text[k]), ~IsNumeral(text[k]) PROVE FALSE
    <3>1. names[v] = text[k].name
      BY <1>4, <1>6, <2>6
    <3>2. text[k].name # ""
      BY <1>3, <2>6, Sorts
    <3> QED BY <2>1, <2>6, <3>1, <3>2 DEF IsNumeral
  <2> QED BY <1>4, <2>4, <2>5, <2>6 DEF Expected, v
<1>8. CASE ~Positional(names)
  <2>1. /\ names[v] # "" /\ names[v] \notin DOMAIN NumberOf /\ params.named
        /\ v \in DOMAIN bound /\ params.names[bound[v]] = names[v]
    BY <1>1, <1>6, <1>8, AcceptedByName
  <2>2. ASSUME text[k] = Anonymous, OneSort PROVE FALSE
    <3>1. Range(text) \subseteq {Anonymous}
      BY <1>3, <2>2, Sorts DEF OneSort
    <3>2. \A i \in 1..Len(text) : text[i] = Anonymous
      BY <1>2, <3>1 DEF Range
    <3>3. /\ Len(text) \in 0..Len(text)
          /\ z = Numbering(text)[Len(text)]
      BY <1>2 DEF z, Variables
    <3>4. Len(z) = Len(text) /\ \A w \in 1..Len(text) : z[w] = Anonymous
      BY <1>2, <3>2, <3>3, AllAnonymous
    <3>5. z[v] = Anonymous
      BY <1>4, <1>5, <3>4
    <3>6. Anonymous.name = ""
      BY DEF Anonymous
    <3> QED BY <1>6, <2>1, <3>5, <3>6, Zenon
  <2>3. IsNamed(text[k]) => names[v] = text[k].name
    BY <1>4, <1>6
  <2> QED BY <2>1, <2>2, <2>3 DEF Expected, v
<1> QED BY <1>7, <1>8

\* A statement runs only with every placeholder of its text bound to the
\* parameter the text means, through db_bind(), a second attempt and SQLite's
\* numbering of the placeholders.
THEOREM ValuesArrive == Spec => []EachPlaceholderGetsItsValue
  BY ValuesInit, ValuesStep, ValuesBound, PTL DEF Spec

----------------------------------------------------------------------------
(* What is accepted *)

\* Parameters taken by position.
LEMMA AcceptedIfPositional ==
  ASSUME ListsInv, Positional(names)
  PROVE  Accepted <=> /\ ~Mixed(names) /\ ~params.named
                      /\ OfOneLength(DOMAIN params.names)
                      /\ names # <<>> /\ Len(params.names) = Len(names)
<1>1. Fits(names, params, Superset) <=> ~Mixed(names) /\ ~params.named
  BY DEF Fits, UnnamedFor
<1>2. PICK list : list = Chosen(names, params) /\ list = [j \in DOMAIN params.names |-> j]
  BY DEF Chosen
<1>3. validate_params(list, params) <=> OfOneLength(DOMAIN params.names)
  BY <1>2 DEF validate_params, OfOneLength
<1>4. PICK ns \in Seq(NameOrNone) : ns = params.names
  BY DEF ListsInv
<1>5. DOMAIN ns = 1..Len(ns) /\ Len(ns) \in Nat
  BY <1>4
<1>6. Len(list) = Len(params.names)
  <2>1. list = [j \in 1..Len(ns) |-> j]
    BY <1>2, <1>4, <1>5, Zenon
  <2>2. list \in [1..Len(ns) -> Nat]
    BY <1>5, <2>1
  <2>3. Len(list) = Len(ns)
    BY <1>5, <2>2, FunctionIsSequence, Zenon
  <2> QED BY <1>4, <2>3, Zenon
<1>7. Accepted <=> /\ Fits(names, params, Superset) /\ validate_params(list, params)
                   /\ SizeFits(list, names)
  BY <1>2, Zenon DEF Accepted, names
<1> QED BY <1>1, <1>3, <1>6, <1>7 DEF SizeFits

\* A text without placeholders is not bound.
LEMMA AcceptedEmpty ==
  ASSUME ListsInv, text = <<>>
  PROVE  ~Accepted /\ ~Complete
<1>1. text \in Seq(Variable) /\ NumberingOf(Numbering(text), text)
  BY NumberingFacts DEF ListsInv
<1>2. Variables(text) = <<>>
  BY <1>1 DEF Variables, NumberingOf
<1>3. Len(names) = 0 /\ names \in Seq({t.name : t \in Variable})
  BY <1>1, <1>2, NamesAre
<1>4. names = <<>>
  BY <1>3
<1>5. ~Accepted
  BY <1>4 DEF Accepted, SizeFits, names
<1>6. Range(text) = {}
  BY DEF Range
<1> QED BY <1>5, <1>6 DEF Complete

\* "?" only: as many parameters as placeholders, without names.
LEMMA AcceptedAnonymous ==
  ASSUME ListsInv, text # <<>>, Range(text) \subseteq {Anonymous}
  PROVE  Accepted <=> Complete
<1> DEFINE z == Variables(text)
           n == Len(text)
<1>1. text \in Seq(Variable)
  BY DEF ListsInv
<1>2. n \in Nat /\ n # 0 /\ n \in 0..n /\ DOMAIN text = 1..n
  BY <1>1
<1>3. \A k \in 1..n : text[k] = Anonymous
  BY <1>2 DEF Range
<1>4. Len(z) = n /\ \A v \in 1..n : z[v] = Anonymous
  BY <1>1, <1>2, <1>3, AllAnonymous DEF Variables
<1>5. /\ names \in Seq({t.name : t \in Variable}) /\ Len(names) = Len(z)
      /\ \A v \in DOMAIN names : names[v] = z[v].name
  BY <1>1, NamesAre
<1> HIDE DEF z, n
<1>6. DOMAIN names = 1..n /\ Len(names) = n /\ names # <<>>
  BY <1>2, <1>4, <1>5
<1>7. \A v \in DOMAIN names : names[v] = ""
  <2>1. Anonymous.name = ""
    BY DEF Anonymous
  <2> QED BY <1>4, <1>5, <1>6, <2>1, Zenon
<1>8. empty(names) = DOMAIN names /\ numbers(names) = {}
  BY <1>7, TokensAssumption DEF empty, numbers
<1>9. DOMAIN names # {}
  BY <1>2, <1>6
<1>10. Positional(names) /\ ~Mixed(names)
  BY <1>8, <1>9 DEF Positional, Mixed, Some
<1>11. Accepted <=> /\ ~params.named /\ OfOneLength(DOMAIN params.names)
                    /\ Len(params.names) = n
  BY <1>6, <1>10, AcceptedIfPositional
<1>12. Range(text) = {Anonymous} /\ Anonymous \in Range(text)
  BY <1>2, <1>3 DEF Range
<1>13. ~IsNumbered(Anonymous) /\ ~IsNamed(Anonymous)
  BY NamedIsNotAnonymous DEF IsNumbered
<1> QED BY <1>11, <1>12, <1>13, Zenon DEF Complete, n

\* The variables made room for by numbers: those of the numbers met are taken,
\* and the last of all is one of them.
Filled(r, M) ==
  /\ \A m \in M : m \in 1..Len(r) /\ r[m] # Anonymous
  /\ \A v \in 1..Len(r) : r[v] # Anonymous => v \in M /\ IsNumbered(r[v])
  /\ Len(r) # 0 => r[Len(r)] # Anonymous

\* One more number fills its place, or makes room up to it.
LEMMA FillOne ==
  ASSUME NEW s \in Seq(Variable), NEW M, Filled(s, M), NEW t \in Variable, IsNumbered(t)
  PROVE  Filled(AssignVarNumber(s, t), M \cup {NumberOf[t.name]})
<1> DEFINE r == AssignVarNumber(s, t)
           n == NumberOf[t.name]
<1>1. /\ r \in Seq(Variable) /\ n \in Nat \ {0}
      /\ Len(r) = IF n >= Len(s) THEN n ELSE Len(s)
      /\ n \in 1..Len(r)
      /\ \A v \in 1..Len(r) :
           r[v] = IF v = n /\ (v > Len(s) \/ s[v] = Anonymous) THEN t
                  ELSE IF v > Len(s) THEN Anonymous ELSE s[v]
  BY AssignNumbered
<1> HIDE DEF r, n
<1>2. t # Anonymous
  BY DEF IsNumbered
<1>3. Len(s) \in Nat /\ Len(r) \in Nat /\ Len(s) <= Len(r)
  BY <1>1
<1>4. /\ \A m \in M : m \in 1..Len(s) /\ s[m] # Anonymous
      /\ \A v \in 1..Len(s) : s[v] # Anonymous => v \in M /\ IsNumbered(s[v])
      /\ Len(s) # 0 => s[Len(s)] # Anonymous
  BY DEF Filled
<1>5. r[n] # Anonymous
  BY <1>1, <1>2
<1>6. ASSUME NEW m \in M \cup {n} PROVE m \in 1..Len(r) /\ r[m] # Anonymous
  <2>1. CASE m = n
    BY <1>1, <1>5, <2>1
  <2>2. CASE m \in M /\ m # n
    <3>1. m \in 1..Len(s) /\ s[m] # Anonymous /\ m \in 1..Len(r) /\ ~(m > Len(s))
      BY <1>3, <1>4, <2>2
    <3> QED BY <1>1, <2>2, <3>1
  <2> QED BY <2>1, <2>2
<1>7. ASSUME NEW v \in 1..Len(r), r[v] # Anonymous
      PROVE  v \in M \cup {n} /\ IsNumbered(r[v])
  <2>1. CASE v = n /\ (v > Len(s) \/ s[v] = Anonymous)
    BY <1>1, <2>1
  <2>2. CASE ~(v = n /\ (v > Len(s) \/ s[v] = Anonymous))
    <3>1. ~(v > Len(s)) /\ r[v] = s[v]
      BY <1>1, <1>7, <2>2
    <3>2. v \in 1..Len(s)
      BY <1>3, <3>1
    <3> QED BY <1>4, <1>7, <3>1, <3>2
  <2> QED BY <2>1, <2>2
<1>8. r[Len(r)] # Anonymous
  <2>1. CASE n >= Len(s)
    BY <1>1, <1>5, <2>1
  <2>2. CASE ~(n >= Len(s))
    <3>1. Len(r) = Len(s) /\ Len(s) # 0 /\ Len(r) \in 1..Len(r) /\ Len(r) # n
      BY <1>1, <1>3, <2>2
    <3>2. r[Len(r)] = s[Len(r)]
      BY <1>1, <1>3, <3>1
    <3> QED BY <1>4, <3>1, <3>2
  <2> QED BY <2>1, <2>2
<1>9. Filled(r, M \cup {n})
  BY <1>6, <1>7, <1>8 DEF Filled
<1> QED BY <1>9 DEF r, n

\* The numbers among the first k placeholders.
Numbers(t, k) == {NumberOf[t[j].name] : j \in 1..k}

\* In a text of numbers the variables without a name are the gaps.
LEMMA AllNumbered ==
  ASSUME NEW t \in Seq(Variable), \A k \in 1..Len(t) : IsNumbered(t[k])
  PROVE  Filled(Variables(t), Numbers(t, Len(t)))
<1> DEFINE u == Numbering(t)
           S == {k \in 0..Len(t) : Filled(u[k], Numbers(t, k))}
<1>1. NumberingOf(u, t) /\ Len(t) \in Nat
  BY NumberingFacts
<1>2. \A k \in 0..Len(t) : u[k] \in Seq(Variable)
  BY <1>1, VariablesTyped
<1> HIDE DEF u
<1>3. 0 \in S
  <2>1. Numbers(t, 0) = {}
    BY DEF Numbers
  <2>2. u[0] = <<>> /\ Len(<<>>) = 0
    BY <1>1 DEF NumberingOf
  <2>3. Filled(u[0], {})
    BY <2>2 DEF Filled
  <2>4. 0 \in 0..Len(t)
    BY <1>1
  <2>5. Filled(u[0], Numbers(t, 0))
    BY <2>1, <2>3, Zenon
  <2> QED BY <2>4, <2>5, Zenon
<1>4. ASSUME NEW k \in 1..Len(t), k - 1 \in S PROVE k \in S
  <2>1. k - 1 \in 0..Len(t) /\ k \in 0..Len(t) /\ t[k] \in Variable
    BY <1>1
  <2>2. u[k] = AssignVarNumber(u[k - 1], t[k])
    BY <1>1 DEF NumberingOf
  <2>3. Filled(u[k - 1], Numbers(t, k - 1))
    BY <1>4
  <2>4. Numbers(t, k) = Numbers(t, k - 1) \cup {NumberOf[t[k].name]}
    <3>1. 1..k = (1..k - 1) \cup {k}
      BY <1>1
    <3> QED BY <3>1, Zenon DEF Numbers
  <2>5. u[k - 1] \in Seq(Variable)
    BY <1>2, <2>1
  <2>6. Filled(u[k], Numbers(t, k))
    BY <2>1, <2>2, <2>3, <2>4, <2>5, FillOne
  <2> QED BY <2>1, <2>6
<1> HIDE DEF S
<1>5. 0..Len(t) \subseteq S
  BY <1>1, <1>3, <1>4, ByPlaceholder
<1>6. Len(t) \in S
  BY <1>1, <1>5
<1> QED BY <1>6 DEF S, u, Variables

\* Numbers only: without a gap, and as many parameters as the largest number.
LEMMA AcceptedNumbered ==
  ASSUME ListsInv, text # <<>>, \A k \in DOMAIN text : IsNumbered(text[k])
  PROVE  Accepted <=> Complete
<1> DEFINE z == Variables(text)
           M == Numbers(text, Len(text))
<1>1. text \in Seq(Variable) /\ params.names \in Seq(NameOrNone)
  BY DEF ListsInv
<1>2. DOMAIN text = 1..Len(text) /\ Len(text) \in Nat /\ Len(text) # 0
  BY <1>1
<1>3. Filled(z, M)
  BY <1>1, <1>2, AllNumbered
<1>4. /\ names \in Seq({t.name : t \in Variable}) /\ Len(names) = Len(z)
      /\ DOMAIN names = DOMAIN z
      /\ \A v \in DOMAIN names : names[v] = z[v].name
      /\ z \in Seq(Variable)
  BY <1>1, NamesAre
<1>5. M = {NumberOf[t.name] : t \in Range(text)} /\ M # {}
  BY <1>2 DEF Numbers, Range
<1> HIDE DEF z, M
<1>6. Len(z) \in Nat /\ DOMAIN z = 1..Len(z)
  BY <1>4
<1>7. Len(z) # 0 /\ Len(z) \in 1..Len(z) /\ z[Len(z)] # Anonymous
  <2>1. PICK m \in M : m \in 1..Len(z)
    BY <1>3, <1>5 DEF Filled
  <2>2. Len(z) # 0 /\ Len(z) \in 1..Len(z)
    BY <1>6, <2>1
  <2> QED BY <1>3, <2>2 DEF Filled
<1>8. ASSUME NEW v \in DOMAIN names
      PROVE  /\ v \in empty(names) <=> z[v] = Anonymous
             /\ v \in numbers(names) <=> z[v] # Anonymous
             /\ v \in M <=> z[v] # Anonymous
  <2>1. v \in 1..Len(z) /\ z[v] \in Variable /\ names[v] = z[v].name
    BY <1>4, <1>6
  <2>2. v \in M <=> z[v] # Anonymous
    BY <1>3, <2>1 DEF Filled
  <2>3. names[v] = "" <=> z[v] = Anonymous
    BY <2>1, Sorts
  <2>4. names[v] \in DOMAIN NumberOf <=> z[v] # Anonymous
    <3>1. CASE z[v] = Anonymous
      BY <2>3, <3>1, TokensAssumption
    <3>2. CASE z[v] # Anonymous
      <4>1. IsNumbered(z[v])
        BY <1>3, <2>1, <3>2 DEF Filled
      <4> QED BY <2>1, <3>2, <4>1, Sorts
    <3> QED BY <3>1, <3>2
  <2> QED BY <2>2, <2>3, <2>4 DEF empty, numbers
<1>9. Len(z) \in DOMAIN names /\ Len(z) \in numbers(names) /\ Len(z) \notin empty(names)
  BY <1>4, <1>6, <1>7, <1>8
<1>10. empty(names) \subseteq DOMAIN names /\ numbers(names) \subseteq DOMAIN names
  BY DEF empty, numbers
<1>11. Positional(names)
  BY <1>9 DEF Positional
<1>12. M \subseteq DOMAIN names
  BY <1>3, <1>4, <1>6 DEF Filled
<1>13. ~Mixed(names) <=> M = DOMAIN names
  <2>1. ~Mixed(names) <=> empty(names) = {} /\ numbers(names) = DOMAIN names
    BY <1>9 DEF Mixed, Some
  <2>2. empty(names) = {} <=> \A v \in DOMAIN names : v \in M
    BY <1>8, <1>10
  <2>3. numbers(names) = DOMAIN names <=> \A v \in DOMAIN names : v \in M
    BY <1>8, <1>10
  <2> QED BY <1>12, <2>1, <2>2, <2>3
<1>14. names # <<>>
  BY <1>4, <1>7
<1>15. Accepted <=> /\ M = DOMAIN names /\ ~params.named
                    /\ OfOneLength(DOMAIN params.names) /\ Len(params.names) = Len(z)
  BY <1>4, <1>11, <1>13, <1>14, AcceptedIfPositional
<1>16. DOMAIN params.names = 1..Len(params.names) /\ Len(params.names) \in Nat
  <2>1. PICK ns \in Seq(NameOrNone) : ns = params.names
    BY <1>1
  <2>2. DOMAIN ns = 1..Len(ns) /\ Len(ns) \in Nat
    BY <2>1
  <2> QED BY <2>1, <2>2, Zenon
<1>17. M = DOMAIN names /\ Len(params.names) = Len(z) <=> M = DOMAIN params.names
  <2>1. ASSUME M = DOMAIN params.names PROVE Len(params.names) = Len(z)
    <3>1. Len(z) \in M
      BY <1>8, <1>9, <1>7
    <3>2. Len(params.names) \in 1..Len(z)
      <4>1. Len(params.names) \in 1..Len(params.names)
        BY <1>5, <1>16, <2>1
      <4> QED BY <1>4, <1>6, <1>12, <1>16, <2>1, <4>1
    <3> QED BY <1>6, <1>16, <2>1, <3>1, <3>2
  <2> QED BY <1>4, <1>6, <1>16, <2>1
<1>18. Accepted <=> /\ M = DOMAIN params.names /\ ~params.named
                    /\ OfOneLength(DOMAIN params.names)
  BY <1>15, <1>17
<1>19. Range(text) # {} /\ \A t \in Range(text) : IsNumbered(t) /\ ~IsNamed(t) /\ t # Anonymous
  BY <1>2 DEF Range, IsNumbered, IsNamed
<1>20. Range(text) # {Anonymous}
  BY <1>19
<1> QED BY <1>5, <1>18, <1>19, <1>20, Zenon DEF Complete

\* Names open variables: those of a text of names are the names met.
LEMMA AllNamed ==
  ASSUME NEW t \in Seq(Variable), \A k \in 1..Len(t) : IsNamed(t[k])
  PROVE  Range(Variables(t)) = Range(t)
<1> DEFINE u == Numbering(t)
           Met(k) == {t[j] : j \in 1..k}
           S == {k \in 0..Len(t) : Range(u[k]) = Met(k)}
<1>1. NumberingOf(u, t) /\ Len(t) \in Nat /\ DOMAIN t = 1..Len(t)
  BY NumberingFacts
<1>2. \A k \in 0..Len(t) : u[k] \in Seq(Variable)
  BY <1>1, VariablesTyped
<1> HIDE DEF u
<1>3. 0 \in S
  <2>1. Met(0) = {}
    OBVIOUS
  <2>2. u[0] = <<>> /\ Range(<<>>) = {}
    BY <1>1 DEF NumberingOf, Range
  <2>3. 0 \in 0..Len(t)
    BY <1>1
  <2> HIDE DEF Met
  <2> QED BY <2>1, <2>2, <2>3, Zenon
<1>4. ASSUME NEW k \in 1..Len(t), k - 1 \in S PROVE k \in S
  <2> DEFINE s == u[k - 1]
             r == u[k]
  <2>1. k - 1 \in 0..Len(t) /\ k \in 0..Len(t) /\ t[k] \in Variable /\ IsNamed(t[k])
    BY <1>1
  <2>2. r = AssignVarNumber(s, t[k])
    BY <1>1 DEF NumberingOf
  <2>3. Range(s) = Met(k - 1)
    BY <1>4
  <2>4. s \in Seq(Variable)
    BY <1>2, <2>1
  <2>5. Met(k) = Met(k - 1) \cup {t[k]}
    <3>1. 1..k = (1..k - 1) \cup {k}
      BY <1>1
    <3> QED BY <3>1, Zenon
  <2> HIDE DEF s, r, Met
  <2>6. \/ r = s /\ \E v \in 1..Len(s) : s[v] = t[k]
        \/ r = Append(s, t[k])
    BY <2>1, <2>2, <2>4, AssignNamed
  <2>7. Range(r) = Range(s) \cup {t[k]}
    <3>1. CASE r = s /\ \E v \in 1..Len(s) : s[v] = t[k]
      BY <2>4, <3>1 DEF Range
    <3>2. CASE r = Append(s, t[k])
      <4>1. /\ DOMAIN r = (DOMAIN s) \cup {Len(s) + 1} /\ r[Len(s) + 1] = t[k]
            /\ \A v \in DOMAIN s : r[v] = s[v]
        BY <2>1, <2>4, <3>2
      <4> QED BY <4>1, Zenon DEF Range
    <3> QED BY <2>6, <3>1, <3>2
  <2>8. Range(r) = Met(k)
    BY <2>3, <2>5, <2>7
  <2> QED BY <2>1, <2>8 DEF r
<1> HIDE DEF S
<1>5. 0..Len(t) \subseteq S
  BY <1>1, <1>3, <1>4, ByPlaceholder
<1>6. Len(t) \in S
  BY <1>1, <1>5
<1>7. Range(u[Len(t)]) = Met(Len(t))
  BY <1>6 DEF S
<1>8. Met(Len(t)) = Range(t)
  BY <1>1 DEF Range
<1> QED BY <1>7, <1>8, Zenon DEF u, Variables

\* The parameters in use: the first of each name of the text.
Firsts(ns, N) ==
  {j \in DOMAIN ns : ns[j] \in N /\ \A h \in 1..(j - 1) : ns[h] # ns[j]}

\* These are what match() finds; all parameters are if none is left over.
LEMMA FirstsAre ==
  ASSUME NEW ns \in Seq(NameOrNone), NEW N, N \subseteq Range(ns)
  PROVE  /\ {FirstOf(ns, a) : a \in N} = Firsts(ns, N)
         /\ DOMAIN ns = Firsts(ns, N) <=> N = Range(ns) /\ IsInjective(ns)
<1>1. DOMAIN ns = 1..Len(ns) /\ Len(ns) \in Nat
  OBVIOUS
<1>2. ASSUME NEW a \in N PROVE FirstOf(ns, a) \in Firsts(ns, N)
  <2>1. PICK j : j = FirstOf(ns, a)
    OBVIOUS
  <2>2. j \in DOMAIN ns /\ ns[j] = a /\ \A h \in 1..(j - 1) : ns[h] # a
    BY <2>1, FirstOfName
  <2> QED BY <2>1, <2>2 DEF Firsts
<1>3. ASSUME NEW j \in Firsts(ns, N) PROVE \E a \in N : j = FirstOf(ns, a)
  <2>1. /\ j \in DOMAIN ns /\ ns[j] \in N
        /\ \A h \in 1..(j - 1) : ns[h] # ns[j]
    BY DEF Firsts
  <2>2. PICK i : i = FirstOf(ns, ns[j])
    OBVIOUS
  <2>3. i \in DOMAIN ns /\ ns[i] = ns[j] /\ \A h \in 1..(i - 1) : ns[h] # ns[j]
    <3>1. ns[j] \in Range(ns)
      BY <2>1
    <3> QED BY <2>2, <3>1, FirstOfName
  <2>4. ~(i < j) /\ ~(j < i)
    BY <1>1, <2>1, <2>3
  <2>5. i = j
    BY <1>1, <2>1, <2>3, <2>4
  <2> QED BY <2>1, <2>2, <2>5
<1>4. {FirstOf(ns, a) : a \in N} = Firsts(ns, N)
  BY <1>2, <1>3, Zenon
<1>5. ASSUME DOMAIN ns = Firsts(ns, N) PROVE N = Range(ns) /\ IsInjective(ns)
  <2>1. \A j \in DOMAIN ns : ns[j] \in N /\ \A h \in 1..(j - 1) : ns[h] # ns[j]
    BY <1>5 DEF Firsts
  <2>2. Range(ns) \subseteq N
    BY <2>1 DEF Range
  <2>3. ASSUME NEW j \in DOMAIN ns, NEW i \in DOMAIN ns, ns[i] = ns[j] PROVE i = j
    <3>1. ~(i \in 1..(j - 1)) /\ ~(j \in 1..(i - 1))
      BY <2>1, <2>3
    <3> QED BY <1>1, <3>1
  <2> QED BY <2>2, <2>3 DEF IsInjective
<1>6. ASSUME N = Range(ns), IsInjective(ns) PROVE DOMAIN ns = Firsts(ns, N)
  <2>1. ASSUME NEW j \in DOMAIN ns PROVE j \in Firsts(ns, N)
    <3>1. ns[j] \in N
      BY <1>6 DEF Range
    <3>2. ASSUME NEW h \in 1..(j - 1) PROVE ns[h] # ns[j]
      <4>1. h \in DOMAIN ns /\ h # j
        BY <1>1
      <4> QED BY <1>6, <4>1 DEF IsInjective
    <3> QED BY <3>1, <3>2 DEF Firsts
  <2> QED BY <2>1 DEF Firsts
<1> QED BY <1>4, <1>5, <1>6

\* Names only: each is given, and none is left over or given twice.
LEMMA AcceptedNamed ==
  ASSUME ListsInv, text # <<>>,
         \A k \in DOMAIN text : IsNamed(text[k]) /\ ~IsNumeral(text[k])
  PROVE  Accepted <=> Complete
<1> DEFINE z == Variables(text)
           N == {t.name : t \in Range(text)}
           list == match(names, params)
<1>1. text \in Seq(Variable) /\ DOMAIN text = 1..Len(text) /\ Len(text) \in Nat /\ Len(text) # 0
  <2>1. text \in Seq(Variable)
    BY DEF ListsInv
  <2> QED BY <2>1
<1>2. PICK ns \in Seq(NameOrNone) : ns = params.names
  BY DEF ListsInv
<1>3. /\ names \in Seq({t.name : t \in Variable}) /\ Len(names) = Len(z)
      /\ DOMAIN names = DOMAIN z
      /\ \A v \in DOMAIN names : names[v] = z[v].name
      /\ z \in Seq(Variable)
  BY <1>1, NamesAre
<1>4. Range(z) = Range(text)
  BY <1>1, AllNamed
<1>5. \A t \in Range(text) : t \in Variable /\ IsNamed(t) /\ t.name \notin DOMAIN NumberOf
  BY <1>1 DEF Range, IsNumeral
<1>6. \A t \in Range(text) : t.name # "" /\ ~IsNumbered(t) /\ t # Anonymous
  BY <1>5, Sorts
<1>7. Range(text) # {}
  <2>1. 1 \in DOMAIN text
    BY <1>1
  <2> QED BY <2>1, Zenon DEF Range
<1> HIDE DEF z
<1>8. ASSUME NEW v \in DOMAIN names
      PROVE  names[v] \in N /\ names[v] # "" /\ names[v] \notin DOMAIN NumberOf
  <2>1. z[v] \in Range(text) /\ names[v] = z[v].name
    BY <1>3, <1>4 DEF Range
  <2> QED BY <1>5, <1>6, <2>1
<1>9. \A a \in N : \E v \in DOMAIN names : names[v] = a
  <2> SUFFICES ASSUME NEW t \in Range(text) PROVE \E v \in DOMAIN names : names[v] = t.name
    OBVIOUS
  <2>1. PICK v \in DOMAIN z : z[v] = t
    BY <1>4 DEF Range
  <2> QED BY <1>3, <2>1
<1> HIDE DEF N
<1>10. empty(names) = {} /\ numbers(names) = {}
  BY <1>8 DEF empty, numbers
<1>11. ~Mixed(names) /\ ~Positional(names)
  BY <1>10 DEF Mixed, Positional, Some
<1>12. AllGiven(names, params) <=> N \subseteq Range(ns)
  BY <1>2, <1>8, <1>9 DEF AllGiven
<1>13. names # <<>>
  <2>1. DOMAIN names # {}
    BY <1>7, <1>9 DEF N
  <2> QED BY <2>1
<1>14. /\ DOMAIN list = DOMAIN names
       /\ \A v \in DOMAIN names : list[v] = FirstOf(ns, names[v])
  BY <1>2 DEF match, FirstOf
<1>15. Len(list) = Len(names)
  <2>1. DOMAIN names = 1..Len(names) /\ Len(names) \in Nat
    BY <1>3
  <2>2. list = [v \in 1..Len(names) |-> list[v]]
    BY <2>1, Zenon DEF match
  <2> HIDE DEF list
  <2> QED BY <2>1, <2>2, FunctionLength, Zenon
<1> HIDE DEF list
<1>16. Range(list) = {FirstOf(ns, a) : a \in N}
  <2>1. ASSUME NEW v \in DOMAIN list PROVE \E a \in N : list[v] = FirstOf(ns, a)
    <3>1. v \in DOMAIN names /\ list[v] = FirstOf(ns, names[v])
      BY <1>14, Zenon
    <3> QED BY <1>8, <3>1, Zenon
  <2>2. ASSUME NEW a \in N PROVE \E v \in DOMAIN list : list[v] = FirstOf(ns, a)
    BY <1>9, <1>14, Zenon
  <2> QED BY <2>1, <2>2, Zenon DEF Range
<1>17. validate_params(list, params) <=> OfOneLength(Range(list))
  BY DEF validate_params, OfOneLength, Range
<1>18. Accepted <=> /\ N \subseteq Range(ns)
                    /\ Superset \/ DOMAIN ns = Range(list)
                    /\ OfOneLength(Range(list))
  <2>1. Accepted <=> /\ Fits(names, params, Superset)
                     /\ validate_params(Chosen(names, params), params)
                     /\ SizeFits(Chosen(names, params), names)
    BY Zenon DEF Accepted, names
  <2>2. Chosen(names, params) = list
    BY <1>11 DEF Chosen, list
  <2>3. Fits(names, params, Superset) <=>
          AllGiven(names, params) /\ (Superset \/ AllUsed(names, params))
    BY <1>11 DEF Fits, Matched
  <2>4. AllUsed(names, params) <=> DOMAIN ns = Range(list)
    BY <1>2, Zenon DEF AllUsed, list
  <2>5. SizeFits(list, names)
    BY <1>13, <1>15 DEF SizeFits
  <2> QED BY <1>12, <1>17, <2>1, <2>2, <2>3, <2>4, <2>5, Zenon
<1>19. ASSUME N \subseteq Range(ns)
       PROVE  /\ Range(list) = Firsts(ns, N)
              /\ DOMAIN ns = Range(list) <=> N = Range(ns) /\ IsInjective(ns)
  <2>1. {FirstOf(ns, a) : a \in N} = Firsts(ns, N)
    BY <1>19, FirstsAre, Zenon
  <2>2. DOMAIN ns = Firsts(ns, N) <=> N = Range(ns) /\ IsInjective(ns)
    BY <1>19, FirstsAre, Zenon
  <2> QED BY <1>16, <2>1, <2>2, Zenon
<1>20. Complete <=> /\ N \subseteq Range(ns)
                    /\ ~Superset => N = Range(ns) /\ IsInjective(ns)
                    /\ OfOneLength(Firsts(ns, N))
  <2>1. Range(text) # {Anonymous} /\ ~(\A t \in Range(text) : IsNumbered(t))
    BY <1>6, <1>7
  <2> QED BY <1>2, <1>5, <1>7, <2>1, Zenon DEF Complete, Firsts, N
<1> QED BY <1>18, <1>19, <1>20, Zenon

\* The three sorts together.
LEMMA ListsAccepted == ListsInv => AcceptedIffComplete
<1> SUFFICES ASSUME ListsInv, OneSort PROVE Accepted <=> Complete
  BY DEF AcceptedIffComplete
<1>1. text \in Seq(Variable)
  BY DEF ListsInv
<1>2. CASE text = <<>>
  BY <1>2, AcceptedEmpty
<1>3. CASE text # <<>>
  BY <1>3, AcceptedAnonymous, AcceptedNumbered, AcceptedNamed DEF OneSort
<1> QED BY <1>2, <1>3

\* A query with placeholders of one sort is bound exactly when each of them has
\* a value and nothing is left over, for any numbers, names and duplicates.
THEOREM AcceptedExactly == Spec => []AcceptedIffComplete
<1>1. ValuesInv => AcceptedIffComplete
  BY ListsAccepted DEF ValuesInv
<1> QED BY ValuesInit, ValuesStep, <1>1, PTL DEF Spec
=============================================================================
