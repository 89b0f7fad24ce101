------------------------------- MODULE Params -------------------------------
(***************************************************************************)
(* From the parameters a caller passes to the variables of a statement:    *)
(* db_bind() (src/R/db_bind.R), DbResult::validate_params() and the checks *)
(* of SqliteResultImpl::bind(), reached from dbBind(), from dbSendQuery()  *)
(* with parameters, and from the deprecated dbSendPreparedQuery() and      *)
(* dbGetPreparedQuery(), which try a data frame by name and, whatever the  *)
(* error, a second time by position.                                       *)
(*                                                                         *)
(* A text is the sequence of placeholders in a query.  SQLite makes        *)
(* numbered variables of them; RSQLite sees only the names of these        *)
(* variables, without their first character.  The value of a parameter is  *)
(* its position in the caller's list; parameters are vectors, and the      *)
(* statement is executed once for each of their elements (module           *)
(* ResultSet has the details of that).                                     *)
(***************************************************************************)
EXTENDS Integers, Sequences, SequencesExt, FiniteSetsExt

CONSTANTS
  Tokens,       \* placeholders a text is made of
  NumberOf,     \* the numerals among their names, and the numbers they spell
  ParamNames,   \* names a caller gives to parameters
  MaxTokens,    \* bound: placeholders in a text
  MaxParams,    \* bound: parameters in a list
  Lengths       \* lengths of parameter vectors

\* "?" is anonymous, "?3" is numbered, ":name", "@name" and "$name" are named.
Anonymous == [sigil |-> "?", name |-> ""]
IsNumbered(t) == t.sigil = "?" /\ t # Anonymous
IsNamed(t) == t.sigil # "?"

ASSUME TokensAssumption ==
  /\ \A t \in Tokens : IsNumbered(t) => t.name \in DOMAIN NumberOf
  /\ \A m \in DOMAIN NumberOf : NumberOf[m] \in Nat \ {0}
  /\ "" \notin DOMAIN NumberOf \cup ParamNames
  /\ \A t \in Tokens : t.name = "" => t = Anonymous

ASSUME LengthsAssumption ==
  /\ Lengths \subseteq Nat
  /\ \E n \in Lengths : \A m \in Lengths : n >= m

VARIABLES
  text,         \* the placeholders of the query
  call,         \* the R function that was called
  params,       \* the list db_bind() is working on
  attempt,      \* of the prepared queries: 1 by name, 2 by position
  pc,           \* "match", "run", "done", "failed"
  stage,        \* "bind" inside db_bind(), "fetch" after it
  bound,        \* params_: for each variable the position of its value
  group,        \* group_
  started,      \* history: executions begun of each group
  result        \* the result set: "open", "cleared"

vars == <<text, call, params, attempt, pc, stage, bound, group, started, result>>

----------------------------------------------------------------------------
(* SQLite's numbering of placeholders, and what RSQLite sees of it *)

\* The variables after one more placeholder.  A number makes room for itself
\* with variables that have no name; a name met again is the same variable.
AssignVarNumber(variables, t) ==
  IF t = Anonymous THEN Append(variables, t)
  ELSE IF IsNamed(t)
  THEN IF Contains(variables, t) THEN variables ELSE Append(variables, t)
  ELSE LET n == NumberOf[t.name]
       IN  [v \in 1..Max({n, Len(variables)}) |->
              IF v = n /\ (v > Len(variables) \/ variables[v] = Anonymous) THEN t
              ELSE IF v > Len(variables) THEN Anonymous ELSE variables[v]]

\* The variables of the first k placeholders, for every k.
Numbering(t) ==
  LET after[k \in 0..Len(t)] ==
        IF k = 0 THEN <<>> ELSE AssignVarNumber(after[k - 1], t[k])
  IN  after

Variables(t) == Numbering(t)[Len(t)]

\* The variable that placeholder k of a text stands for.
VarOf(t, k) ==
  LET sofar == Numbering(t)[k]
  IN  IF t[k] = Anonymous THEN Len(sofar)
      ELSE IF IsNumbered(t[k]) THEN NumberOf[t[k].name]
      ELSE CHOOSE v \in DOMAIN sofar : sofar[v] = t[k]

get_placeholder_names(t) == [v \in DOMAIN Variables(t) |-> Variables(t)[v].name]

----------------------------------------------------------------------------
(* db_bind() *)

empty(names) == {v \in DOMAIN names : names[v] = ""}
numbers(names) == {v \in DOMAIN names : names[v] \in DOMAIN NumberOf}

\* "Cannot mix ... placeholders in query"
Some(S, names) == S # {} /\ S # DOMAIN names
Mixed(names) == Some(empty(names), names) \/ Some(numbers(names), names)

\* Anonymous and numbered placeholders take their values by position.
Positional(names) == empty(names) # {} \/ numbers(names) # {}

\* match(placeholder_names, names(params)): the first of that name.
matchInOrder(names, ps) == [v \in DOMAIN names |-> v]
match(names, ps) ==
  [v \in DOMAIN names |-> Min({j \in DOMAIN ps.names : ps.names[j] = names[v]})]

AllGiven(names, ps) == \A v \in DOMAIN names : names[v] \in Range(ps.names)
AllUsed(names, ps) == DOMAIN ps.names = Range(match(names, ps))

\* unused parameters are an error, or only a warning (allow_named_superset)
Matched(names, ps, superset) ==
  /\ AllGiven(names, ps)
  /\ superset \/ AllUsed(names, ps)

\* "Cannot use named parameters for anonymous/numbered placeholders"
UnnamedNotChecked(ps) == TRUE
UnnamedFor(ps) == ~ps.named

FitsAny(names, ps, superset) ==
  /\ ~Mixed(names)
  /\ Positional(names) => UnnamedFor(ps)
  /\ ~Positional(names) => AllGiven(names, ps)
Fits(names, ps, superset) ==
  /\ ~Mixed(names)
  /\ IF Positional(names) THEN UnnamedFor(ps) ELSE Matched(names, ps, superset)

\* The list db_bind() hands to result_bind().
Chosen(names, ps) ==
  IF Positional(names) THEN [j \in DOMAIN ps.names |-> j] ELSE match(names, ps)

\* DbResult::validate_params(): "Parameter %i does not have length %d."
validate_params(list, ps) == \A v, w \in DOMAIN list : ps.lengths[list[v]] = ps.lengths[list[w]]

\* The head of bind(): "Query does not require parameters." and
\* "Query requires %i params; %i supplied."
SizeFits(list, names) == names # <<>> /\ Len(list) = Len(names)

\* Only the first attempt of a prepared query tolerates unused parameters.
Prepared == call \in {"dbGetPreparedQuery", "dbSendPreparedQuery"}
Superset == Prepared /\ attempt = 1

Accepted ==
  LET names == get_placeholder_names(text)
  IN  /\ Fits(names, params, Superset)
      /\ validate_params(Chosen(names, params), params)
      /\ SizeFits(Chosen(names, params), names)

----------------------------------------------------------------------------
(* The calls *)

\* Lists as a caller may pass them: without names or with one for each.
Lists ==
  UNION {[named : {FALSE}, names : [1..m -> {""}], lengths : [1..m -> Lengths]] \cup
         [named : {TRUE}, names : [1..m -> ParamNames], lengths : [1..m -> Lengths]] :
           m \in 0..MaxParams}

\* A data frame has named columns of one length.
DataFrames ==
  {ps \in Lists : ps.named /\ \A j, k \in DOMAIN ps.lengths : ps.lengths[j] = ps.lengths[k]}

unname(ps) == [named |-> FALSE, names |-> [j \in DOMAIN ps.names |-> ""],
               lengths |-> ps.lengths]

Texts == UNION {[1..m -> Tokens] : m \in 0..MaxTokens}
Groups == 1..Max(Lengths)

Init ==
  /\ text \in Texts
  /\ \/ call \in {"dbBind", "dbSendQuery"} /\ params \in Lists
     \/ call \in {"dbGetPreparedQuery", "dbSendPreparedQuery"} /\ params \in DataFrames
  /\ attempt = 1 /\ pc = "match" /\ stage = "bind"
  /\ bound = <<>> /\ group = 0 /\ started = [g \in Groups |-> 0]
  /\ result = "open"

\* An error inside db_bind() is caught once by the prepared queries.  What goes
\* up to the caller leaves the result set open, unless on.exit() clears it.
Raise ==
  IF Prepared /\ stage = "bind" /\ attempt = 1
  THEN /\ attempt' = 2
       /\ params' = unname(params)
       /\ pc' = "match"
       /\ UNCHANGED result
  ELSE /\ pc' = "failed"
       /\ result' = IF call \in {"dbSendQuery", "dbGetPreparedQuery"} THEN "cleared" ELSE result
       /\ UNCHANGED <<attempt, params>>

\* The call comes to its end; dbGetPreparedQuery() clears its result set.
Return ==
  /\ pc' = "done"
  /\ result' = IF call = "dbGetPreparedQuery" THEN "cleared" ELSE result

\* db_bind() or result_bind() refuses the parameters.
Refuse ==
  /\ pc = "match" /\ ~Accepted
  /\ Raise
  /\ UNCHANGED <<text, call, stage, bound, group, started>>

\* groups_: the length of the first parameter bound.
Count(list) == params.lengths[list[1]]
groups == Count(bound)

\* bind(): set_params(), and the first group if there is one.
Bind ==
  /\ pc = "match" /\ Accepted
  /\ bound' = Chosen(get_placeholder_names(text), params)
  /\ group' = 0
  /\ IF Count(bound') = 0 THEN Return ELSE pc' = "run" /\ UNCHANGED result
  /\ UNCHANGED <<text, call, params, attempt, stage, started>>

Started == [started EXCEPT ![group + 1] = @ + 1]

\* An execution ends without a row, or with rows while they are being fetched:
\* the next group follows in the same call.
GroupEnds ==
  /\ pc = "run"
  /\ started' = Started
  /\ group' = group + 1
  /\ IF group' = groups THEN Return ELSE UNCHANGED <<pc, result>>
  /\ UNCHANGED <<text, call, params, attempt, stage, bound>>

\* The first row: binding returns.  dbGetPreparedQuery() fetches them all, and
\* later groups run while it does; the others leave that to their caller.
GroupHasRows ==
  /\ pc = "run" /\ stage = "bind"
  /\ started' = Started
  /\ stage' = "fetch"
  /\ IF call = "dbGetPreparedQuery" /\ group + 1 < groups
     THEN group' = group + 1 /\ UNCHANGED <<pc, result>>
     ELSE group' = group /\ Return
  /\ UNCHANGED <<text, call, params, attempt, bound>>

\* A value that cannot be bound, or an error of sqlite3_step().
GroupFails ==
  /\ pc = "run"
  /\ started' = Started
  /\ Raise
  /\ UNCHANGED <<text, call, stage, bound, group>>

Next == Refuse \/ Bind \/ GroupEnds \/ GroupHasRows \/ GroupFails

Spec == Init /\ [][Next]_vars

----------------------------------------------------------------------------
(* Properties *)

IsNumeral(t) == t.name \in DOMAIN NumberOf

\* The placeholders of a text are of one sort.
OneSort ==
  \/ Range(text) \subseteq {Anonymous}
  \/ \A k \in DOMAIN text : IsNumbered(text[k])
  \/ \A k \in DOMAIN text : IsNamed(text[k]) /\ ~IsNumeral(text[k])

\* What a reader of the query expects placeholder k to stand for: the k-th
\* anonymous one for the k-th parameter, ?N for the N-th, a name for the
\* parameter of that name.  Texts that mix sorts and pass all the same ("?1 ?
\* ?2", ":a ?1") are bound as SQLite numbers them: nothing is said of "?" in a
\* mix, of a number next to names, and of a numeral as a name (:1).
Expected(k, j) ==
  /\ text[k] = Anonymous /\ OneSort => j = k
  /\ IsNumbered(text[k]) /\ ~params.named => j = NumberOf[text[k].name]
  /\ IsNamed(text[k]) /\ ~IsNumeral(text[k]) =>
       params.named /\ params.names[j] = text[k].name

\* Whatever detour parameters take (matched by name, reordered, thinned out,
\* tried again by position), a statement runs only with every placeholder of
\* its text bound to the parameter the text means, and to no missing one.
EachPlaceholderGetsItsValue ==
  pc \in {"run", "done"} =>
    \A k \in DOMAIN text : /\ VarOf(text, k) \in DOMAIN bound
                           /\ Expected(k, bound[VarOf(text, k)])

OfOneLength(J) == \A j, k \in J : params.lengths[j] = params.lengths[k]

\* The parameters in hand are right for a text of one sort of placeholders.
Complete ==
  LET tokens == Range(text)
      named  == {t.name : t \in tokens}
  IN  \/ /\ tokens = {Anonymous} /\ ~params.named
         /\ Len(params.names) = Len(text) /\ OfOneLength(DOMAIN params.names)
      \/ /\ tokens # {} /\ \A t \in tokens : IsNumbered(t)
         /\ ~params.named /\ {NumberOf[t.name] : t \in tokens} = DOMAIN params.names
         /\ OfOneLength(DOMAIN params.names)
      \/ /\ tokens # {} /\ \A t \in tokens : IsNamed(t)
         /\ named \subseteq Range(params.names)
         /\ ~Superset => named = Range(params.names) /\ IsInjective(params.names)
         /\ OfOneLength({j \in DOMAIN params.names :
                           /\ params.names[j] \in named
                           /\ \A h \in 1..(j - 1) : params.names[h] # params.names[j]})

\* A query with one sort of placeholders is bound exactly when each of them has
\* a value and no parameter is left over; numbers with a gap (?2 alone) are
\* refused like a mix, whatever is passed.
AcceptedIffComplete == pc = "match" /\ OneSort => (Accepted <=> Complete)

\* The second attempt of a prepared query never repeats work of the first: the
\* handler catches errors of executions too, and what keeps it from running a
\* group again is that no statement accepts both named and unnamed parameters.
RunsOnce == \A g \in Groups : started[g] <= 1
=============================================================================
