----------------------------- MODULE Aggregate -----------------------------
(***************************************************************************)
(* SQL functions and collations written in C++ on one connection           *)
(* (src/src/Functions.h: aggregate_wrapper, the internal_ functions;       *)
(* src/src/DBConnection.h: create_aggregate, create_function,              *)
(* create_general_function, create_collation).  One name of a function,    *)
(* registered as an aggregate or as a scalar, and one of a collation.      *)
(*                                                                         *)
(* The engine offers a context to each use of an aggregate in each group   *)
(* of rows.  The wrapper does not take it: one object, made when the       *)
(* function is registered, accumulates for every use in every statement    *)
(* and is set back when a result has been taken from it.                   *)
(*                                                                         *)
(* One action is one call the engine makes of the wrapper, or one call of  *)
(* the program, which may come from inside a function it has written.      *)
(* A query is one SELECT that groups rows: a statement, or a subquery.     *)
(* While the group of a query is open others may begin and end theirs: a   *)
(* subquery of it, or a statement that a function the engine has called    *)
(* steps.  Groups are thus nested, and only the innermost one goes on.     *)
(*                                                                         *)
(* An operator named X_Y and defined just before X is a plausible mistake  *)
(* in the code X models; no definition uses it, mutation runs put it in    *)
(* the place of X.                                                         *)
(***************************************************************************)
EXTENDS Naturals, FiniteSets, Functions

CONSTANTS
  Query,          \* the statements and subqueries that use the function
  None,           \* no object
  Uses,           \* Uses[s]: how often s uses it, as in SELECT f(x), f(y)
  Distinct,       \* Distinct[s]: the uses of the form f(DISTINCT x)
  Wrapper,        \* the objects that a registration may allocate: an
                  \* aggregate_wrapper, or a copy of the user's function
  MaxRows,        \* bound: rows in a group
  MaxHeld,        \* bound: rows one object may hold
  MaxLeaked       \* bound: objects that registrations may leak

ASSUME AggregateAssumption ==
  /\ None \notin Wrapper
  /\ Uses \in [Query -> Nat \ {0}]
  /\ Distinct \in [Query -> SUBSET Nat]
  /\ MaxRows \in Nat /\ MaxHeld \in Nat /\ MaxLeaked \in Nat

\* Use u of query s.
Use == UNION {{s} \X (1..Uses[s]) : s \in Query}

VARIABLES
  function,         \* the object the registered function has, or None
  kind,             \* what it is: "aggregate" or "scalar"
  collation,        \* the object the registered collation has, or None
  leaked,           \* history: objects of collations that were refused
  live,             \* the objects allocated and not yet deleted
  m_implementation, \* the rows that the function's object has accumulated
  nested,           \* how many groups are open, one inside the other
  level,            \* level[s]: at which of these levels s is, or 0
  pc,               \* pc[s]: "reset"; "rows", "finals" or "resets" of a group;
                    \* "calls" of a scalar function; or "row"
  turn,             \* turn[s]: the use of s that the engine calls next
  fed,              \* history: rows of the group fed to each use so far
  result,           \* history: what the last finalize() of each use answered
  dirty,            \* history: a group was abandoned with rows in the object,
                    \* which has not been set back since
  tainted           \* history: the group of s shares the object with rows of
                    \* an abandoned group, or of a group around or inside it

vars == <<function, kind, collation, leaked, live, m_implementation, nested, level, pc, turn,
          fed, result, dirty, tainted>>
registrations == <<function, kind, collation, leaked, live>>
queries == <<nested, level, pc, turn, fed, result, tainted>>

\* An accumulator, as the number of rows of each use that are in it.
Empty == [p \in Use |-> 0]
Held == FoldFunction(+, 0, m_implementation)

\* A query that has begun and has neither ended nor been reset.
Active == {s \in Query : pc[s] # "reset"}

----------------------------------------------------------------------------
(* Registrations.                                                          *)

\* The engine refuses to replace what is registered while a statement is active;
\* it may refuse any registration (memory, the name, the number of arguments).
refusals(registered) == IF registered # None /\ Active # {} THEN {TRUE} ELSE BOOLEAN

(***************************************************************************)
(* sqlite3_create_function_v2 owns the new object from the call on: it     *)
(* hands it to the destructor it was given (internal_dispose,              *)
(* internal_delete) when it refuses, and hands the object of the function  *)
(* that it replaces to that one's destructor.                              *)
(***************************************************************************)
disposed_Nothing(w, refused) == {}
disposed_New(w, refused) == {w}
disposed(w, refused) == IF refused THEN {w} ELSE {function}

Register(k) ==
  /\ \E w \in Wrapper \ live, refused \in refusals(function) :
       /\ live' = (live \cup {w}) \ disposed(w, refused)
       /\ m_implementation' = IF refused THEN m_implementation ELSE Empty
       /\ function' = IF refused THEN function ELSE w
       /\ kind' = IF refused THEN kind ELSE k
       /\ dirty' = (dirty /\ refused)
  /\ UNCHANGED <<collation, leaked, queries>>

create_aggregate == Register("aggregate")
create_function == Register("scalar")

\* sqlite3_create_collation_v2 leaves the new object to its caller when it
\* refuses: create_collation throws and forgets it.
create_collation ==
  /\ \E w \in Wrapper \ live, refused \in refusals(collation) :
       /\ collation' = IF refused THEN collation ELSE w
       /\ live' = (live \cup {w}) \ (IF refused THEN {} ELSE {collation})
       /\ leaked' = IF refused THEN leaked \cup {w} ELSE leaked
       /\ Cardinality(leaked') <= MaxLeaked
  /\ UNCHANGED <<function, kind, m_implementation, dirty, queries>>

\* The last copy of the connection goes, with no statement left; another
\* connection is opened.
Close ==
  /\ Active = {}
  /\ {function, collation} # {None}
  /\ live' = live \ {function, collation}
  /\ function' = None /\ collation' = None
  /\ m_implementation' = Empty
  /\ dirty' = FALSE
  /\ UNCHANGED <<kind, leaked, queries>>

----------------------------------------------------------------------------
(* A query that uses the function.                                         *)

\* The innermost open group is that of s.
In(s) == level[s] # 0 /\ level[s] = nested

\* Rows of the group of s are in the object.
OwnRows(s) == [p \in Use |-> IF p[1] = s THEN fed[p] ELSE 0]
Waits(s) ==
  /\ pc[s] = "rows" \/ (pc[s] = "resets" /\ turn[s] = 1)
  /\ OwnRows(s) # Empty

\* The history of the last group of s is dropped.
Forget(s) ==
  /\ fed' = [p \in Use |-> IF p[1] = s THEN 0 ELSE fed[p]]
  /\ result' = [p \in Use |-> IF p[1] = s THEN Empty ELSE result[p]]
  /\ turn' = [turn EXCEPT ![s] = 1]

\* The group of s is over, and what is around it goes on.
Leave(s) ==
  /\ nested' = nested - 1
  /\ level' = [level EXCEPT ![s] = 0]

\* The engine begins a group of s, or a row: statement::step has entered it, from the
\* program or from a function of another query, or a query asks its subquery s.
Enter(s) ==
  /\ pc[s] \in {"reset", "row"}
  /\ function # None
  /\ nested' = nested + 1
  /\ level' = [level EXCEPT ![s] = nested + 1]
  /\ pc' = [pc EXCEPT ![s] = IF kind = "aggregate" THEN "rows" ELSE "calls"]
  /\ Forget(s)
  /\ tainted' = [t \in Query |-> IF t = s THEN dirty \/ \E q \in Query : Waits(q)
                                 ELSE tainted[t] \/ (pc[t] = "rows" /\ Waits(t))]
  /\ UNCHANGED <<registrations, m_implementation, dirty>>

last(s) == turn[s] = Uses[s]
following(s) == [turn EXCEPT ![s] = IF last(s) THEN 1 ELSE @ + 1]

\* internal_step of the next use, for the next row.
internal_step(s) ==
  /\ In(s) /\ pc[s] = "rows"
  /\ fed[<<s, turn[s]>>] < MaxRows
  /\ Held < MaxHeld
  /\ m_implementation' = [m_implementation EXCEPT ![<<s, turn[s]>>] = @ + 1]
  /\ fed' = [fed EXCEPT ![<<s, turn[s]>>] = @ + 1]
  /\ turn' = following(s)
  /\ UNCHANGED <<registrations, nested, level, pc, result, dirty, tainted>>

\* A use of distinct values is not given a value again.
Skip(s) ==
  /\ In(s) /\ pc[s] = "rows"
  /\ turn[s] \in Distinct[s] /\ fed[<<s, turn[s]>>] > 0
  /\ turn' = following(s)
  /\ UNCHANGED <<registrations, m_implementation, nested, level, pc, fed, result, dirty,
                 tainted>>

\* internal_final of the next use, up to the answer of the user's finalize().
finalize(s) ==
  /\ In(s)
  /\ \/ pc[s] = "finals"
     \/ pc[s] = "rows" /\ turn[s] = 1       \* every use has had every row
  /\ result' = [result EXCEPT ![<<s, turn[s]>>] = m_implementation]
  /\ pc' = [pc EXCEPT ![s] = "resets"]
  /\ UNCHANGED <<registrations, m_implementation, nested, level, turn, fed, dirty, tainted>>

\* The rest of internal_final: reset().
after_final_NotReset == m_implementation
after_final == Empty

reset(s) ==
  /\ In(s) /\ pc[s] = "resets"
  /\ m_implementation' = after_final
  /\ dirty' = FALSE
  /\ turn' = following(s)
  /\ IF last(s)
     THEN Leave(s) /\ pc' = [pc EXCEPT ![s] = "row"]
     ELSE pc' = [pc EXCEPT ![s] = "finals"] /\ UNCHANGED <<nested, level>>
  /\ UNCHANGED <<registrations, fed, result, tainted>>

\* internal_scalar_function, internal_general_scalar_function: a result of the
\* arguments of the call, and no others.
Arguments(p) == [Empty EXCEPT ![p] = 1]

internal_scalar_function(s) ==
  /\ In(s) /\ pc[s] = "calls"
  /\ fed' = [fed EXCEPT ![<<s, turn[s]>>] = 1]
  /\ result' = [result EXCEPT ![<<s, turn[s]>>] = Arguments(<<s, turn[s]>>)]
  /\ turn' = following(s)
  /\ IF last(s)
     THEN Leave(s) /\ pc' = [pc EXCEPT ![s] = "row"]
     ELSE UNCHANGED <<nested, level, pc>>
  /\ UNCHANGED <<registrations, m_implementation, dirty, tainted>>

(***************************************************************************)
(* The query ends with an error inside a group, or a row: an exception of  *)
(* the user's function (turned into an error of the engine by the          *)
(* trampoline that calls it), a lock, an interrupt, another function.  The *)
(* engine drops its contexts, of which an aggregate_wrapper has none, and  *)
(* does not call internal_final.  What is around it fails next, or goes on *)
(* if it is a function that catches the exception of statement::step.      *)
(***************************************************************************)
Fail(s) ==
  /\ In(s)
  /\ Leave(s)
  /\ pc' = [pc EXCEPT ![s] = "reset"]
  /\ Forget(s)
  /\ dirty' = (dirty \/ Waits(s))
  /\ tainted' = [t \in Query |-> /\ t # s
                                 /\ tainted[t] \/ (pc[t] \in {"rows", "finals"} /\ Waits(s))]
  /\ UNCHANGED <<registrations, m_implementation>>

\* The query has no further group, or the program resets or destroys its statement.
Finish(s) ==
  /\ pc[s] = "row"
  /\ pc' = [pc EXCEPT ![s] = "reset"]
  /\ Forget(s)
  /\ tainted' = [tainted EXCEPT ![s] = FALSE]
  /\ UNCHANGED <<registrations, m_implementation, nested, level, dirty>>

Init ==
  /\ function = None /\ kind = "aggregate"
  /\ collation = None
  /\ leaked = {}
  /\ live = {}
  /\ m_implementation = Empty
  /\ nested = 0
  /\ level = [s \in Query |-> 0]
  /\ pc = [s \in Query |-> "reset"]
  /\ turn = [s \in Query |-> 1]
  /\ fed = Empty
  /\ result = [p \in Use |-> Empty]
  /\ dirty = FALSE
  /\ tainted = [s \in Query |-> FALSE]

Next ==
  \/ create_aggregate \/ create_function \/ create_collation
  \/ Close
  \/ \E s \in Query : \/ Enter(s)
                      \/ internal_step(s) \/ Skip(s)
                      \/ finalize(s) \/ reset(s)
                      \/ internal_scalar_function(s)
                      \/ Fail(s) \/ Finish(s)

Spec == Init /\ [][Next]_vars

----------------------------------------------------------------------------
(* Properties.                                                             *)

\* The types; the object that a registered function or collation calls is not a
\* deleted one.
TypeOK ==
  /\ function \in live \cup {None} /\ collation \in live \cup {None}
  /\ kind \in {"aggregate", "scalar"}
  /\ leaked \subseteq Wrapper
  /\ live \subseteq Wrapper
  /\ m_implementation \in [Use -> Nat]
  /\ nested \in Nat
  /\ level \in [Query -> 0..nested]
  /\ pc \in [Query -> {"reset", "rows", "finals", "resets", "calls", "row"}]
  /\ turn \in [Query -> Nat] /\ \A s \in Query : turn[s] \in 1..Uses[s]
  /\ fed \in [Use -> Nat]
  /\ result \in [Use -> [Use -> Nat]]
  /\ dirty \in BOOLEAN /\ tainted \in [Query -> BOOLEAN]

\* The objects alive are those of the registered function and collation: none
\* leaks when a registration is refused or replaced, but that of a collation that
\* was refused, and none is deleted that something else still has
\* (DBConnection.h, create_*; Functions.h, internal_dispose, internal_delete).
Owned ==
  /\ live = ({function, collation} \ {None}) \cup leaked
  /\ function = collation => function = None
  /\ function \notin leaked /\ collation \notin leaked

(***************************************************************************)
(* The uses of a function share one object (Functions.h,                   *)
(* aggregate_wrapper).  However the groups of queries follow each other,   *)
(* whatever fails and whatever is registered between them, a group that    *)
(* does not share the object with other rows gets exactly its own, none    *)
(* lost, none counted twice, none of another group: of an aggregate the    *)
(* first use has the rows of all uses, the others an empty group's.  A     *)
(* scalar function's result is always that of its own arguments.           *)
(*                                                                         *)
(* It says nothing of a group that does share it: one begun with the rows  *)
(* of an abandoned group in the object (until the next reset()), one       *)
(* around which or inside which another has rows there.  Of the last two,  *)
(* as in SELECT f(s) FROM (SELECT f(v) AS s FROM t GROUP BY k), the inner  *)
(* takes and resets what the outer has gathered (internal_final).          *)
(***************************************************************************)
ResultOfOwnRows ==
  \A s \in Query : pc[s] = "row" =>
    IF kind = "scalar"
    THEN \A u \in 1..Uses[s] : result[<<s, u>>] = [p \in Use |-> IF p = <<s, u>> THEN 1 ELSE 0]
    ELSE ~tainted[s] => /\ result[<<s, 1>>] = OwnRows(s)
                        /\ \A u \in 2..Uses[s] : result[<<s, u>>] = Empty

\* What create_aggregate's documentation says of a deterministic function: "will
\* always return the same result given the same inputs within a single SQL
\* statement"; the uses u and v have the same rows, so that results that are made of
\* more rows, or fewer, are not the same.
SameInputsSameResult ==
  \A s \in Query : pc[s] = "row" =>
    \A u, v \in (1..Uses[s]) \ Distinct[s] :
      FoldFunction(+, 0, result[<<s, u>>]) = FoldFunction(+, 0, result[<<s, v>>])
=============================================================================
