----------------------------- MODULE Statement -----------------------------
(***************************************************************************)
(* The life cycle of sqlite::statement and sqlite::row_iterator            *)
(* (src/src/Statement.h, src/src/Statement.cpp) on one open connection     *)
(* used by one thread.                                                     *)
(*                                                                         *)
(* A statement object owns a sqlite3_stmt (m_handle) and remembers in      *)
(* m_done that the engine has answered SQLITE_DONE, so that a step() after *)
(* the end is a no-operation instead of a second execution.  The engine    *)
(* itself is external: sqlite3_step below returns the set of answers it    *)
(* may give.  One action is one call of the public interface, up to the    *)
(* return, the exception or the death of the process that ends it.         *)
(*                                                                         *)
(* With a single thread the error code that throw_last_error reads back    *)
(* from the connection is the one of the call that has just failed;        *)
(* SharedConnection drops that simplification.                             *)
(*                                                                         *)
(* An operator named X_Y and defined just before X is a plausible mistake  *)
(* in the code X models; no definition uses it, mutation runs put it in    *)
(* the place of X.                                                         *)
(***************************************************************************)
EXTENDS Naturals

CONSTANTS
  Object,         \* the sqlite::statement objects of the program
  Sql,            \* the SQL texts the program prepares, a set of SqlText
  Failure,        \* error codes with which the engine may refuse a step
  MaxValues,      \* at most this many values are passed to a bind_all
  MaxIterators,   \* bound: iterators over one object that are not at the end
  PrepareOnce,    \* TRUE: the program prepares every object at most once
  AssertsOn       \* TRUE: built without NDEBUG (the default build type)

SqlText == [kind    : {"select", "dml", "ddl", "blank", "invalid"},
            rows    : Nat,      \* rows a complete execution yields
            params  : Nat,      \* bind parameters of the text
            changes : Nat]      \* rows a complete execution modifies

ASSUME SqlAssumption ==
  /\ Sql \subseteq SqlText
  /\ \A q \in Sql : /\ q.kind # "select" => q.rows = 0
                    /\ q.kind # "dml" => q.changes = 0

ASSUME ParameterAssumption ==
  /\ PrepareOnce \in BOOLEAN
  /\ AssertsOn \in BOOLEAN
  /\ MaxValues \in Nat /\ MaxIterators \in Nat
  /\ Failure \cap {"none", "OK", "ROW", "DONE", "MISUSE", "RANGE", "ERROR", "NOMEM"} = {}

VARIABLES
  m_handle,   \* m_handle[s]: the prepared statement s owns, or NULL
  m_done,     \* m_done[s]: the flag of the same name
  m_statement,\* m_statement[s]: how many row_iterators point to s, and are not end(s)
  changes,    \* what sqlite3_changes answers for the connection
  ret,        \* how the last call ended
  seen        \* history: rows of s handed out since it was last armed

vars == <<m_handle, m_done, m_statement, changes, ret, seen>>

NULL == [status |-> "null"]

(***************************************************************************)
(* A prepared statement.  runs counts, up to MaxRuns, how many times the   *)
(* program has run to completion since it was prepared or reset: it is a   *)
(* history of the engine, nothing in the wrapper reads it.                 *)
(***************************************************************************)
MaxRuns == 2
Vdbe == [status : {"init", "row", "done", "failed"}, sql : Sql,
         emitted : Nat, runs : 0..MaxRuns, rc : Failure \cup {"OK"}]

fresh(q) == [status |-> "init", sql |-> q, emitted |-> 0, runs |-> 0, rc |-> "OK"]

(***************************************************************************)
(* ret records the last call: op on object of, how it ended (out) and the  *)
(* integer it returned (n).  Three fields are history: rc is the engine's  *)
(* answer that decided the outcome ("none" when the engine was not asked), *)
(* kind the kind of SQL the call executed and own the rows it modified.    *)
(***************************************************************************)
Thrown == {"exception", "busy_exception"}
Dead   == {"terminate", "abort", "null_dereference"}
Raised == Thrown \cup Dead

Returned(op, s, out, rc) ==
  ret' = [op |-> op, of |-> s, out |-> out, n |-> 0, rc |-> rc,
          kind |-> "none", own |-> 0]

\* The process is still there: no assertion has failed, no exception has left
\* a noexcept function.
Alive == ret.out \notin Dead

----------------------------------------------------------------------------
(* The engine and the helpers of the wrapper.                              *)

\* throw_error_code: the exception class chosen for an error code.
throw_error_code(code) == IF code = "BUSY" THEN "busy_exception" ELSE "exception"

(***************************************************************************)
(* sqlite3_step: every answer the engine may give for handle h.  A program *)
(* that has finished or failed is reset and run again from its first row.  *)
(***************************************************************************)
begun(h) == IF h.status = "row" THEN h.emitted ELSE 0

at_row(h) ==
  [h EXCEPT !.status = "row", !.emitted = begun(h) + 1, !.rc = "OK"]
at_end(h) ==
  [h EXCEPT !.status = "done", !.emitted = begun(h), !.rc = "OK",
            !.runs = IF @ < MaxRuns THEN @ + 1 ELSE @]
at_failure(h, c) ==
  [h EXCEPT !.status = "failed", !.emitted = begun(h), !.rc = c]

sqlite3_step(h) ==
  IF h = NULL
  THEN {[rc |-> "MISUSE", handle |-> NULL]}
  ELSE {IF begun(h) < h.sql.rows THEN [rc |-> "ROW", handle |-> at_row(h)]
                                 ELSE [rc |-> "DONE", handle |-> at_end(h)]}
       \cup {[rc |-> c, handle |-> at_failure(h, c)] : c \in Failure}

\* Only a data-modifying statement that completes alters sqlite3_changes.
modifies(h, e) == h # NULL /\ e.rc = "DONE" /\ h.sql.kind = "dml"

\* The guard of step(): after the end the engine is not asked again.
already_done_Ignored(done) == FALSE
already_done(done) == done

\* Which answers of the engine set m_done.
sets_done_OnError(rc) == rc # "ROW"
sets_done(rc) == rc = "DONE"

(***************************************************************************)
(* statement::step on handle h with the flag done, as the set of results.  *)
(***************************************************************************)
step(h, done) ==
  IF already_done(done)
  THEN {[handle |-> h, done |-> done, out |-> "false", rc |-> "none",
         own |-> 0, changes |-> changes]}
  ELSE {[handle  |-> e.handle,
         done    |-> IF sets_done(e.rc) THEN TRUE ELSE done,
         out     |-> CASE e.rc = "ROW"  -> "true"
                       [] e.rc = "DONE" -> "false"
                       [] OTHER         -> throw_error_code(e.rc),
         rc      |-> e.rc,
         own     |-> IF modifies(h, e) THEN h.sql.changes ELSE 0,
         changes |-> IF modifies(h, e) THEN h.sql.changes ELSE changes] :
           e \in sqlite3_step(h)}

(***************************************************************************)
(* statement::execute on handle h: one step, the assertion that no row was *)
(* left, and the count of changes, read after the step from the connection *)
(* that the handle knows.                                                  *)
(***************************************************************************)
executed(h, r) ==
  CASE r.out = "true" /\ AssertsOn -> "abort"
    [] r.out \in Raised            -> r.out
    [] OTHER                       -> IF h = NULL THEN "null_dereference" ELSE "returned"

sqlite3_changes_BeforeStep(r) == changes
sqlite3_changes(r) == r.changes

Executed(op, s, h, r) ==
  ret' = [op |-> op, of |-> s, out |-> executed(h, r),
          n |-> IF executed(h, r) = "returned" THEN sqlite3_changes(r) ELSE 0,
          rc |-> r.rc, kind |-> IF h = NULL THEN "none" ELSE h.sql.kind,
          own |-> r.own]

\* What a call of step that ended as r leaves behind.
Stepped(s, r) ==
  /\ m_handle' = [m_handle EXCEPT ![s] = r.handle]
  /\ m_done' = [m_done EXCEPT ![s] = r.done]
  /\ changes' = r.changes
  /\ seen' = [seen EXCEPT ![s] = IF r.out = "true" THEN @ + 1
                                 ELSE IF r.out \in Thrown THEN 0 ELSE @]

(***************************************************************************)
(* statement::bind and bind_all(k values), on a handle h: the engine's     *)
(* answer.  Binding needs a statement that has not begun to run, and the   *)
(* first index beyond the parameters is refused.                           *)
(***************************************************************************)
bind_rc(h, index) ==
  IF h = NULL THEN "MISUSE"
  ELSE IF h.status # "init" THEN "MISUSE"
  ELSE IF index \in 1..h.sql.params THEN "OK"
  ELSE "RANGE"

bind_all_rc(h, k) ==
  IF \A i \in 1..k : bind_rc(h, i) = "OK" THEN "OK"
  ELSE LET first == CHOOSE i \in 1..k : /\ bind_rc(h, i) # "OK"
                                        /\ \A j \in 1..(i - 1) : bind_rc(h, j) = "OK"
       IN  bind_rc(h, first)

\* The end of a call whose only check is "if (SQLITE_OK != rc) throw".
checked(rc) == IF rc = "OK" THEN "returned" ELSE throw_error_code(rc)

(***************************************************************************)
(* sqlite3_prepare_v2: compiling reads the schema, so it may fail as well, *)
(* unless the text holds no statement at all.                              *)
(***************************************************************************)
sqlite3_prepare(q) == CASE q.kind = "invalid" -> {"ERROR"}
                        [] q.kind = "blank"   -> {"OK"}
                        [] OTHER              -> {"OK"} \cup Failure
compiled(q) == IF q.kind = "blank" THEN NULL ELSE fresh(q)

----------------------------------------------------------------------------
(* The public interface of sqlite::statement.                              *)

Init ==
  /\ m_handle = [s \in Object |-> NULL]
  /\ m_done = [s \in Object |-> FALSE]
  /\ m_statement = [s \in Object |-> 0]
  /\ changes = 0
  /\ ret = [op |-> "none", of |-> "none", out |-> "returned", n |-> 0,
            rc |-> "none", kind |-> "none", own |-> 0]
  /\ seen = [s \in Object |-> 0]

(***************************************************************************)
(* prepare(connection, q, k values), and the constructor that calls it.  A *)
(* new sqlite3_stmt replaces the old one only when compiling succeeds, and *)
(* stays in place when binding the values fails.  m_done is left alone.    *)
(***************************************************************************)
internal_prepare(s, q, k) ==
  /\ PrepareOnce => m_handle[s] = NULL
  /\ \E rc \in sqlite3_prepare(q) :
       IF rc = "OK"
       THEN LET brc == bind_all_rc(compiled(q), k) IN
            /\ m_handle' = [m_handle EXCEPT ![s] = compiled(q)]
            /\ seen' = [seen EXCEPT ![s] = 0]
            /\ Returned("prepare", s, checked(brc), brc)
       ELSE /\ Returned("prepare", s, throw_error_code(rc), rc)
            /\ UNCHANGED <<m_handle, seen>>
  /\ UNCHANGED <<m_done, m_statement, changes>>

Prepare(s) == Alive /\ \E q \in Sql, k \in 0..MaxValues : internal_prepare(s, q, k)

\* step() called by the program.
Step(s) ==
  /\ Alive
  /\ \E r \in step(m_handle[s], m_done[s]) :
       /\ Stepped(s, r)
       /\ Returned("step", s, r.out, r.rc)
  /\ UNCHANGED m_statement

\* execute() called by the program.
Execute(s) ==
  /\ Alive
  /\ \E r \in step(m_handle[s], m_done[s]) :
       /\ Stepped(s, r)
       /\ Executed("execute", s, m_handle[s], r)
  /\ UNCHANGED m_statement

\* bind(index, value), every overload.
Bind(s) ==
  /\ Alive
  /\ \E i \in 0..(MaxValues + 1) :
       Returned("bind", s, checked(bind_rc(m_handle[s], i)), bind_rc(m_handle[s], i))
  /\ UNCHANGED <<m_handle, m_done, m_statement, changes, seen>>

\* clear_bindings(k values): clearing dereferences the handle and always
\* succeeds, even while the statement runs; binding then may not.
ClearBindings(s) ==
  /\ Alive
  /\ \E k \in 0..MaxValues :
       IF m_handle[s] = NULL
       THEN Returned("clear_bindings", s, "null_dereference", "none")
       ELSE LET rc == bind_all_rc(m_handle[s], k)
            IN  Returned("clear_bindings", s, checked(rc), rc)
  /\ UNCHANGED <<m_handle, m_done, m_statement, changes, seen>>

(***************************************************************************)
(* reset().  sqlite3_reset rearms the statement whatever it answers; it    *)
(* answers with the error of the run it ends, and then m_done stays as it  *)
(* is.  Resetting NULL is a harmless no-operation.                         *)
(***************************************************************************)
sqlite3_reset(h) == IF h = NULL THEN h ELSE fresh(h.sql)
reset_rc(h) == IF h = NULL THEN "OK" ELSE h.rc

reset_done_Kept(s) == m_done[s]
reset_done(s) == IF reset_rc(m_handle[s]) = "OK" THEN FALSE ELSE m_done[s]

Reset(s) ==
  /\ Alive
  /\ m_handle' = [m_handle EXCEPT ![s] = sqlite3_reset(@)]
  /\ m_done' = [m_done EXCEPT ![s] = reset_done(s)]
  /\ Returned("reset", s, checked(reset_rc(m_handle[s])), reset_rc(m_handle[s]))
  /\ seen' = [seen EXCEPT ![s] = 0]
  /\ UNCHANGED <<m_statement, changes>>

\* What the constructors make of m_done, in storage an object s had before.
constructed_done_Uninitialised(s) == m_done[s]
constructed_done(s) == FALSE

\* The destructor, after which the object's place holds a new, empty object.
Destroy(s) ==
  /\ Alive
  /\ m_handle[s] # NULL
  /\ m_handle' = [m_handle EXCEPT ![s] = NULL]
  /\ m_done' = [m_done EXCEPT ![s] = constructed_done(s)]
  /\ m_statement' = [m_statement EXCEPT ![s] = 0]
  /\ seen' = [seen EXCEPT ![s] = 0]
  /\ Returned("destroy", s, "returned", "none")
  /\ UNCHANGED changes

----------------------------------------------------------------------------
(* row_iterator: begin(s) constructs it, ++ advances it.  Both are         *)
(* noexcept, so that an exception from step() ends the process.            *)

iterated_Swallowed(r) == IF r.out \in Thrown THEN "false" ELSE r.out
iterated(r) == IF r.out \in Thrown THEN "terminate" ELSE r.out

\* A step of the iterator, beside others over s that are not at the end.
row_iterator_step(op, s, others) ==
  \E r \in step(m_handle[s], m_done[s]) :
    /\ Stepped(s, r)
    /\ m_statement' = [m_statement EXCEPT ![s] = IF r.out = "true" THEN others + 1 ELSE others]
    /\ Returned(op, s, iterated(r), r.rc)

IterBegin(s) ==
  /\ Alive /\ m_statement[s] < MaxIterators
  /\ row_iterator_step("begin", s, m_statement[s])
IterNext(s) ==
  /\ Alive /\ m_statement[s] > 0
  /\ row_iterator_step("next", s, m_statement[s] - 1)

\* ++ of an iterator that is at the end goes through its null pointer.
IterPastEnd(s) ==
  /\ Alive
  /\ Returned("next", s, "null_dereference", "none")
  /\ UNCHANGED <<m_handle, m_done, m_statement, changes, seen>>

----------------------------------------------------------------------------
(***************************************************************************)
(* The free function execute(connection, q, k values): a temporary object  *)
(* is prepared, executed once and destroyed, whichever way it ends.        *)
(***************************************************************************)
ExecuteText ==
  /\ Alive
  /\ \E q \in Sql, k \in 0..MaxValues : \E rc \in sqlite3_prepare(q) :
       LET first == IF rc = "OK" THEN bind_all_rc(compiled(q), k) ELSE rc IN
       IF first # "OK"
       THEN /\ Returned("execute_text", "none", throw_error_code(first), first)
            /\ UNCHANGED changes
       ELSE \E r \in step(compiled(q), FALSE) :
              /\ changes' = r.changes
              /\ Executed("execute_text", "none", compiled(q), r)
  /\ UNCHANGED <<m_handle, m_done, m_statement, seen>>

(***************************************************************************)
(* execute_callback(connection, q, f): sqlite3_exec runs the text to its   *)
(* end; its answer is ignored and read back from the connection.           *)
(***************************************************************************)
ExecuteCallback ==
  /\ Alive
  /\ \E q \in Sql :
       \/ \E rc \in sqlite3_prepare(q) \cup Failure :
            /\ rc # "OK"
            /\ q.kind # "blank"
            /\ Returned("execute_callback", "none", throw_error_code(rc), rc)
            /\ UNCHANGED changes
       \/ /\ q.kind # "invalid"
          /\ changes' = IF q.kind = "dml" THEN q.changes ELSE changes
          /\ Returned("execute_callback", "none", "returned", "DONE")
  /\ UNCHANGED <<m_handle, m_done, m_statement, seen>>

Next ==
  \/ \E s \in Object : \/ Prepare(s) \/ Step(s) \/ Execute(s) \/ Bind(s)
                       \/ ClearBindings(s) \/ Reset(s) \/ Destroy(s)
                       \/ IterBegin(s) \/ IterNext(s) \/ IterPastEnd(s)
  \/ ExecuteText
  \/ ExecuteCallback

Spec == Init /\ [][Next]_vars

----------------------------------------------------------------------------
(* Properties.                                                             *)

\* The types, and what an object's fields say together: m_done only goes with a
\* prepared statement (the constructors clear it), and no more rows have come
\* than the text can yield.
TypeOK ==
  /\ m_handle \in [Object -> Vdbe \cup {NULL}]
  /\ m_done \in [Object -> BOOLEAN]
  /\ m_statement \in [Object -> Nat]
  /\ changes \in Nat
  /\ seen \in [Object -> Nat]
  /\ \A s \in Object : m_done[s] => m_handle[s] # NULL
  /\ \A s \in Object : m_handle[s] # NULL => m_handle[s].emitted <= m_handle[s].sql.rows

\* However step, execute and iterators are mixed on one object, its program
\* never runs to completion twice between two reset() (Statement.cpp, step:
\* the engine restarts a finished program, only m_done prevents it).
NoDoubleExecution == \A s \in Object : m_handle[s] # NULL => m_handle[s].runs <= 1

\* When step() answers false or an iterator reaches end(), the statement has
\* run to its end and every row of it was handed out since it was armed
\* (Statement.h, step: "false when there are no more").
FalseMeansNoMoreRows ==
  ret.op \in {"step", "begin", "next"} /\ ret.out = "false" =>
    /\ m_handle[ret.of].status = "done"
    /\ seen[ret.of] = m_handle[ret.of].sql.rows

\* A call raises an error exactly when the engine refused it, and as a
\* busy_exception, which callers retry, exactly for SQLITE_BUSY (Exception.cpp,
\* throw_error_code; the noexcept iterators end the process instead).
FailureIsRaised ==
  /\ ret.rc \in Failure \cup {"ERROR", "MISUSE", "RANGE"} => ret.out \in Raised
  /\ ret.out \in Thrown => ret.rc \in Failure \cup {"ERROR", "MISUSE", "RANGE"}
  /\ ret.out = "busy_exception" => ret.rc = "BUSY"
  /\ ret.rc = "BUSY" => ret.out # "exception"

\* execute() of a data-modifying statement that runs in that very call returns
\* the rows this run modified (Statement.cpp, execute).
ExecuteCountsItsRun ==
  ret.op \in {"execute", "execute_text"} /\ ret.kind = "dml" /\ ret.rc = "DONE"
    => ret.n = ret.own

\* Whether it returns or throws, reset() leaves a statement that runs again at
\* the next step(): a failed statement is not lost (Statement.h, reset).
ResetRearms ==
  ret.op = "reset" => /\ ~m_done[ret.of]
                      /\ m_handle[ret.of] # NULL => m_handle[ret.of].status = "init"

\* However step, execute, reset, iterators, failures and the reuse of the object are
\* mixed, an object is a cursor: no row of its statement is skipped, given twice or
\* given after the end, and m_done is what says that it has ended (Statement.cpp,
\* step and reset).
rows_of(s) == IF m_handle[s] = NULL THEN 0 ELSE m_handle[s].sql.rows
CursorOf == INSTANCE Cursor
            WITH total <- [s \in Object |-> rows_of(s)], given <- seen, ended <- m_done
ObjectsAreCursors == CursorOf!Spec
============================================================================
