-------------------------- MODULE StatementProofs --------------------------
(***************************************************************************)
(* Proofs about Statement, for any objects, any SQL texts with any numbers *)
(* of rows, and any errors.                                                *)
(***************************************************************************)
EXTENDS Statement, TLAPS

Handle == Vdbe \cup {NULL}

LEMMA NullIsNoVdbe == NULL \notin Vdbe
  BY DEF NULL, Vdbe

\* The four ways a call of step() can end.
Nop(h, done, r) == done = TRUE /\ r.handle = h /\ r.done = TRUE /\ r.out = "false"
Row(h, done, r) ==
  /\ done = FALSE /\ h # NULL /\ r.handle = at_row(h) /\ r.done = FALSE
  /\ r.out = "true" /\ begun(h) < h.sql.rows
End(h, done, r) ==
  /\ done = FALSE /\ h # NULL /\ r.handle = at_end(h) /\ r.done = TRUE
  /\ r.out = "false" /\ ~(begun(h) < h.sql.rows)
Fail(h, done, r) ==
  /\ done = FALSE /\ r.done = FALSE /\ r.out \in Thrown
  /\ \/ h = NULL /\ r.handle = NULL
     \/ h # NULL /\ \E c \in Failure : r.handle = at_failure(h, c)

LEMMA Thrower == ASSUME NEW c PROVE throw_error_code(c) \in Thrown
  BY DEF throw_error_code, Thrown

LEMMA StepEnds ==
  ASSUME NEW h \in Handle, NEW done \in BOOLEAN, NEW r \in step(h, done), changes \in Nat
  PROVE  /\ Nop(h, done, r) \/ Row(h, done, r) \/ End(h, done, r) \/ Fail(h, done, r)
         /\ r.changes \in Nat
<1>1. CASE done = TRUE
  <2>1. r = [handle |-> h, done |-> done, out |-> "false", rc |-> "none",
             own |-> 0, changes |-> changes]
    BY <1>1 DEF step, already_done
  <2> QED
    BY <1>1, <2>1 DEF Nop
<1>2. CASE done = FALSE
  <2>1. PICK e \in sqlite3_step(h) :
          r = [handle  |-> e.handle,
               done    |-> IF sets_done(e.rc) THEN TRUE ELSE done,
               out     |-> CASE e.rc = "ROW"  -> "true"
                             [] e.rc = "DONE" -> "false"
                             [] OTHER         -> throw_error_code(e.rc),
               rc      |-> e.rc,
               own     |-> IF modifies(h, e) THEN h.sql.changes ELSE 0,
               changes |-> IF modifies(h, e) THEN h.sql.changes ELSE changes]
    BY <1>2 DEF step, already_done
  <2>2. h # NULL => h \in Vdbe /\ h.sql \in SqlText
    BY SqlAssumption DEF Handle, Vdbe
  <2>3. r.changes \in Nat
    BY <2>1, <2>2 DEF modifies, SqlText
  <2>4. r.handle = e.handle
    BY <2>1
  <2>5. CASE h = NULL
    <3>1. e.rc = "MISUSE" /\ e.handle = NULL
      BY <2>5 DEF sqlite3_step
    <3>2. r.done = FALSE /\ r.out \in Thrown
      BY <1>2, <2>1, <3>1, Thrower DEF sets_done
    <3> QED
      BY <1>2, <2>3, <2>4, <2>5, <3>1, <3>2 DEF Fail
  <2>6. CASE h # NULL
    <3>1. \/ e.rc = "ROW"  /\ e.handle = at_row(h) /\ begun(h) < h.sql.rows
          \/ e.rc = "DONE" /\ e.handle = at_end(h) /\ ~(begun(h) < h.sql.rows)
          \/ e.rc \in Failure /\ e.handle = at_failure(h, e.rc)
      BY <2>6 DEF sqlite3_step
    <3>2. CASE e.rc = "ROW" /\ e.handle = at_row(h) /\ begun(h) < h.sql.rows
      <4>1. r.done = FALSE /\ r.out = "true"
        BY <1>2, <2>1, <3>2 DEF sets_done
      <4> QED
        BY <1>2, <2>3, <2>4, <2>6, <3>2, <4>1 DEF Row
    <3>3. CASE e.rc = "DONE" /\ e.handle = at_end(h) /\ ~(begun(h) < h.sql.rows)
      <4>1. r.done = TRUE /\ r.out = "false"
        BY <2>1, <3>3 DEF sets_done
      <4> QED
        BY <1>2, <2>3, <2>4, <2>6, <3>3, <4>1 DEF End
    <3>4. CASE e.rc \in Failure /\ e.handle = at_failure(h, e.rc)
      <4>1. e.rc # "ROW" /\ e.rc # "DONE"
        BY <3>4, ParameterAssumption
      <4>2. r.done = FALSE /\ r.out \in Thrown
        BY <1>2, <2>1, <4>1, Thrower DEF sets_done
      <4> QED
        BY <1>2, <2>3, <2>4, <2>6, <3>4, <4>2 DEF Fail
    <3> QED
      BY <3>1, <3>2, <3>3, <3>4
  <2> QED
    BY <2>5, <2>6
<1> QED
  BY <1>1, <1>2

LEMMA HandlesOf ==
  ASSUME NEW h \in Vdbe
  PROVE  /\ begun(h) \in Nat
         /\ at_row(h) \in Vdbe /\ at_row(h).status = "row" /\ at_row(h).sql = h.sql
         /\ at_row(h).runs = h.runs /\ at_row(h).emitted = begun(h) + 1
         /\ at_end(h) \in Vdbe /\ at_end(h).status = "done" /\ at_end(h).sql = h.sql
         /\ h.runs = 0 => at_end(h).runs = 1
         /\ at_end(h).emitted = begun(h)
         /\ \A c \in Failure :
              /\ at_failure(h, c) \in Vdbe /\ at_failure(h, c).status = "failed"
              /\ at_failure(h, c).sql = h.sql /\ at_failure(h, c).runs = h.runs
              /\ at_failure(h, c).emitted = begun(h)
<1>1. begun(h) \in Nat
  BY DEF Vdbe, begun
<1>2. /\ at_row(h) \in Vdbe /\ at_row(h).status = "row" /\ at_row(h).sql = h.sql
      /\ at_row(h).runs = h.runs /\ at_row(h).emitted = begun(h) + 1
  <2> DEFINE next == begun(h) + 1
  <2>1. next \in Nat
    BY <1>1
  <2>2. at_row(h) = [h EXCEPT !.status = "row", !.emitted = next, !.rc = "OK"]
    BY DEF at_row
  <2> HIDE DEF next
  <2>3. /\ at_row(h) \in Vdbe /\ at_row(h).status = "row" /\ at_row(h).sql = h.sql
        /\ at_row(h).runs = h.runs /\ at_row(h).emitted = next
    BY <2>1, <2>2 DEF Vdbe
  <2> QED
    BY <2>3 DEF next
<1>3. /\ at_end(h).status = "done" /\ at_end(h).sql = h.sql
      /\ h.runs = 0 => at_end(h).runs = 1
      /\ at_end(h).emitted = begun(h)
  BY <1>1 DEF Vdbe, at_end, MaxRuns
<1>4. at_end(h) \in Vdbe
  <2> DEFINE runs == IF h.runs < MaxRuns THEN h.runs + 1 ELSE h.runs
  <2>1. runs \in 0..MaxRuns
    BY DEF Vdbe, MaxRuns
  <2>2. at_end(h) = [h EXCEPT !.status = "done", !.emitted = begun(h), !.rc = "OK",
                              !.runs = runs]
    BY DEF at_end
  <2> HIDE DEF runs
  <2> QED
    BY <1>1, <2>1, <2>2 DEF Vdbe
<1>5. ASSUME NEW c \in Failure
      PROVE  /\ at_failure(h, c) \in Vdbe /\ at_failure(h, c).status = "failed"
             /\ at_failure(h, c).sql = h.sql /\ at_failure(h, c).runs = h.runs
             /\ at_failure(h, c).emitted = begun(h)
  BY <1>1 DEF Vdbe, at_failure
<1> QED
  BY <1>1, <1>2, <1>3, <1>4, <1>5

LEMMA Fresh ==
  ASSUME NEW q \in Sql
  PROVE  /\ fresh(q) \in Vdbe /\ fresh(q).status = "init" /\ fresh(q).sql = q
         /\ fresh(q).runs = 0 /\ fresh(q).rc = "OK" /\ fresh(q).emitted = 0
         /\ compiled(q) \in Handle
  BY DEF fresh, Vdbe, compiled, Handle, MaxRuns

----------------------------------------------------------------------------
(***************************************************************************)
(* The invariant that needs no discipline of the program.  Obj says why    *)
(* m_done is enough: a program that has run to its end has it set, one     *)
(* that has failed has not.                                                *)
(***************************************************************************)
Types ==
  /\ m_handle \in [Object -> Handle]
  /\ m_done \in [Object -> BOOLEAN]
  /\ m_statement \in [Object -> Nat]
  /\ changes \in Nat
  /\ seen \in [Object -> Nat]

Good(h, done) ==
  h # NULL => /\ h.runs = 0 \/ (h.runs = 1 /\ done = TRUE)
              /\ h.rc # "OK" => done = FALSE
              /\ h.emitted <= h.sql.rows

Base == Types /\ \A s \in Object : Good(m_handle[s], m_done[s])

LEMMA StepGood ==
  ASSUME NEW h \in Handle, NEW done \in BOOLEAN, NEW r \in step(h, done), changes \in Nat,
         Good(h, done)
  PROVE  Good(r.handle, r.done) /\ r.handle \in Handle /\ r.done \in BOOLEAN
<1> USE DEF Handle
<1>1. CASE Nop(h, done, r)
  BY <1>1 DEF Nop
<1>2. CASE h # NULL /\ ~Nop(h, done, r)
  <2> h \in Vdbe
    BY <1>2
  <2>1. h.runs = 0 /\ done = FALSE /\ h.sql.rows \in Nat /\ h.emitted <= h.sql.rows
    BY <1>2, StepEnds, SqlAssumption DEF Row, End, Fail, Good, Vdbe, SqlText
  <2>2. begun(h) \in Nat /\ begun(h) <= h.sql.rows
    BY <2>1, HandlesOf DEF begun
  <2>3. CASE Row(h, done, r)
    <3>1. /\ r.handle \in Vdbe /\ r.handle.runs = 0 /\ r.handle.sql = h.sql
          /\ r.handle.emitted = begun(h) + 1 /\ r.done = FALSE /\ begun(h) < h.sql.rows
      BY <2>1, <2>3, HandlesOf DEF Row
    <3>2. at_row(h).rc = "OK" /\ r.handle = at_row(h)
      BY <2>3 DEF Row, at_row, Vdbe
    <3>3. begun(h) + 1 <= h.sql.rows
      <4> DEFINE b == begun(h)
                 m == h.sql.rows
      <4>1. b \in Nat /\ m \in Nat /\ b < m
        BY <2>1, <2>2, <3>1
      <4> HIDE DEF b, m
      <4>2. b + 1 <= m
        BY <4>1
      <4> QED
        BY <4>2 DEF b, m
    <3>4. r.handle.runs = 0 /\ r.handle.rc = "OK" /\ r.handle.emitted <= r.handle.sql.rows
      BY <3>1, <3>2, <3>3
    <3> QED
      BY <3>1, <3>4 DEF Good
  <2>4. CASE End(h, done, r)
    <3>1. /\ r.handle \in Vdbe /\ r.handle.runs = 1 /\ r.handle.sql = h.sql
          /\ r.handle.emitted = begun(h) /\ r.done = TRUE
      BY <2>1, <2>4, HandlesOf DEF End
    <3>2. at_end(h).rc = "OK" /\ r.handle = at_end(h)
      BY <2>4 DEF End, at_end, Vdbe
    <3> QED
      BY <2>2, <3>1, <3>2 DEF Good
  <2>5. CASE Fail(h, done, r)
    <3>1. /\ r.handle \in Vdbe /\ r.handle.runs = 0 /\ r.handle.sql = h.sql
          /\ r.handle.emitted = begun(h) /\ r.done = FALSE
      BY <1>2, <2>1, <2>5, HandlesOf DEF Fail
    <3> QED
      BY <2>2, <3>1 DEF Good
  <2> QED
    BY <1>2, <2>3, <2>4, <2>5, StepEnds
<1>3. CASE h = NULL /\ ~Nop(h, done, r)
  BY <1>3, StepEnds DEF Row, End, Fail, Good
<1> QED
  BY <1>1, <1>2, <1>3

LEMMA SteppedBase ==
  ASSUME Base, NEW s \in Object, NEW r \in step(m_handle[s], m_done[s]), Stepped(s, r)
  PROVE  /\ m_handle' \in [Object -> Handle] /\ m_done' \in [Object -> BOOLEAN]
         /\ changes' \in Nat /\ seen' \in [Object -> Nat]
         /\ \A u \in Object : Good(m_handle'[u], m_done'[u])
<1>1. /\ m_handle[s] \in Handle /\ m_done[s] \in BOOLEAN /\ changes \in Nat
      /\ Good(m_handle[s], m_done[s])
  BY DEF Base, Types
<1>2. Good(r.handle, r.done) /\ r.handle \in Handle /\ r.done \in BOOLEAN
  BY <1>1, StepGood
<1>3. r.changes \in Nat
  BY <1>1, StepEnds
<1>4. m_handle' \in [Object -> Handle] /\ m_done' \in [Object -> BOOLEAN]
  BY <1>2 DEF Stepped, Base, Types
<1>5. changes' \in Nat /\ seen' \in [Object -> Nat]
  BY <1>3 DEF Stepped, Base, Types
<1>6. \A u \in Object : Good(m_handle'[u], m_done'[u])
  BY <1>2 DEF Stepped, Base, Types
<1> QED
  BY <1>4, <1>5, <1>6

LEMMA InitBase == Init => Base
  BY DEF Init, Base, Types, Handle, Good

LEMMA NextBase == Base /\ [Next]_vars => Base'
<1> SUFFICES ASSUME Base, [Next]_vars PROVE Base'
  OBVIOUS
<1>1. ASSUME NEW s \in Object, Prepare(s) PROVE Base'
  <2>1. PICK q \in Sql, k \in 0..MaxValues : internal_prepare(s, q, k)
    BY <1>1 DEF Prepare
  <2>2. CASE m_handle' = [m_handle EXCEPT ![s] = compiled(q)]
    <3>1. compiled(q) \in Handle /\ Good(compiled(q), m_done[s])
      <4>1. q.rows \in Nat
        BY SqlAssumption DEF SqlText
      <4> QED
        BY <4>1, Fresh DEF compiled, Good
    <3> QED
      BY <2>1, <2>2, <3>1 DEF internal_prepare, Base, Types
  <2>3. CASE m_handle' = m_handle
    BY <2>1, <2>3 DEF internal_prepare, Base, Types
  <2> QED
    BY <2>1, <2>2, <2>3 DEF internal_prepare
<1>2. ASSUME NEW s \in Object, Step(s) \/ Execute(s) PROVE Base'
  <2>1. \E r \in step(m_handle[s], m_done[s]) : Stepped(s, r)
    BY <1>2 DEF Step, Execute
  <2>2. m_statement' = m_statement
    BY <1>2 DEF Step, Execute
  <2> QED
    BY <2>1, <2>2, SteppedBase DEF Base, Types
<1>3. ASSUME NEW s \in Object, IterBegin(s) \/ IterNext(s) PROVE Base'
  <2>1. PICK n \in Nat : row_iterator_step(IF IterBegin(s) THEN "begin" ELSE "next", s, n)
    <3>1. m_statement[s] \in Nat
      BY DEF Base, Types
    <3>2. m_statement[s] > 0 => m_statement[s] - 1 \in Nat
      BY <3>1
    <3>3. CASE IterBegin(s)
      BY <3>1, <3>3 DEF IterBegin
    <3>4. CASE ~IterBegin(s)
      BY <1>3, <3>2, <3>4 DEF IterNext
    <3> QED
      BY <3>3, <3>4
  <2>2. PICK r \in step(m_handle[s], m_done[s]) :
          /\ Stepped(s, r)
          /\ m_statement' = [m_statement EXCEPT ![s] = IF r.out = "true" THEN n + 1 ELSE n]
    BY <2>1 DEF row_iterator_step
  <2>3. m_statement' \in [Object -> Nat]
    BY <2>2 DEF Base, Types
  <2> QED
    BY <2>2, <2>3, SteppedBase DEF Base, Types
<1>4. ASSUME NEW s \in Object, Bind(s) \/ ClearBindings(s) \/ IterPastEnd(s) PROVE Base'
  BY <1>4 DEF Bind, ClearBindings, IterPastEnd, Base, Types
<1>5. ASSUME NEW s \in Object, Reset(s) PROVE Base'
  <2> DEFINE h == m_handle[s]
  <2>1. h \in Handle /\ Good(h, m_done[s]) /\ m_done[s] \in BOOLEAN
    BY DEF Base, Types
  <2>2. sqlite3_reset(h) \in Handle /\ Good(sqlite3_reset(h), reset_done(s))
    <3>1. CASE h = NULL
      BY <2>1, <3>1 DEF sqlite3_reset, Good
    <3>2. CASE h # NULL
      <4>1. h.sql \in Sql /\ h.sql.rows \in Nat
        BY <2>1, <3>2, SqlAssumption DEF Handle, Vdbe, SqlText
      <4> QED
        BY <3>2, <4>1, Fresh DEF sqlite3_reset, Good, Handle
    <3> QED
      BY <3>1, <3>2
  <2>3. reset_done(s) \in BOOLEAN
    BY <2>1 DEF reset_done
  <2> QED
    BY <1>5, <2>2, <2>3 DEF Reset, Base, Types
<1>6. ASSUME NEW s \in Object, Destroy(s) PROVE Base'
  BY <1>6 DEF Destroy, constructed_done, Base, Types, Good, Handle
<1>7. CASE ExecuteText
  <2>1. changes' \in Nat
    <3>1. PICK q \in Sql : changes' = changes \/ \E r \in step(compiled(q), FALSE) : changes' = r.changes
      BY <1>7 DEF ExecuteText
    <3> QED
      BY <3>1, Fresh, StepEnds DEF Base, Types
  <2> QED
    BY <1>7, <2>1 DEF ExecuteText, Base, Types
<1>8. CASE ExecuteCallback
  <2>1. changes' \in Nat
    BY <1>8, SqlAssumption DEF ExecuteCallback, SqlText, Base, Types
  <2> QED
    BY <1>8, <2>1 DEF ExecuteCallback, Base, Types
<1>9. CASE UNCHANGED vars
  BY <1>9 DEF vars, Base, Types
<1> QED
  BY <1>1, <1>2, <1>3, <1>4, <1>5, <1>6, <1>7, <1>8, <1>9 DEF Next

LEMMA BaseImplies == Base => NoDoubleExecution
  BY DEF Base, Good, NoDoubleExecution

\* m_done keeps every program from being run to its end twice, in any mixture of
\* calls, iterators and reuse of the object.
THEOREM NeverRunTwice == Spec => []NoDoubleExecution
  BY InitBase, NextBase, BaseImplies, PTL DEF Spec

----------------------------------------------------------------------------
LEMMA TextIsNoStep ==
  ASSUME ExecuteText \/ ExecuteCallback
  PROVE  ret'.op \in {"execute_text", "execute_callback"}
<1>1. CASE ExecuteText
  <2>1. PICK q \in Sql :
          \/ \E first : Returned("execute_text", "none", throw_error_code(first), first)
          \/ \E r : Executed("execute_text", "none", compiled(q), r)
    BY <1>1 DEF ExecuteText
  <2>2. ASSUME NEW first,
               Returned("execute_text", "none", throw_error_code(first), first)
        PROVE  ret'.op = "execute_text"
    BY <2>2 DEF Returned
  <2>3. ASSUME NEW r, Executed("execute_text", "none", compiled(q), r)
        PROVE  ret'.op = "execute_text"
    BY <2>3 DEF Executed
  <2> QED
    BY <2>1, <2>2, <2>3
<1>2. CASE ExecuteCallback
  <2>1. ret'.op = "execute_callback"
    BY <1>2 DEF ExecuteCallback, Returned
  <2> QED
    BY <2>1
<1> QED
  BY <1>1, <1>2

\* reset() never leaves m_done set.
LEMMA ResetStep == Base /\ ResetRearms /\ [Next]_vars => ResetRearms'
<1> SUFFICES ASSUME Base, ResetRearms, [Next]_vars, ret'.op = "reset"
             PROVE  /\ m_done'[ret'.of] = FALSE
                    /\ m_handle'[ret'.of] # NULL => m_handle'[ret'.of].status = "init"
  BY DEF ResetRearms
<1>1. ASSUME NEW s \in Object, Reset(s)
      PROVE  /\ m_done'[ret'.of] = FALSE
             /\ m_handle'[ret'.of] # NULL => m_handle'[ret'.of].status = "init"
  <2>1. /\ ret'.of = s /\ m_done'[s] = reset_done(s)
        /\ m_handle'[s] = sqlite3_reset(m_handle[s])
    BY <1>1 DEF Reset, Returned, Base, Types
  <2>2. reset_done(s) = FALSE
    BY DEF reset_done, reset_rc, Base, Good
  <2>3. sqlite3_reset(m_handle[s]) # NULL => sqlite3_reset(m_handle[s]).status = "init"
    BY DEF sqlite3_reset, fresh
  <2> QED
    BY <2>1, <2>2, <2>3
<1>2. ASSUME NEW s \in Object, \/ Prepare(s) \/ Step(s) \/ Execute(s) \/ Bind(s)
                               \/ ClearBindings(s) \/ Destroy(s)
                               \/ IterBegin(s) \/ IterNext(s) \/ IterPastEnd(s)
      PROVE  FALSE
  <2>1. \E op \in {"prepare", "step", "execute", "bind", "clear_bindings", "destroy",
                    "begin", "next"} : ret'.op = op
    <3>1. CASE Prepare(s)
      BY <3>1 DEF Prepare, internal_prepare, Returned
    <3>2. CASE Step(s) \/ Execute(s)
      BY <3>2 DEF Step, Execute, Executed, Returned
    <3>3. CASE Bind(s) \/ ClearBindings(s) \/ Destroy(s)
      BY <3>3 DEF Bind, ClearBindings, Destroy, Returned
    <3>4. CASE IterBegin(s) \/ IterNext(s) \/ IterPastEnd(s)
      BY <3>4 DEF IterBegin, IterNext, IterPastEnd, row_iterator_step, Returned
    <3> QED
      BY <1>2, <3>1, <3>2, <3>3, <3>4
  <2> QED
    BY <2>1
<1>3. ASSUME ExecuteText \/ ExecuteCallback PROVE FALSE
  BY <1>3, TextIsNoStep
<1>4. CASE UNCHANGED vars
  BY <1>4 DEF vars, ResetRearms
<1> QED
  BY <1>1, <1>2, <1>3, <1>4 DEF Next

\* A statement is runnable after every reset(), also one that throws because the
\* run it ends had failed.
THEOREM ResetAlwaysRearms == Spec => []ResetRearms
<1>1. Init => ResetRearms
  BY DEF Init, ResetRearms
<1> QED
  BY <1>1, InitBase, NextBase, ResetStep, PTL DEF Spec

----------------------------------------------------------------------------
(***************************************************************************)
(* A program that prepares an object once.  Armed ties m_done and the rows *)
(* handed out to the state of the engine's program: without the discipline *)
(* it fails, since prepare leaves the m_done of the previous statement.    *)
(***************************************************************************)
Armed(h, done, sn) ==
  IF h = NULL THEN done = FALSE
  ELSE /\ h.status = "done" => done = TRUE /\ sn = h.sql.rows
       /\ h.status # "done" => done = FALSE /\ sn = begun(h)

Once == Base /\ \A s \in Object : Armed(m_handle[s], m_done[s], seen[s])

\* The history of rows, as Stepped writes it.
rows_after(sn, r) == IF r.out = "true" THEN sn + 1
                     ELSE IF r.out \in Thrown THEN 0 ELSE sn

LEMMA StepArmed ==
  ASSUME NEW h \in Handle, NEW done \in BOOLEAN, NEW r \in step(h, done), changes \in Nat,
         NEW sn \in Nat, Good(h, done), Armed(h, done, sn)
  PROVE  /\ Armed(r.handle, r.done, rows_after(sn, r))
         /\ r.out = "false" => /\ r.handle # NULL
                               /\ r.handle.status = "done"
                               /\ rows_after(sn, r) = r.handle.sql.rows
<1> USE DEF Handle
<1>1. CASE Nop(h, done, r)
  <2>1. h # NULL /\ h.status = "done" /\ sn = h.sql.rows
    BY <1>1 DEF Nop, Armed
  <2>2. rows_after(sn, r) = sn
    BY <1>1 DEF Nop, rows_after, Thrown
  <2> QED
    BY <1>1, <2>1, <2>2 DEF Nop
<1>2. CASE Row(h, done, r)
  <2>1. h \in Vdbe /\ h.status # "done" /\ sn = begun(h)
    BY <1>2 DEF Row, Armed
  <2>2. r.handle \in Vdbe /\ r.handle.status = "row" /\ r.handle.emitted = sn + 1
    BY <1>2, <2>1, HandlesOf DEF Row
  <2>3. rows_after(sn, r) = sn + 1 /\ r.done = FALSE /\ r.out = "true"
    BY <1>2 DEF Row, rows_after
  <2>4. begun(r.handle) = sn + 1
    BY <2>2 DEF begun
  <2> QED
    BY <2>2, <2>3, <2>4, NullIsNoVdbe DEF Armed
<1>3. CASE End(h, done, r)
  <2>1. h \in Vdbe /\ h.status # "done" /\ sn = begun(h)
    BY <1>3 DEF End, Armed
  <2>2. r.handle \in Vdbe /\ r.handle.status = "done" /\ r.handle.sql = h.sql
    BY <1>3, <2>1, HandlesOf DEF End
  <2>3. rows_after(sn, r) = sn /\ r.done = TRUE
    BY <1>3 DEF End, rows_after, Thrown
  <2>4. sn = h.sql.rows
    <3>1. h.sql.rows \in Nat /\ h.emitted <= h.sql.rows
      BY <2>1, SqlAssumption, NullIsNoVdbe DEF Good, Vdbe, SqlText
    <3>2. sn <= h.sql.rows
      BY <2>1, <3>1 DEF begun
    <3>3. ~(sn < h.sql.rows)
      BY <1>3, <2>1 DEF End
    <3> DEFINE m == h.sql.rows
    <3>4. m \in Nat /\ sn <= m /\ ~(sn < m)
      BY <3>1, <3>2, <3>3
    <3> HIDE DEF m
    <3>5. sn = m
      BY <3>4
    <3> QED
      BY <3>5 DEF m
  <2> QED
    BY <2>2, <2>3, <2>4, NullIsNoVdbe DEF Armed
<1>4. CASE Fail(h, done, r)
  <2>1. rows_after(sn, r) = 0 /\ r.done = FALSE /\ r.out # "false"
    BY <1>4 DEF Fail, rows_after, Thrown
  <2>2. CASE r.handle = NULL
    BY <2>1, <2>2 DEF Armed
  <2>3. CASE r.handle # NULL
    <3>1. r.handle \in Vdbe /\ r.handle.status = "failed"
      BY <1>4, <2>3, HandlesOf DEF Fail
    <3>2. begun(r.handle) = 0
      BY <3>1 DEF begun
    <3> QED
      BY <2>1, <3>1, <3>2 DEF Armed
  <2> QED
    BY <2>2, <2>3
<1> QED
  BY <1>1, <1>2, <1>3, <1>4, StepEnds

\* What a call of step leaves, for the object itself and for the others.
LEMMA SteppedOnce ==
  ASSUME Once, NEW s \in Object, NEW r \in step(m_handle[s], m_done[s]), Stepped(s, r)
  PROVE  /\ \A u \in Object : Armed(m_handle'[u], m_done'[u], seen'[u])
         /\ r.out = "false" => /\ m_handle'[s].status = "done"
                               /\ seen'[s] = m_handle'[s].sql.rows
<1>1. /\ m_handle[s] \in Handle /\ m_done[s] \in BOOLEAN /\ changes \in Nat /\ seen[s] \in Nat
      /\ Good(m_handle[s], m_done[s]) /\ Armed(m_handle[s], m_done[s], seen[s])
  BY DEF Once, Base, Types
<1>2. /\ Armed(r.handle, r.done, rows_after(seen[s], r))
      /\ r.out = "false" => /\ r.handle.status = "done"
                            /\ rows_after(seen[s], r) = r.handle.sql.rows
  BY <1>1, StepArmed
<1>3. /\ m_handle' = [m_handle EXCEPT ![s] = r.handle]
      /\ m_done' = [m_done EXCEPT ![s] = r.done]
      /\ seen' = [seen EXCEPT ![s] = rows_after(seen[s], r)]
  BY DEF Stepped, rows_after
<1>4. /\ m_handle'[s] = r.handle /\ m_done'[s] = r.done /\ seen'[s] = rows_after(seen[s], r)
      /\ \A u \in Object \ {s} :
           m_handle'[u] = m_handle[u] /\ m_done'[u] = m_done[u] /\ seen'[u] = seen[u]
  BY <1>3 DEF Once, Base, Types
<1> QED
  BY <1>2, <1>4 DEF Once


LEMMA OnceStep == ASSUME PrepareOnce = TRUE PROVE Once /\ [Next]_vars => Once'
<1> SUFFICES ASSUME Once, [Next]_vars
             PROVE  \A u \in Object : Armed(m_handle'[u], m_done'[u], seen'[u])
  BY NextBase DEF Once
<1> USE DEF Once
<1>1. ASSUME NEW s \in Object, Prepare(s)
      PROVE  \A u \in Object : Armed(m_handle'[u], m_done'[u], seen'[u])
  <2>1. PICK q \in Sql, k \in 0..MaxValues : internal_prepare(s, q, k)
    BY <1>1 DEF Prepare
  <2>2. m_handle[s] = NULL /\ m_done' = m_done
    BY <2>1 DEF internal_prepare
  <2>3. m_done[s] = FALSE
    BY <2>2 DEF Armed
  <2>4. CASE m_handle' = [m_handle EXCEPT ![s] = compiled(q)] /\ seen' = [seen EXCEPT ![s] = 0]
    <3>1. Armed(compiled(q), FALSE, 0)
      BY Fresh DEF compiled, Armed, begun
    <3> QED
      BY <2>2, <2>3, <2>4, <3>1 DEF Base, Types
  <2>5. CASE m_handle' = m_handle /\ seen' = seen
    BY <2>2, <2>5
  <2> QED
    BY <2>1, <2>4, <2>5 DEF internal_prepare
<1>2. ASSUME NEW s \in Object, Step(s) \/ Execute(s) \/ IterBegin(s) \/ IterNext(s)
      PROVE  \A u \in Object : Armed(m_handle'[u], m_done'[u], seen'[u])
  <2>1. PICK r \in step(m_handle[s], m_done[s]) : Stepped(s, r)
    BY <1>2 DEF Step, Execute, IterBegin, IterNext, row_iterator_step
  <2> QED
    BY <2>1, SteppedOnce
<1>3. ASSUME NEW s \in Object, Bind(s) \/ ClearBindings(s) \/ IterPastEnd(s)
      PROVE  \A u \in Object : Armed(m_handle'[u], m_done'[u], seen'[u])
  BY <1>3 DEF Bind, ClearBindings, IterPastEnd
<1>4. ASSUME NEW s \in Object, Reset(s)
      PROVE  \A u \in Object : Armed(m_handle'[u], m_done'[u], seen'[u])
  <2>1. reset_done(s) = FALSE
    BY DEF reset_done, reset_rc, Base, Types, Good
  <2>2. Armed(sqlite3_reset(m_handle[s]), FALSE, 0)
    <3>1. CASE m_handle[s] = NULL
      BY <3>1 DEF sqlite3_reset, Armed
    <3>2. CASE m_handle[s] # NULL
      <4>1. m_handle[s].sql \in Sql
        BY <3>2 DEF Base, Types, Handle, Vdbe
      <4> QED
        BY <3>2, <4>1, Fresh, NullIsNoVdbe DEF sqlite3_reset, Armed, begun
    <3> QED
      BY <3>1, <3>2
  <2> QED
    BY <1>4, <2>1, <2>2 DEF Reset, Base, Types
<1>5. ASSUME NEW s \in Object, Destroy(s)
      PROVE  \A u \in Object : Armed(m_handle'[u], m_done'[u], seen'[u])
  BY <1>5 DEF Destroy, constructed_done, Base, Types, Armed
<1>6. CASE ExecuteText
  BY <1>6 DEF ExecuteText
<1>7. CASE ExecuteCallback
  BY <1>7 DEF ExecuteCallback
<1>8. CASE UNCHANGED vars
  BY <1>8 DEF vars
<1> QED
  BY <1>1, <1>2, <1>3, <1>4, <1>5, <1>6, <1>7, <1>8 DEF Next

\* Only step() and the iterators answer what FalseMeansNoMoreRows is about.
LEMMA FalseStep == Once /\ FalseMeansNoMoreRows /\ [Next]_vars => FalseMeansNoMoreRows'
<1> DEFINE Asks == {"step", "begin", "next"}
<1> SUFFICES ASSUME Once, FalseMeansNoMoreRows, [Next]_vars,
                    ret'.op \in Asks, ret'.out = "false"
             PROVE  /\ m_handle'[ret'.of].status = "done"
                    /\ seen'[ret'.of] = m_handle'[ret'.of].sql.rows
  BY DEF FalseMeansNoMoreRows
<1>1. ASSUME NEW s \in Object, Step(s) \/ IterBegin(s) \/ IterNext(s)
      PROVE  /\ m_handle'[ret'.of].status = "done"
             /\ seen'[ret'.of] = m_handle'[ret'.of].sql.rows
  <2>1. PICK r \in step(m_handle[s], m_done[s]) :
          Stepped(s, r) /\ ret'.of = s /\ (r.out = "false" \/ ret'.out = "terminate")
    <3>1. CASE Step(s)
      BY <3>1 DEF Step, Returned
    <3>2. CASE IterBegin(s) \/ IterNext(s)
      BY <3>2 DEF IterBegin, IterNext, row_iterator_step, iterated, Returned
    <3> QED
      BY <1>1, <3>1, <3>2
  <2> QED
    BY <2>1, SteppedOnce
<1>2. ASSUME NEW s \in Object, \/ Prepare(s) \/ Execute(s) \/ Bind(s) \/ ClearBindings(s)
                               \/ Reset(s) \/ Destroy(s)
      PROVE  FALSE
  <2>1. \E o \in {"prepare", "execute", "bind", "clear_bindings", "reset", "destroy"} : ret'.op = o
    <3>1. CASE Prepare(s)
      BY <3>1 DEF Prepare, internal_prepare, Returned
    <3>2. CASE Execute(s)
      BY <3>2 DEF Execute, Executed
    <3>3. CASE Bind(s) \/ ClearBindings(s)
      BY <3>3 DEF Bind, ClearBindings, Returned
    <3>4. CASE Reset(s) \/ Destroy(s)
      BY <3>4 DEF Reset, Destroy, Returned
    <3> QED
      BY <1>2, <3>1, <3>2, <3>3, <3>4
  <2> QED
    BY <2>1
<1>3. ASSUME ExecuteText \/ ExecuteCallback PROVE FALSE
  BY <1>3, TextIsNoStep
<1>4. CASE UNCHANGED vars
  BY <1>4 DEF vars, FalseMeansNoMoreRows
<1>5. ASSUME NEW s \in Object, IterPastEnd(s) PROVE FALSE
  BY <1>5 DEF IterPastEnd, Returned
<1> QED
  BY <1>1, <1>2, <1>3, <1>4, <1>5 DEF Next

LEMMA OnceImplies == Once => TypeOK
  BY DEF Once, Base, Types, Armed, Good, TypeOK, Handle

\* Types, under the discipline: m_done never outlives its statement.
THEOREM TypeCorrect == PrepareOnce = TRUE /\ Spec => []TypeOK
<1>1. Init => Once
  BY InitBase DEF Once, Init, Armed
<1>2. CASE PrepareOnce = TRUE
  <2>1. Once /\ [Next]_vars => Once'
    BY <1>2, OnceStep
  <2> QED
    BY <1>1, <2>1, OnceImplies, PTL DEF Spec
<1> QED
  BY <1>2

\* Of any statement prepared once, with any number of rows, step() and the
\* iterators hand out every row before they say that there are no more.
THEOREM NoRowIsSkipped == PrepareOnce = TRUE /\ Spec => []FalseMeansNoMoreRows
<1>1. Init => Once /\ FalseMeansNoMoreRows
  BY InitBase DEF Once, Init, Armed, FalseMeansNoMoreRows
<1>2. CASE PrepareOnce = TRUE
  <2>1. Once /\ [Next]_vars => Once'
    BY <1>2, OnceStep
  <2> QED
    BY <1>1, <2>1, FalseStep, PTL DEF Spec
<1> QED
  BY <1>2

----------------------------------------------------------------------------
(***************************************************************************)
(* The refinement: every call is a step of the cursor of its object, or    *)
(* leaves all cursors alone.                                               *)
(***************************************************************************)
Totals == [s \in Object |-> rows_of(s)]

rows_in(h) == IF h = NULL THEN 0 ELSE h.sql.rows

\* A call that gives s the handle h changes the rows of no other object.
LEMMA TotalsOf ==
  ASSUME Types, NEW s \in Object, NEW h \in Handle, m_handle' = [m_handle EXCEPT ![s] = h]
  PROVE  Totals' = [Totals EXCEPT ![s] = rows_in(h)] /\ Totals'[s] = rows_in(h)
BY DEF Types, Totals, rows_of, rows_in

LEMMA TotalsSame ==
  ASSUME Types, NEW s \in Object, NEW h \in Handle, m_handle' = [m_handle EXCEPT ![s] = h],
         rows_in(h) = rows_in(m_handle[s])
  PROVE  Totals' = Totals
BY DEF Types, Totals, rows_of, rows_in

LEMMA RowsAreCounted == ASSUME NEW h \in Handle PROVE rows_in(h) \in Nat
BY SqlAssumption DEF Handle, Vdbe, SqlText, rows_in

\* A call of step hands out the next row, says that there are no more, says so
\* again, or fails and begins again.
LEMMA SteppedCursor ==
  ASSUME Once, NEW s \in Object, NEW r \in step(m_handle[s], m_done[s]), Stepped(s, r)
  PROVE  [CursorOf!Next]_<<Totals, seen, m_done>>
<1> DEFINE h == m_handle[s]
<1>1. /\ h \in Handle /\ m_done[s] \in BOOLEAN /\ changes \in Nat /\ seen[s] \in Nat
      /\ Good(h, m_done[s]) /\ Armed(h, m_done[s], seen[s]) /\ Types
  BY DEF Once, Base, Types
<1>2. /\ m_handle' = [m_handle EXCEPT ![s] = r.handle]
      /\ m_done' = [m_done EXCEPT ![s] = r.done]
      /\ seen' = [seen EXCEPT ![s] = rows_after(seen[s], r)]
  BY DEF Stepped, rows_after
<1>3. r.handle \in Handle
  BY <1>1, StepGood
<1>4. Totals[s] = rows_in(h)
  BY DEF Totals, rows_of, rows_in
<1>5. CASE Nop(h, m_done[s], r)
  <2>1. Totals' = Totals
    BY <1>1, <1>2, <1>3, <1>5, TotalsSame DEF Nop
  <2>2. rows_after(seen[s], r) = seen[s] /\ r.done = m_done[s]
    BY <1>5 DEF Nop, rows_after, Thrown
  <2>3. seen' = seen /\ m_done' = m_done
    BY <1>1, <1>2, <2>2 DEF Types
  <2> QED
    BY <2>1, <2>3
<1>6. CASE Row(h, m_done[s], r)
  <2>1. h \in Vdbe /\ h # NULL /\ m_done[s] = FALSE /\ seen[s] = begun(h)
    BY <1>1, <1>6 DEF Row, Armed, Handle
  <2>2. Totals' = Totals
    <3>1. r.handle = at_row(h) /\ r.handle \in Vdbe /\ r.handle.sql = h.sql
      BY <1>6, <2>1, HandlesOf DEF Row
    <3> QED
      BY <1>1, <1>2, <1>3, <2>1, <3>1, TotalsSame, NullIsNoVdbe DEF rows_in
  <2>3. rows_after(seen[s], r) = seen[s] + 1 /\ r.done = FALSE
    BY <1>6 DEF Row, rows_after
  <2>4. seen[s] < Totals[s]
    BY <1>4, <1>6, <2>1 DEF Row, rows_in
  <2>5. m_done' = m_done
    BY <1>1, <1>2, <2>1, <2>3 DEF Types
  <2>6. seen' = [seen EXCEPT ![s] = seen[s] + 1]
    BY <1>2, <2>3
  <2>7. CursorOf!Row(s)
    BY <2>1, <2>2, <2>4, <2>5, <2>6 DEF CursorOf!Row, Totals
  <2> QED
    BY <2>7 DEF CursorOf!Next
<1>7. CASE End(h, m_done[s], r)
  <2>1. h \in Vdbe /\ h # NULL /\ m_done[s] = FALSE
    BY <1>1, <1>7 DEF End, Handle
  <2>2. r.handle \in Vdbe /\ r.handle.sql = h.sql /\ rows_in(r.handle) = rows_in(h)
    BY <1>7, <2>1, HandlesOf, NullIsNoVdbe DEF End, rows_in
  <2>3. Totals' = Totals
    BY <1>1, <1>2, <1>3, <2>2, TotalsSame
  <2>4. rows_after(seen[s], r) = seen[s] /\ r.done = TRUE /\ r.out = "false"
    BY <1>7 DEF End, rows_after, Thrown
  <2>5. seen[s] = Totals[s]
    <3>1. rows_after(seen[s], r) = r.handle.sql.rows
      BY <1>1, <2>4, StepArmed
    <3> QED
      BY <1>4, <2>1, <2>2, <2>4, <3>1 DEF rows_in
  <2>6. seen' = seen /\ m_done' = [m_done EXCEPT ![s] = TRUE]
    BY <1>1, <1>2, <2>4 DEF Types
  <2>7. CursorOf!End(s)
    BY <2>1, <2>3, <2>5, <2>6 DEF CursorOf!End, Totals
  <2> QED
    BY <2>7 DEF CursorOf!Next
<1>8. CASE Fail(h, m_done[s], r)
  <2>1. rows_in(r.handle) = rows_in(h)
    <3>1. CASE h = NULL
      BY <1>8, <3>1 DEF Fail
    <3>2. CASE h # NULL
      <4>1. h \in Vdbe
        BY <1>1, <3>2 DEF Handle
      <4>2. r.handle \in Vdbe /\ r.handle.sql = h.sql
        BY <1>8, <3>2, <4>1, HandlesOf DEF Fail
      <4> QED
        BY <3>2, <4>2, NullIsNoVdbe DEF rows_in
    <3> QED
      BY <3>1, <3>2
  <2>2. Totals' = Totals
    BY <1>1, <1>2, <1>3, <2>1, TotalsSame
  <2>3. rows_after(seen[s], r) = 0 /\ r.done = FALSE
    BY <1>8 DEF Fail, rows_after, Thrown
  <2>4. CursorOf!Restart(s)
    BY <1>2, <2>2, <2>3 DEF CursorOf!Restart, Totals
  <2> QED
    BY <2>4 DEF CursorOf!Next
<1> QED
  BY <1>1, <1>5, <1>6, <1>7, <1>8, StepEnds

LEMMA CursorStep ==
  ASSUME PrepareOnce = TRUE, Once, [Next]_vars
  PROVE  [CursorOf!Next]_<<Totals, seen, m_done>>
<1> Types
  BY DEF Once, Base
<1>1. ASSUME NEW s \in Object, Prepare(s)
      PROVE  [CursorOf!Next]_<<Totals, seen, m_done>>
  <2>1. PICK q \in Sql, k \in 0..MaxValues : internal_prepare(s, q, k)
    BY <1>1 DEF Prepare
  <2>2. m_handle[s] = NULL /\ m_done' = m_done
    BY <2>1 DEF internal_prepare
  <2>3. m_done[s] = FALSE
    BY <2>2 DEF Once, Armed
  <2>4. CASE m_handle' = [m_handle EXCEPT ![s] = compiled(q)] /\ seen' = [seen EXCEPT ![s] = 0]
    <3>1. compiled(q) \in Handle
      BY Fresh
    <3>2. /\ Totals' = [Totals EXCEPT ![s] = rows_in(compiled(q))]
          /\ Totals'[s] = rows_in(compiled(q)) /\ rows_in(compiled(q)) \in Nat
      BY <2>4, <3>1, TotalsOf, RowsAreCounted
    <3>3. m_done' = [m_done EXCEPT ![s] = FALSE]
      BY <2>2, <2>3 DEF Types
    <3>4. CursorOf!Open(s)
      BY <2>4, <3>2, <3>3 DEF CursorOf!Open, Totals
    <3> QED
      BY <3>4 DEF CursorOf!Next
  <2>5. CASE m_handle' = m_handle /\ seen' = seen
    BY <2>2, <2>5 DEF Totals, rows_of
  <2> QED
    BY <2>1, <2>4, <2>5 DEF internal_prepare
<1>2. ASSUME NEW s \in Object, Step(s) \/ Execute(s) \/ IterBegin(s) \/ IterNext(s)
      PROVE  [CursorOf!Next]_<<Totals, seen, m_done>>
  <2>1. PICK r \in step(m_handle[s], m_done[s]) : Stepped(s, r)
    BY <1>2 DEF Step, Execute, IterBegin, IterNext, row_iterator_step
  <2> QED
    BY <2>1, SteppedCursor
<1>3. ASSUME NEW s \in Object, Reset(s)
      PROVE  [CursorOf!Next]_<<Totals, seen, m_done>>
  <2>1. reset_done(s) = FALSE
    BY DEF reset_done, reset_rc, Once, Base, Types, Good
  <2>2. /\ sqlite3_reset(m_handle[s]) \in Handle
        /\ rows_in(sqlite3_reset(m_handle[s])) = rows_in(m_handle[s])
    <3>1. CASE m_handle[s] = NULL
      BY <3>1 DEF sqlite3_reset, Handle
    <3>2. CASE m_handle[s] # NULL
      <4>1. m_handle[s].sql \in Sql
        BY <3>2 DEF Types, Handle, Vdbe
      <4> QED
        BY <3>2, <4>1, Fresh, NullIsNoVdbe DEF sqlite3_reset, Handle, rows_in
    <3> QED
      BY <3>1, <3>2
  <2>3. /\ m_handle' = [m_handle EXCEPT ![s] = sqlite3_reset(m_handle[s])]
        /\ m_done' = [m_done EXCEPT ![s] = FALSE] /\ seen' = [seen EXCEPT ![s] = 0]
    BY <1>3, <2>1 DEF Reset
  <2>4. Totals' = Totals
    BY <2>2, <2>3, TotalsSame
  <2>5. CursorOf!Restart(s)
    BY <2>3, <2>4 DEF CursorOf!Restart, Totals
  <2> QED
    BY <2>5 DEF CursorOf!Next
<1>4. ASSUME NEW s \in Object, Destroy(s)
      PROVE  [CursorOf!Next]_<<Totals, seen, m_done>>
  <2>1. /\ m_handle' = [m_handle EXCEPT ![s] = NULL] /\ NULL \in Handle
        /\ m_done' = [m_done EXCEPT ![s] = FALSE] /\ seen' = [seen EXCEPT ![s] = 0]
    BY <1>4 DEF Destroy, constructed_done, Handle
  <2>2. Totals' = [Totals EXCEPT ![s] = 0] /\ Totals'[s] = 0
    BY <2>1, TotalsOf DEF rows_in
  <2>3. CursorOf!Open(s)
    BY <2>1, <2>2 DEF CursorOf!Open, Totals
  <2> QED
    BY <2>3 DEF CursorOf!Next
<1>5. ASSUME UNCHANGED <<m_handle, m_done, seen>>
      PROVE  [CursorOf!Next]_<<Totals, seen, m_done>>
  BY <1>5 DEF Totals, rows_of
<1>6. ASSUME NEW s \in Object, Bind(s) \/ ClearBindings(s) \/ IterPastEnd(s)
      PROVE  UNCHANGED <<m_handle, m_done, seen>>
  BY <1>6 DEF Bind, ClearBindings, IterPastEnd
<1>7. CASE ExecuteText \/ ExecuteCallback
  BY <1>5, <1>7 DEF ExecuteText, ExecuteCallback
<1>8. CASE UNCHANGED vars
  BY <1>5, <1>8 DEF vars
<1> QED
  BY <1>1, <1>2, <1>3, <1>4, <1>5, <1>6, <1>7, <1>8 DEF Next

\* Objects that the program prepares once, for statements of any number of rows and
\* whatever the engine refuses, are cursors in any mixture of calls (Statement.cpp,
\* step and reset).
THEOREM StatementsAreCursors == PrepareOnce = TRUE /\ Spec => ObjectsAreCursors
<1>1. Init => Once /\ CursorOf!Init
  <2>1. ASSUME Init PROVE CursorOf!Init
    BY <2>1 DEF Init, CursorOf!Init, rows_of
  <2> QED
    BY <2>1, InitBase DEF Once, Init, Armed
<1>2. CASE PrepareOnce = TRUE
  <2>1. Once /\ [Next]_vars => Once'
    BY <1>2, OnceStep
  <2>2. Once /\ [Next]_vars
          => [CursorOf!Next]_<<[s \in Object |-> rows_of(s)], seen, m_done>>
    BY <1>2, CursorStep DEF Totals
  <2> QED
    BY <1>1, <2>1, <2>2, PTL DEF Spec, ObjectsAreCursors, CursorOf!Spec
<1> QED
  BY <1>2

----------------------------------------------------------------------------
\* What each call says of the engine's answer: FailureIsRaised for one outcome.
Refusal == Failure \cup {"ERROR", "MISUSE", "RANGE"}
Says(rc, out) ==
  /\ rc \in Refusal => out \in Raised
  /\ out \in Thrown => rc \in Refusal
  /\ out = "busy_exception" => rc = "BUSY"
  /\ rc = "BUSY" => out # "exception"

LEMMA RefusalSays ==
  /\ \A c \in Refusal : Says(c, throw_error_code(c))
  /\ \A c \in Refusal : Says(c, "terminate")
  /\ \A c \in {"none", "OK", "ROW", "DONE"} : \A out : out \notin Thrown => Says(c, out)
<1>1. \A c \in {"none", "OK", "ROW", "DONE"} : c \notin Refusal /\ c # "BUSY"
  BY ParameterAssumption DEF Refusal
<1> QED
  BY <1>1 DEF Says, Raised, Thrown, Dead, throw_error_code

LEMMA CheckedSays ==
  /\ \A rc \in Refusal \cup {"OK"} : Says(rc, checked(rc))
  /\ \A h, i : bind_rc(h, i) \in Refusal \cup {"OK"}
  /\ \A h, k : bind_all_rc(h, k) \in Refusal \cup {"OK"}
<1>1. \A rc \in Refusal \cup {"OK"} : Says(rc, checked(rc))
  BY RefusalSays DEF checked, Thrown
<1>2. \A h, i : bind_rc(h, i) \in Refusal \cup {"OK"}
  BY DEF bind_rc, Refusal
<1>3. \A h, k : bind_all_rc(h, k) \in Refusal \cup {"OK"}
  BY <1>2 DEF bind_all_rc
<1> QED
  BY <1>1, <1>2, <1>3

\* The engine's answer to a step, how the step ends, and the count of changes.
LEMMA StepSays ==
  ASSUME NEW h, NEW done, NEW r \in step(h, done)
  PROVE  /\ \/ r.rc \in {"none", "DONE"} /\ r.out = "false"
            \/ r.rc = "ROW" /\ r.out = "true"
            \/ r.rc \in Refusal /\ r.out = throw_error_code(r.rc)
         /\ r.rc = "DONE" /\ h # NULL /\ h.sql.kind = "dml" => r.changes = r.own
<1>1. CASE r = [handle |-> h, done |-> done, out |-> "false", rc |-> "none",
                own |-> 0, changes |-> changes]
  BY <1>1
<1>2. ASSUME NEW e \in sqlite3_step(h),
             r = [handle  |-> e.handle,
                  done    |-> IF sets_done(e.rc) THEN TRUE ELSE done,
                  out     |-> CASE e.rc = "ROW"  -> "true"
                                [] e.rc = "DONE" -> "false"
                                [] OTHER         -> throw_error_code(e.rc),
                  rc      |-> e.rc,
                  own     |-> IF modifies(h, e) THEN h.sql.changes ELSE 0,
                  changes |-> IF modifies(h, e) THEN h.sql.changes ELSE changes]
      PROVE  /\ \/ r.rc \in {"none", "DONE"} /\ r.out = "false"
                \/ r.rc = "ROW" /\ r.out = "true"
                \/ r.rc \in Refusal /\ r.out = throw_error_code(r.rc)
             /\ r.rc = "DONE" /\ h # NULL /\ h.sql.kind = "dml" => r.changes = r.own
  <2>1. e.rc \in {"ROW", "DONE"} \/ e.rc \in Refusal
    BY DEF sqlite3_step, Refusal
  <2>2. e.rc \in Refusal => e.rc # "ROW" /\ e.rc # "DONE"
    BY ParameterAssumption DEF Refusal
  <2> QED
    BY <1>2, <2>1, <2>2 DEF modifies
<1> QED
  BY <1>1, <1>2 DEF step

LEMMA SaysOfStep ==
  ASSUME NEW h, NEW done, NEW r \in step(h, done)
  PROVE  Says(r.rc, r.out) /\ Says(r.rc, executed(h, r)) /\ Says(r.rc, iterated(r))
<1>1. CASE r.rc \in {"none", "DONE", "ROW"} /\ r.out \in {"true", "false"}
  <2>1. /\ r.out \notin Thrown /\ executed(h, r) \notin Thrown /\ iterated(r) \notin Thrown
    BY <1>1 DEF executed, iterated, Thrown
  <2> QED
    BY <1>1, <2>1, RefusalSays
<1>2. CASE r.rc \in Refusal /\ r.out = throw_error_code(r.rc)
  <2>1. r.out \in Thrown
    BY <1>2, Thrower
  <2>2. executed(h, r) = r.out /\ iterated(r) = "terminate"
    BY <2>1 DEF executed, iterated, Thrown, Raised
  <2> QED
    BY <1>2, <2>2, RefusalSays
<1> QED
  BY <1>1, <1>2, StepSays

\* What ExecuteText does with the text q, k values and the answer rc to preparing q.
Ran(q, k, rc) ==
  LET first == IF rc = "OK" THEN bind_all_rc(compiled(q), k) ELSE rc IN
  IF first # "OK"
  THEN /\ Returned("execute_text", "none", throw_error_code(first), first)
       /\ UNCHANGED changes
  ELSE \E r \in step(compiled(q), FALSE) :
         /\ changes' = r.changes
         /\ Executed("execute_text", "none", compiled(q), r)

LEMMA RaisedStep == Base /\ FailureIsRaised /\ [Next]_vars => FailureIsRaised'
<1>0. FailureIsRaised <=> Says(ret.rc, ret.out)
  BY DEF FailureIsRaised, Says, Refusal
<1> SUFFICES ASSUME Base, Says(ret.rc, ret.out), [Next]_vars
             PROVE  Says(ret'.rc, ret'.out)
  BY <1>0 DEF FailureIsRaised, Says, Refusal
<1>1. ASSUME NEW s \in Object, Prepare(s) PROVE Says(ret'.rc, ret'.out)
  <2>1. PICK q \in Sql, k \in 0..MaxValues : internal_prepare(s, q, k)
    BY <1>1 DEF Prepare
  <2>2. PICK rc \in sqlite3_prepare(q) :
          IF rc = "OK"
          THEN LET brc == bind_all_rc(compiled(q), k)
               IN  Returned("prepare", s, checked(brc), brc)
          ELSE Returned("prepare", s, throw_error_code(rc), rc)
    BY <2>1 DEF internal_prepare
  <2>3. rc # "OK" => rc \in Refusal
    BY DEF sqlite3_prepare, Refusal
  <2> QED
    BY <2>2, <2>3, CheckedSays, RefusalSays DEF Returned
<1>2. ASSUME NEW s \in Object, Step(s) \/ Execute(s) \/ IterBegin(s) \/ IterNext(s)
      PROVE  Says(ret'.rc, ret'.out)
  <2>1. PICK r \in step(m_handle[s], m_done[s]) :
          ret'.rc = r.rc /\ ret'.out \in {r.out, executed(m_handle[s], r), iterated(r)}
    <3>1. CASE Step(s)
      BY <3>1 DEF Step, Returned
    <3>2. CASE Execute(s)
      BY <3>2 DEF Execute, Executed
    <3>3. CASE IterBegin(s) \/ IterNext(s)
      BY <3>3 DEF IterBegin, IterNext, row_iterator_step, Returned
    <3> QED
      BY <1>2, <3>1, <3>2, <3>3
  <2> QED
    BY <2>1, SaysOfStep
<1>3. ASSUME NEW s \in Object, Bind(s) PROVE Says(ret'.rc, ret'.out)
  BY <1>3, CheckedSays DEF Bind, Returned
<1>4. ASSUME NEW s \in Object, ClearBindings(s) PROVE Says(ret'.rc, ret'.out)
  <2>1. \/ ret'.rc = "none" /\ ret'.out = "null_dereference"
        \/ \E k \in 0..MaxValues : /\ ret'.rc = bind_all_rc(m_handle[s], k)
                                   /\ ret'.out = checked(bind_all_rc(m_handle[s], k))
    BY <1>4 DEF ClearBindings, Returned
  <2> QED
    BY <2>1, CheckedSays, RefusalSays DEF Thrown
<1>5. ASSUME NEW s \in Object, Reset(s) PROVE Says(ret'.rc, ret'.out)
  <2>1. reset_rc(m_handle[s]) \in Refusal \cup {"OK"}
    BY DEF Base, Types, Handle, Vdbe, reset_rc, Refusal
  <2> QED
    BY <1>5, <2>1, CheckedSays DEF Reset, Returned
<1>6. ASSUME NEW s \in Object, Destroy(s) PROVE Says(ret'.rc, ret'.out)
  BY <1>6, RefusalSays DEF Destroy, Returned, Thrown
<1>7. CASE ExecuteText
  <2>1. PICK q \in Sql : \E k \in 0..MaxValues : \E rc \in sqlite3_prepare(q) :
                Ran(q, k, rc)
    BY <1>7 DEF ExecuteText, Ran
  <2>2. PICK k \in 0..MaxValues : \E rc \in sqlite3_prepare(q) : Ran(q, k, rc)
    BY <2>1
  <2>3. PICK rc \in sqlite3_prepare(q) : Ran(q, k, rc)
    BY <2>2
  <2> DEFINE first == IF rc = "OK" THEN bind_all_rc(compiled(q), k) ELSE rc
  <2>4. rc # "OK" => rc \in Refusal
    BY DEF sqlite3_prepare, Refusal
  <2>5. first \in Refusal \cup {"OK"}
    BY <2>4, CheckedSays
  <2>6. CASE first # "OK"
    BY <2>3, <2>5, <2>6, RefusalSays DEF Returned, Ran
  <2>7. CASE first = "OK"
    <3>1. PICK r \in step(compiled(q), FALSE) :
            Executed("execute_text", "none", compiled(q), r)
      BY <2>3, <2>7 DEF Ran
    <3>2. ret'.rc = r.rc /\ ret'.out = executed(compiled(q), r)
      BY <3>1 DEF Executed
    <3> QED
      BY <3>2, SaysOfStep
  <2> QED
    BY <2>6, <2>7
<1>8. CASE ExecuteCallback
  <2>1. \/ ret'.rc = "DONE" /\ ret'.out = "returned"
        \/ \E q \in Sql : \E rc \in sqlite3_prepare(q) \cup Failure :
              rc # "OK" /\ ret'.rc = rc /\ ret'.out = throw_error_code(rc)
    BY <1>8 DEF ExecuteCallback, Returned
  <2>2. \A q \in Sql : \A rc \in sqlite3_prepare(q) \cup Failure : rc # "OK" => rc \in Refusal
    BY DEF sqlite3_prepare, Refusal
  <2> QED
    BY <2>1, <2>2, RefusalSays DEF Thrown
<1>9. CASE UNCHANGED vars
  BY <1>9 DEF vars
<1>10. ASSUME NEW s \in Object, IterPastEnd(s) PROVE Says(ret'.rc, ret'.out)
  BY <1>10, RefusalSays DEF IterPastEnd, Returned, Thrown
<1> QED
  BY <1>1, <1>2, <1>3, <1>4, <1>5, <1>6, <1>7, <1>8, <1>9, <1>10 DEF Next

\* For any programs, texts and errors: every refusal of the engine is raised, as a
\* busy_exception exactly for SQLITE_BUSY, also when an iterator or reset() meets it
\* (Exception.cpp, throw_error_code).
THEOREM RefusalsAreRaised == Spec => []FailureIsRaised
<1>1. Init => FailureIsRaised
  BY ParameterAssumption DEF Init, FailureIsRaised, Thrown
<1> QED
  BY <1>1, InitBase, NextBase, RaisedStep, PTL DEF Spec

LEMMA CountStep == ExecuteCountsItsRun /\ [Next]_vars => ExecuteCountsItsRun'
<1> SUFFICES ASSUME ExecuteCountsItsRun, [Next]_vars,
                    ret'.op \in {"execute", "execute_text"}, ret'.kind = "dml", ret'.rc = "DONE"
             PROVE  ret'.n = ret'.own
  BY DEF ExecuteCountsItsRun
<1>1. ASSUME NEW op, NEW s, NEW h, NEW done, NEW r \in step(h, done), Executed(op, s, h, r)
      PROVE  ret'.n = ret'.own
  <2>1. /\ ret'.rc = r.rc /\ ret'.own = r.own
        /\ ret'.n = IF executed(h, r) = "returned" THEN sqlite3_changes(r) ELSE 0
        /\ ret'.kind = IF h = NULL THEN "none" ELSE h.sql.kind
    BY <1>1 DEF Executed
  <2>2. h # NULL /\ h.sql.kind = "dml" /\ r.rc = "DONE"
    BY <2>1
  <2>3. "DONE" \notin Refusal
    BY ParameterAssumption DEF Refusal
  <2>4. r.changes = r.own /\ r.out = "false"
    BY <2>2, <2>3, StepSays
  <2>5. executed(h, r) = "returned"
    BY <2>2, <2>4 DEF executed, Raised, Thrown, Dead
  <2> QED
    BY <2>1, <2>4, <2>5 DEF sqlite3_changes
<1>2. CASE \E s \in Object : Execute(s)
  BY <1>1, <1>2 DEF Execute
<1>3. CASE ExecuteText
  <2>1. PICK q \in Sql : \E k \in 0..MaxValues : \E rc \in sqlite3_prepare(q) :
                Ran(q, k, rc)
    BY <1>3 DEF ExecuteText, Ran
  <2>2. PICK k \in 0..MaxValues : \E rc \in sqlite3_prepare(q) : Ran(q, k, rc)
    BY <2>1
  <2>3. PICK rc \in sqlite3_prepare(q) : Ran(q, k, rc)
    BY <2>2
  <2>4. CASE ret'.kind = "none"
    BY <2>4
  <2>5. CASE \E r \in step(compiled(q), FALSE) :
               Executed("execute_text", "none", compiled(q), r)
    BY <1>1, <2>5
  <2>6. (\E first : Returned("execute_text", "none", throw_error_code(first), first))
          => ret'.kind = "none"
    BY DEF Returned
  <2> QED
    BY <2>3, <2>4, <2>5, <2>6 DEF Ran
<1>4. ASSUME NEW s \in Object, \/ Prepare(s) \/ Step(s) \/ Bind(s) \/ ClearBindings(s)
                               \/ Reset(s) \/ Destroy(s) \/ IterBegin(s) \/ IterNext(s)
                               \/ IterPastEnd(s)
      PROVE  FALSE
  <2>1. ret'.kind = "none"
    <3>1. CASE Prepare(s)
      BY <3>1 DEF Prepare, internal_prepare, Returned
    <3>2. CASE Step(s) \/ IterBegin(s) \/ IterNext(s) \/ IterPastEnd(s)
      BY <3>2 DEF Step, IterBegin, IterNext, IterPastEnd, row_iterator_step, Returned
    <3>3. CASE Bind(s) \/ ClearBindings(s)
      BY <3>3 DEF Bind, ClearBindings, Returned
    <3>4. CASE Reset(s) \/ Destroy(s)
      BY <3>4 DEF Reset, Destroy, Returned
    <3> QED
      BY <1>4, <3>1, <3>2, <3>3, <3>4
  <2> QED
    BY <2>1
<1>5. ASSUME ExecuteCallback PROVE FALSE
  BY <1>5 DEF ExecuteCallback, Returned
<1>6. CASE UNCHANGED vars
  BY <1>6 DEF vars, ExecuteCountsItsRun
<1> QED
  BY <1>2, <1>3, <1>4, <1>5, <1>6 DEF Next

\* The number that execute() returns is that of the rows its own run has modified,
\* whatever else the connection has done before (Statement.cpp, execute).
THEOREM ChangesAreOwn == Spec => []ExecuteCountsItsRun
<1>1. Init => ExecuteCountsItsRun
  BY DEF Init, ExecuteCountsItsRun
<1> QED
  BY <1>1, CountStep, PTL DEF Spec

=============================================================================
