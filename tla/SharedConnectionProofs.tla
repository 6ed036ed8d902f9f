----------------------- MODULE SharedConnectionProofs -----------------------
(***************************************************************************)
(* Proofs about SharedConnection, for any set of threads, any subset of    *)
(* guarded ones and any bounds.                                            *)
(***************************************************************************)
EXTENDS SharedConnection, TLAPS

----------------------------------------------------------------------------
(* Types.                                                                  *)

LEMMA InitType == Init => TypeOK
  BY ThreadAssumption DEF Init, TypeOK, Nothing, Code, Text, Class, Where

\* The end of a call keeps the types of what it assigns.
LEMMA EndExecuteType ==
  ASSUME TypeOK, NEW t \in Thread, NEW o \in Class, EndExecute(t, o)
  PROVE  /\ pc' \in [Thread -> Where]
         /\ tx' \in [Thread -> {"none", "open", "commited", "leaving"}]
         /\ ins' \in [Thread -> Nat]
         /\ acked' \in [Thread -> Nat]
         /\ base' \in [Thread -> Nat]
  BY DEF EndExecute, TypeOK, after_begin, after_insert, after_commit, after_rollback,
         unwinds, Where, Text

LEMMA NextType == TypeOK /\ [Next]_vars => TypeOK'
<1> SUFFICES ASSUME TypeOK, [Next]_vars PROVE TypeOK'
  OBVIOUS
<1>1. ASSUME NEW t \in Thread, Lock(t) PROVE TypeOK'
  BY <1>1, ThreadAssumption
     DEF Lock, TypeOK, dataVars, callVars, scopeVars
<1>2. ASSUME NEW t \in Thread, Unlock(t) PROVE TypeOK'
  <2>1. depth \in Nat \ {0}
    BY <1>2, ThreadAssumption DEF Unlock, TypeOK
  <2> QED
    BY <1>2, <2>1, ThreadAssumption
       DEF Unlock, owner_after_unlock, TypeOK, dataVars, callVars, scopeVars
<1>3. ASSUME NEW t \in Thread, Call(t) PROVE TypeOK'
  <2>1. next_text(t) \subseteq Text
    BY DEF next_text, TypeOK, Text
  <2> QED
    BY <1>3, <2>1, ThreadAssumption
       DEF Call, TypeOK, connVars, dataVars, scopeVars, Where, Code, Class
<1>4. ASSUME NEW t \in Thread, EndScope(t) PROVE TypeOK'
  BY <1>4 DEF EndScope, TypeOK, connVars, dataVars, callVars
<1>5. ASSUME NEW t \in Thread, Prepare(t) PROVE TypeOK'
  BY <1>5 DEF Prepare, sqlite3_prepare, TypeOK, connVars, dataVars, scopeVars, Where, Code
<1>6. ASSUME NEW t \in Thread, ReadPrepareError(t) PROVE TypeOK'
  <2> DEFINE e == IF silent(err) THEN "NOMEM" ELSE err
  <2>1. e \in Code /\ class_of(e) \in Class
    BY DEF TypeOK, class_of, Class, Code
  <2>2. EndExecute(t, class_of(e))
    BY <1>6 DEF ReadPrepareError
  <2> QED
    BY <1>6, <2>1, <2>2, EndExecuteType DEF ReadPrepareError, TypeOK, connVars, dataVars
<1>7. ASSUME NEW t \in Thread, Step(t) PROVE TypeOK'
  <2>1. /\ txn' \in Thread \cup {NoThread}
        /\ pend' \in [Thread -> Nat]
        /\ committed' \in [Thread -> Nat]
        /\ changes' \in Thread \cup {NoThread}
    BY <1>7 DEF Step, begin_step, insert_step, commit_step, rollback_step, Unchanged,
                Discard, Nothing, TypeOK
  <2>2. PICK r \in Code :
          /\ err' = r
          /\ rc' = [rc EXCEPT ![t] = r]
          /\ pc' = [pc EXCEPT ![t] = IF r = "DONE" THEN "changes" ELSE "errcode"]
    BY <1>7 DEF Step
  <2>3. UNCHANGED <<connVars, op, out, code, n, scopeVars, calls>>
    BY <1>7 DEF Step
  <2> QED
    BY <2>1, <2>2, <2>3 DEF TypeOK, connVars, scopeVars, Where
<1>8. ASSUME NEW t \in Thread, ReadError(t) PROVE TypeOK'
  BY <1>8 DEF ReadError, class_of, TypeOK, connVars, dataVars, scopeVars, Where, Class
<1>9. ASSUME NEW t \in Thread, Construct(t) PROVE TypeOK'
  BY <1>9 DEF Construct, TypeOK, connVars, dataVars, scopeVars, Where
<1>10. ASSUME NEW t \in Thread, ReadChanges(t) PROVE TypeOK'
  BY <1>10 DEF ReadChanges, TypeOK, connVars, dataVars, scopeVars, Where, Class
<1>11. ASSUME NEW t \in Thread, Finalize(t) PROVE TypeOK'
  <2>1. out[t] \in Class /\ EndExecute(t, out[t])
    BY <1>11 DEF Finalize, TypeOK
  <2> QED
    BY <1>11, <2>1, EndExecuteType DEF Finalize, TypeOK, connVars, dataVars, Code
<1>12. CASE UNCHANGED vars
  BY <1>12 DEF vars, TypeOK
<1> QED
  BY <1>1, <1>2, <1>3, <1>4, <1>5, <1>6, <1>7, <1>8, <1>9, <1>10, <1>11, <1>12
     DEF Next, Do, Continue

\* The variables keep their types, and the mutex is free exactly when nobody has
\* entered it: unlock() never releases it early or keeps it too long.
THEOREM TypeCorrect == Spec => []TypeOK
  BY InitType, NextType, PTL DEF Spec

----------------------------------------------------------------------------
(***************************************************************************)
(* The inductive invariant.  Holds: a guarded thread has the mutex from    *)
(* its first call to the end of its transaction object; this is what makes *)
(* err and changes, which every thread writes, its own.  Outcome: between  *)
(* two API calls, what they hold is the answer to the thread's last call.  *)
(***************************************************************************)
Active(t) == pc[t] # "idle" \/ tx[t] # "none"

Holds(t) == Active(t) => owner = t

Failed(t) == err = rc[t] /\ ~silent(rc[t])

Faithful(t) == IF rc[t] = "DONE"
               THEN out[t] = "returned" /\ (op[t] = "INSERT" => n[t] = t)
               ELSE out[t] = class_of(rc[t]) /\ code[t] = rc[t]

Outcome(t) ==
  /\ pc[t] \in {"prepare_error", "errcode", "construct"} => Failed(t)
  /\ pc[t] = "construct" => out[t] = class_of(rc[t])
  /\ pc[t] = "changes" => rc[t] = "DONE" /\ (op[t] = "INSERT" => changes = t)
  /\ pc[t] = "finalize" => Faithful(t)
  /\ pc[t] \in {"prepare", "step"} => out[t] = "none"
  /\ pc[t] = "idle" /\ out[t] # "none" => Faithful(t)

CallInv == \A t \in Guarded : Holds(t) /\ Outcome(t)

(***************************************************************************)
(* Scope relates a guarded thread's transaction object to the engine's     *)
(* transaction: Stepped is the time between the engine's answer to the     *)
(* last sqlite3_step and the end of the call, when the two differ.         *)
(***************************************************************************)
Stepped(t) == pc[t] \in {"errcode", "construct", "changes", "finalize"}
Done(t, c) == Stepped(t) /\ op[t] = c /\ rc[t] = "DONE"
InScope(t) == tx[t] \in {"open", "leaving"}

Scope(t) ==
  /\ pc[t] # "idle" => op[t] \in next_text(t)
  /\ txn = t => /\ \A u \in Thread \ {t} : pend[u] = 0
                /\ \/ Done(t, "BEGIN")
                   \/ /\ InScope(t)
                      /\ ~Done(t, "COMMIT")
                      /\ ~(Stepped(t) /\ op[t] = "ROLLBACK")
  /\ Done(t, "BEGIN") => txn = t
  /\ pc[t] = "prepare_error" => op[t] = "INSERT"

\* Between transactions no row is pending.
Clean == txn = NoThread => \A u \in Thread : pend[u] = 0

ScopeInv == Clean /\ \A t \in Guarded : Scope(t)

\* With LeaveOnError: an object that can still insert has its transaction.
Open(t) ==
  /\ tx[t] = "open" => \/ txn = t
                       \/ Done(t, "COMMIT")
                       \/ Stepped(t) /\ op[t] = "ROLLBACK"
                       \/ Stepped(t) /\ rc[t] = "FULL"
  /\ InScope(t) /\ ~Done(t, "COMMIT") => committed[t] = base[t]

OpenInv == \A t \in Guarded : Open(t)

\* When all are guarded: what is acknowledged is in the database, what the open
\* object has been told of is in its transaction.
Durable(t) ==
  /\ acked[t] <= committed[t]
  /\ txn = t => \/ Done(t, "BEGIN")
                \/ ins[t] + (IF Done(t, "INSERT") THEN 1 ELSE 0) <= pend[t]
  /\ Done(t, "COMMIT") => tx[t] = "open" /\ acked[t] + ins[t] <= committed[t]
  /\ Done(t, "INSERT") /\ tx[t] # "open" => acked[t] + 1 <= committed[t]

DurableInv == \A t \in Thread : Durable(t)

----------------------------------------------------------------------------
(* What the step of another thread cannot touch.                           *)

\* Everything that belongs to t alone.
OwnUnchanged(t) ==
  /\ pc'[t] = pc[t] /\ op'[t] = op[t] /\ rc'[t] = rc[t] /\ out'[t] = out[t]
  /\ code'[t] = code[t] /\ n'[t] = n[t] /\ tx'[t] = tx[t]
  /\ ins'[t] = ins[t] /\ acked'[t] = acked[t] /\ base'[t] = base[t]

LEMMA EndExecuteFrame ==
  ASSUME TypeOK, NEW t \in Thread, NEW u \in Thread, u # t, NEW o \in Class,
         EndExecute(u, o)
  PROVE  /\ pc'[t] = pc[t] /\ tx'[t] = tx[t] /\ ins'[t] = ins[t]
         /\ acked'[t] = acked[t] /\ base'[t] = base[t]
  BY DEF EndExecute, TypeOK

LEMMA OwnFrame ==
  ASSUME TypeOK, NEW t \in Thread, NEW u \in Thread, u # t, Do(u)
  PROVE  OwnUnchanged(t)
<1>1. CASE Lock(u) \/ Unlock(u)
  BY <1>1 DEF Lock, Unlock, callVars, scopeVars, OwnUnchanged
<1>2. CASE Call(u)
  BY <1>2 DEF Call, scopeVars, OwnUnchanged, TypeOK
<1>3. CASE EndScope(u)
  BY <1>3 DEF EndScope, callVars, OwnUnchanged, TypeOK
<1>4. CASE Prepare(u)
  BY <1>4 DEF Prepare, scopeVars, OwnUnchanged, TypeOK
<1>5. CASE ReadPrepareError(u)
  <2>1. PICK o \in Class : EndExecute(u, o)
    BY <1>5 DEF ReadPrepareError, class_of, Class
  <2> QED
    BY <1>5, <2>1, EndExecuteFrame DEF ReadPrepareError, OwnUnchanged, TypeOK
<1>6. CASE Step(u)
  BY <1>6 DEF Step, scopeVars, OwnUnchanged, TypeOK
<1>7. CASE ReadError(u)
  BY <1>7 DEF ReadError, scopeVars, OwnUnchanged, TypeOK
<1>8. CASE Construct(u) \/ ReadChanges(u)
  BY <1>8 DEF Construct, ReadChanges, scopeVars, OwnUnchanged, TypeOK
<1>9. CASE Finalize(u)
  <2>1. out[u] \in Class /\ EndExecute(u, out[u])
    BY <1>9 DEF Finalize, TypeOK
  <2> QED
    BY <1>9, <2>1, EndExecuteFrame DEF Finalize, OwnUnchanged
<1> QED
  BY <1>1, <1>2, <1>3, <1>4, <1>5, <1>6, <1>7, <1>8, <1>9 DEF Do, Continue

\* While t holds the mutex the others cannot change the connection.
ConnectionUnchanged == UNCHANGED <<owner, err, changes, txn, pend, committed>>

LEMMA HeldFrame ==
  ASSUME TypeOK, NEW t \in Thread, NEW u \in Thread, u # t, Do(u), owner = t
  PROVE  ConnectionUnchanged
<1> t # NoThread
  BY ThreadAssumption
<1>1. ~Lock(u) /\ ~Unlock(u) /\ ~Prepare(u) /\ ~Step(u) /\ ~Finalize(u)
  BY DEF Lock, Unlock, Prepare, Step, Finalize, enters
<1>2. CASE Call(u) \/ EndScope(u)
  BY <1>2 DEF Call, EndScope, connVars, dataVars, ConnectionUnchanged
<1>3. CASE ReadPrepareError(u) \/ ReadError(u) \/ Construct(u) \/ ReadChanges(u)
  BY <1>3 DEF ReadPrepareError, ReadError, Construct, ReadChanges, connVars, dataVars,
              ConnectionUnchanged
<1> QED
  BY <1>1, <1>2, <1>3 DEF Do, Continue

\* Nobody opens a transaction in the name of another thread.
LEMMA OthersTransaction ==
  ASSUME TypeOK, NEW t \in Thread, NEW u \in Thread, u # t, Do(u), txn # t
  PROVE  txn' # t
<1> t # NoThread
  BY ThreadAssumption
<1>1. CASE Step(u)
  BY <1>1 DEF Step, begin_step, insert_step, commit_step, rollback_step, Unchanged, Discard
<1>2. CASE ~Step(u)
  BY <1>2 DEF Do, Continue, Lock, Unlock, Call, EndScope, Prepare, ReadPrepareError,
              ReadError, Construct, ReadChanges, Finalize, dataVars
<1> QED
  BY <1>1, <1>2

----------------------------------------------------------------------------
(* A guarded thread gets its own outcome.                                  *)

LEMMA InitCall == Init => CallInv
  BY ThreadAssumption DEF Init, CallInv, Holds, Active, Outcome

\* The end of a call of t with outcome o.
LEMMA EndExecuteCall ==
  ASSUME TypeOK, NEW t \in Thread, NEW o \in Class, EndExecute(t, o)
  PROVE  pc'[t] = "idle"
  BY DEF EndExecute, TypeOK

LEMMA OwnCall ==
  ASSUME TypeOK, NEW t \in Guarded, Holds(t), Outcome(t), Do(t)
  PROVE  Holds(t)' /\ Outcome(t)'
<1> t \in Thread /\ t # NoThread
  BY ThreadAssumption
<1>1. CASE Lock(t)
  BY <1>1 DEF Lock, Holds, Active, Outcome, Failed, Faithful, callVars, scopeVars, TypeOK
<1>2. CASE Unlock(t)
  <2>1. tx[t] = "none" \/ owner' = t
    BY <1>2 DEF Unlock, scope_ended, owner_after_unlock, TypeOK
  <2> QED
    BY <1>2, <2>1 DEF Unlock, Holds, Active, Outcome, Faithful, callVars, scopeVars
<1>3. CASE Call(t)
  BY <1>3 DEF Call, Holds, Outcome, connVars, TypeOK
<1>4. CASE EndScope(t)
  BY <1>4 DEF EndScope, Holds, Active, Outcome, Faithful, connVars, callVars, TypeOK
<1>5. CASE Prepare(t)
  <2>1. owner' = t
    BY <1>5 DEF Prepare, Holds, Active, connVars
  <2>2. PICK r \in sqlite3_prepare(op[t]) :
          /\ err' = r
          /\ rc' = [rc EXCEPT ![t] = r]
          /\ pc' = [pc EXCEPT ![t] = IF r = "OK" THEN "step" ELSE "prepare_error"]
    BY <1>5 DEF Prepare
  <2>3. r = "OK" \/ ~silent(r)
    BY DEF sqlite3_prepare, silent
  <2>4. out'[t] = "none"
    BY <1>5 DEF Prepare, Outcome
  <2> QED
    BY <2>1, <2>2, <2>3, <2>4 DEF Holds, Outcome, Failed, TypeOK
<1>6. CASE ReadPrepareError(t)
  <2>1. Failed(t) /\ owner' = t
    BY <1>6 DEF ReadPrepareError, Holds, Active, Outcome, connVars
  <2>2. out'[t] = class_of(rc[t]) /\ code'[t] = rc[t] /\ rc'[t] = rc[t]
    BY <1>6, <2>1 DEF ReadPrepareError, Failed, TypeOK
  <2>3. pc'[t] = "idle"
    BY <1>6, EndExecuteCall DEF ReadPrepareError, class_of, Class
  <2>4. rc[t] # "DONE"
    BY <2>1 DEF Failed, silent
  <2> QED
    BY <2>1, <2>2, <2>3, <2>4 DEF Holds, Outcome, Faithful, class_of
<1>7. CASE Step(t)
  <2>1. owner' = t
    BY <1>7 DEF Step, Holds, Active, connVars
  <2>2. PICK r \in Code :
          /\ \/ op[t] = "BEGIN"    /\ begin_step(t, r)
             \/ op[t] = "INSERT"   /\ insert_step(t, r)
             \/ op[t] = "COMMIT"   /\ commit_step(t, r)
             \/ op[t] = "ROLLBACK" /\ rollback_step(t, r)
          /\ err' = r
          /\ rc' = [rc EXCEPT ![t] = r]
          /\ pc' = [pc EXCEPT ![t] = IF r = "DONE" THEN "changes" ELSE "errcode"]
    BY <1>7 DEF Step
  <2>3. r = "DONE" \/ ~silent(r)
    BY <2>2 DEF begin_step, insert_step, commit_step, rollback_step, silent
  <2>4. r = "DONE" /\ op[t] = "INSERT" => changes' = t
    BY <2>2 DEF insert_step
  <2>5. op'[t] = op[t]
    BY <1>7 DEF Step
  <2> QED
    BY <2>1, <2>2, <2>3, <2>4, <2>5 DEF Holds, Outcome, Failed, TypeOK
<1>8. CASE ReadError(t)
  BY <1>8 DEF ReadError, Holds, Active, Outcome, Failed, connVars, TypeOK
<1>9. CASE Construct(t)
  <2>1. /\ out'[t] = class_of(rc[t]) /\ code'[t] = rc[t] /\ rc'[t] = rc[t]
        /\ rc[t] # "DONE" /\ pc'[t] = "finalize" /\ owner' = t
    BY <1>9 DEF Construct, Holds, Active, Outcome, Failed, silent, connVars, TypeOK
  <2> QED
    BY <2>1 DEF Holds, Outcome, Faithful
<1>10. CASE ReadChanges(t)
  <2>1. /\ out'[t] = "returned" /\ n'[t] = changes /\ rc'[t] = "DONE"
        /\ op'[t] = op[t] /\ pc'[t] = "finalize" /\ owner' = t
        /\ op[t] = "INSERT" => changes = t
    BY <1>10 DEF ReadChanges, Holds, Active, Outcome, connVars, TypeOK
  <2> QED
    BY <2>1 DEF Holds, Outcome, Faithful
<1>11. CASE Finalize(t)
  <2>1. pc'[t] = "idle" /\ owner' = t /\ Faithful(t)
    BY <1>11, EndExecuteCall DEF Finalize, Holds, Active, Outcome, connVars, TypeOK
  <2>2. UNCHANGED <<op, rc, out, code, n>>
    BY <1>11 DEF Finalize
  <2> QED
    BY <2>1, <2>2 DEF Holds, Outcome, Faithful
<1> QED
  BY <1>1, <1>2, <1>3, <1>4, <1>5, <1>6, <1>7, <1>8, <1>9, <1>10, <1>11 DEF Do, Continue

LEMMA NextCall == TypeOK /\ CallInv /\ [Next]_vars => CallInv'
<1> SUFFICES ASSUME TypeOK, CallInv, [Next]_vars, NEW t \in Guarded
             PROVE  Holds(t)' /\ Outcome(t)'
  BY DEF CallInv
<1> t \in Thread
  BY ThreadAssumption
<1>1. Holds(t) /\ Outcome(t)
  BY DEF CallInv
<1>2. CASE Do(t)
  BY <1>1, <1>2, OwnCall
<1>3. ASSUME NEW u \in Thread, u # t, Do(u) PROVE Holds(t)' /\ Outcome(t)'
  <2>1. OwnUnchanged(t)
    BY <1>3, OwnFrame
  <2>2. CASE Active(t)
    <3>1. ConnectionUnchanged /\ owner = t
      BY <1>1, <1>3, <2>2, HeldFrame DEF Holds
    <3> QED
      BY <1>1, <2>1, <3>1
         DEF OwnUnchanged, ConnectionUnchanged, Holds, Outcome, Failed, Faithful
  <2>3. CASE ~Active(t)
    BY <1>1, <2>1, <2>3 DEF OwnUnchanged, Holds, Active, Outcome, Faithful
  <2> QED
    BY <2>2, <2>3
<1>4. CASE UNCHANGED vars
  BY <1>1, <1>4 DEF vars, Holds, Active, Outcome, Failed, Faithful
<1> QED
  BY <1>2, <1>3, <1>4 DEF Next

LEMMA CallInvImplies == TypeOK /\ CallInv => OutcomeIsMine
  BY DEF CallInv, Outcome, Faithful, OutcomeIsMine, Ended, class_of

\* Holding the mutex is enough: whatever the unguarded threads do in between, a
\* guarded thread's calls return and throw what the engine answered to them.
THEOREM OutcomesAreOwn == Spec => []OutcomeIsMine
<1>1. Spec => [](TypeOK /\ CallInv)
  BY InitType, NextType, InitCall, NextCall, PTL DEF Spec
<1> QED
  BY <1>1, CallInvImplies, PTL

\* Each step of a call takes it nearer to its end.
LEMMA CallsAdvance ==
  ASSUME TypeOK, NEW t \in Thread, pc[t] # "idle", Do(t)
  PROVE  Left[pc'[t]] < Left[pc[t]]
<1>1. Continue(t)
  BY DEF Do, Lock, Unlock, Call, EndScope
<1>2. CASE Prepare(t)
  BY <1>2 DEF Prepare, TypeOK, Left, Where
<1>3. CASE ReadPrepareError(t)
  <2>1. pc'[t] = "idle" /\ pc[t] = "prepare_error"
    BY <1>3, EndExecuteCall DEF ReadPrepareError, class_of, Class
  <2> QED
    BY <2>1 DEF Left, Where
<1>4. CASE Step(t)
  BY <1>4 DEF Step, TypeOK, Left, Where
<1>5. CASE ReadError(t)
  BY <1>5 DEF ReadError, TypeOK, Left, Where
<1>6. CASE Construct(t) \/ ReadChanges(t)
  BY <1>6 DEF Construct, ReadChanges, TypeOK, Left, Where
<1>7. CASE Finalize(t)
  <2>1. pc'[t] = "idle" /\ pc[t] = "finalize"
    BY <1>7, EndExecuteCall DEF Finalize, TypeOK
  <2> QED
    BY <2>1 DEF Left, Where
<1> QED
  BY <1>1, <1>2, <1>3, <1>4, <1>5, <1>6, <1>7 DEF Continue

\* Whatever the unguarded threads do, a guarded thread's call is never kept out of the
\* mutex and is over after at most five of its own steps (Mutex.cpp; Statement.cpp,
\* execute).
THEOREM GuardedCallsAreNotBlocked == Spec => GuardedCallsAdvance
<1>1. TypeOK /\ CallInv /\ TypeOK' /\ CallInv' /\ [Next]_vars
        => [\A t \in Guarded : pc[t] # "idle" =>
              /\ enters(t) /\ (pc'[t] # "idle" => enters(t)')
              /\ IF Do(t) THEN Left[pc'[t]] < Left[pc[t]] ELSE pc'[t] = pc[t]]_vars
  <2> SUFFICES ASSUME TypeOK, CallInv, CallInv', Next, NEW t \in Guarded, pc[t] # "idle"
               PROVE  /\ enters(t) /\ (pc'[t] # "idle" => enters(t)')
                      /\ IF Do(t) THEN Left[pc'[t]] < Left[pc[t]] ELSE pc'[t] = pc[t]
    OBVIOUS
  <2> t \in Thread
    BY ThreadAssumption
  <2>1. enters(t)
    BY DEF CallInv, Holds, Active, enters
  <2>2. pc'[t] # "idle" => enters(t)'
    BY DEF CallInv, Holds, Active, enters
  <2>3. CASE Do(t)
    BY <2>1, <2>2, <2>3, CallsAdvance
  <2>4. CASE ~Do(t)
    <3>1. PICK u \in Thread : u # t /\ Do(u)
      BY <2>4 DEF Next
    <3> QED
      BY <2>1, <2>2, <2>4, <3>1, OwnFrame DEF OwnUnchanged
  <2> QED
    BY <2>3, <2>4
<1>2. Spec => [](TypeOK /\ CallInv)
  BY InitType, NextType, InitCall, NextCall, PTL DEF Spec
<1> QED
  BY <1>1, <1>2, PTL DEF Spec, GuardedCallsAdvance

----------------------------------------------------------------------------
(* The transaction object of a guarded thread and the engine's transaction *)
(* begin and end together, if allocations do not fail: a ROLLBACK that     *)
(* cannot be prepared leaves the transaction open.                         *)

LEMMA InitScope == Init => ScopeInv
  BY ThreadAssumption DEF Init, ScopeInv, Clean, Scope, Stepped, Done, Nothing

\* What the engine's transaction becomes when t asks for a step.
LEMMA StepFacts ==
  ASSUME NEW t \in Thread, Step(t)
  PROVE  \E r \in Code :
           /\ \/ op[t] = "BEGIN"    /\ begin_step(t, r)
              \/ op[t] = "INSERT"   /\ insert_step(t, r)
              \/ op[t] = "COMMIT"   /\ commit_step(t, r)
              \/ op[t] = "ROLLBACK" /\ rollback_step(t, r)
           /\ rc' = [rc EXCEPT ![t] = r]
           /\ pc' = [pc EXCEPT ![t] = IF r = "DONE" THEN "changes" ELSE "errcode"]
  BY DEF Step

\* Only Step touches the transaction and the rows.
LEMMA DataFrame ==
  ASSUME NEW t \in Thread, Do(t), ~Step(t)
  PROVE  UNCHANGED <<txn, pend, committed>>
  BY DEF Do, Continue, Lock, Unlock, Call, EndScope, Prepare, ReadPrepareError,
         ReadError, Construct, ReadChanges, Finalize, dataVars

LEMMA NextClean ==
  ASSUME TypeOK, Clean, NEW t \in Thread, Do(t)
  PROVE  Clean'
<1>1. CASE Step(t)
  <2> t # NoThread
    BY ThreadAssumption
  <2>1. txn' = NoThread => \A u \in Thread : pend'[u] = 0
    BY <1>1, StepFacts
       DEF begin_step, insert_step, commit_step, rollback_step, Unchanged, Discard,
           Autocommit, Nothing, Clean, TypeOK
  <2> QED
    BY <2>1 DEF Clean
<1>2. CASE ~Step(t)
  BY <1>2, DataFrame DEF Clean
<1> QED
  BY <1>1, <1>2

LEMMA OwnScope ==
  ASSUME NoMemory = FALSE, TypeOK, Clean, NEW t \in Guarded, Holds(t), Outcome(t),
         Scope(t), Do(t)
  PROVE  Scope(t)'
<1> t \in Thread /\ t # NoThread
  BY ThreadAssumption
<1>1. CASE Lock(t) \/ Unlock(t)
  BY <1>1 DEF Lock, Unlock, Scope, Stepped, Done, InScope, next_text, dataVars, callVars,
              scopeVars
<1>2. CASE Call(t)
  <2>1. /\ op'[t] \in next_text(t) /\ pc[t] = "idle" /\ pc'[t] = "prepare"
        /\ UNCHANGED <<txn, pend, tx>>
    BY <1>2 DEF Call, dataVars, scopeVars, TypeOK
  <2> QED
    BY <2>1 DEF Scope, Stepped, Done, InScope, next_text
<1>3. CASE EndScope(t)
  BY <1>3 DEF EndScope, Scope, Stepped, Done, InScope, dataVars, callVars, TypeOK
<1>4. CASE Prepare(t)
  <2>1. PICK r \in sqlite3_prepare(op[t]) :
          pc' = [pc EXCEPT ![t] = IF r = "OK" THEN "step" ELSE "prepare_error"]
    BY <1>4 DEF Prepare
  <2>2. r # "OK" => op[t] = "INSERT"
    BY DEF sqlite3_prepare
  <2>3. /\ pc[t] = "prepare" /\ pc'[t] \in {"step", "prepare_error"}
        /\ pc'[t] = "prepare_error" => op[t] = "INSERT"
        /\ UNCHANGED <<txn, pend, tx, op>>
    BY <1>4, <2>1, <2>2 DEF Prepare, dataVars, scopeVars, TypeOK
  <2> QED
    BY <2>3 DEF Scope, Stepped, Done, InScope, next_text
<1>5. CASE ReadPrepareError(t)
  <2>1. PICK o \in {"exception", "busy_exception"} : EndExecute(t, o)
    BY <1>5 DEF ReadPrepareError, class_of
  <2>2. /\ op[t] = "INSERT" /\ pc[t] = "prepare_error"
        /\ UNCHANGED <<txn, pend>>
    BY <1>5 DEF ReadPrepareError, Scope, dataVars
  <2>3. pc'[t] = "idle"
    BY <2>1, EndExecuteCall DEF Class
  <2>4. tx'[t] = after_insert(t, o)
    BY <2>1, <2>2 DEF EndExecute, TypeOK
  <2>5. tx'[t] = tx[t] \/ (tx[t] = "open" /\ tx'[t] = "leaving")
    BY <2>4 DEF after_insert, unwinds
  <2> QED
    BY <2>2, <2>3, <2>5 DEF Scope, Stepped, Done, InScope
<1>6. CASE Step(t)
  <2>1. PICK r \in Code :
          /\ \/ op[t] = "BEGIN"    /\ begin_step(t, r)
             \/ op[t] = "INSERT"   /\ insert_step(t, r)
             \/ op[t] = "COMMIT"   /\ commit_step(t, r)
             \/ op[t] = "ROLLBACK" /\ rollback_step(t, r)
          /\ rc' = [rc EXCEPT ![t] = r]
          /\ pc' = [pc EXCEPT ![t] = IF r = "DONE" THEN "changes" ELSE "errcode"]
    BY <1>6, StepFacts
  <2>2. /\ pc[t] = "step" /\ pc'[t] \in {"changes", "errcode"} /\ rc'[t] = r
        /\ op' = op /\ tx' = tx
    BY <1>6, <2>1 DEF Step, scopeVars, TypeOK
  <2>3. op[t] \in next_text(t) /\ (txn = t => InScope(t) /\ \A u \in Thread \ {t} : pend[u] = 0)
    BY <2>2 DEF Scope, Stepped, Done
  <2>4. CASE op[t] = "BEGIN" /\ begin_step(t, r)
    <3>1. tx[t] = "none" /\ txn # t
      BY <2>3, <2>4 DEF next_text, InScope, TypeOK
    <3>2. \/ r = "DONE" /\ txn' = t /\ \A u \in Thread : pend'[u] = 0
          \/ r # "DONE" /\ txn' = txn
      BY <2>4 DEF begin_step, Unchanged, Autocommit, Clean
    <3> QED
      BY <2>2, <2>3, <2>4, <3>1, <3>2 DEF Scope, Stepped, Done, next_text
  <2>5. CASE op[t] = "INSERT" /\ insert_step(t, r)
    <3>1. /\ txn' = txn \/ txn' = NoThread
          /\ txn' = t => \A u \in Thread \ {t} : pend'[u] = 0
      BY <2>3, <2>5 DEF insert_step, Unchanged, Discard, Autocommit, TypeOK
    <3> QED
      BY <2>2, <2>3, <2>5, <3>1 DEF Scope, Stepped, Done, InScope, next_text
  <2>6. CASE op[t] = "COMMIT" /\ commit_step(t, r)
    <3>1. \/ txn' = NoThread
          \/ r # "DONE" /\ txn' = txn /\ pend' = pend
      BY <2>6 DEF commit_step, Unchanged, Discard
    <3> QED
      BY <2>2, <2>3, <2>6, <3>1 DEF Scope, Stepped, Done, InScope, next_text
  <2>7. CASE op[t] = "ROLLBACK" /\ rollback_step(t, r)
    <3>1. txn' = NoThread
      BY <2>7 DEF rollback_step, Unchanged, Discard, Autocommit
    <3> QED
      BY <2>2, <2>3, <2>7, <3>1 DEF Scope, Stepped, Done, InScope, next_text
  <2> QED
    BY <2>1, <2>4, <2>5, <2>6, <2>7
<1>7. CASE ReadError(t) \/ Construct(t) \/ ReadChanges(t)
  <2>1. Stepped(t) /\ Stepped(t)'
    BY <1>7 DEF ReadError, Construct, ReadChanges, Stepped, TypeOK
  <2>2. UNCHANGED <<op, rc, tx, txn, pend>>
    BY <1>7 DEF ReadError, Construct, ReadChanges, dataVars, scopeVars
  <2>3. pc[t] # "idle" /\ pc'[t] # "prepare_error"
    BY <2>1 DEF Stepped
  <2> QED
    BY <2>1, <2>2, <2>3 DEF Scope, Done, InScope, next_text
<1>8. CASE Finalize(t)
  <2>1. /\ EndExecute(t, out[t]) /\ Stepped(t) /\ Faithful(t) /\ out[t] \in Class
        /\ op[t] \in next_text(t) /\ UNCHANGED <<txn, pend>>
    BY <1>8 DEF Finalize, Outcome, Scope, Stepped, dataVars, TypeOK
  <2>2. pc'[t] = "idle"
    BY <2>1, EndExecuteCall
  <2>3. out[t] = "returned" <=> rc[t] = "DONE"
    BY <2>1 DEF Faithful, class_of
  <2>4. txn = t => tx'[t] \in {"open", "leaving"}
    <3> SUFFICES ASSUME txn = t PROVE tx'[t] \in {"open", "leaving"}
      OBVIOUS
    <3>1. CASE op[t] = "BEGIN"
      BY <2>1, <2>3, <3>1 DEF Scope, Done, InScope, EndExecute, after_begin, next_text, TypeOK
    <3>2. CASE op[t] = "INSERT"
      BY <2>1, <3>2 DEF Scope, Done, InScope, EndExecute, after_insert, unwinds, TypeOK
    <3>3. CASE op[t] = "COMMIT"
      BY <2>1, <2>3, <3>3 DEF Scope, Done, InScope, EndExecute, after_commit, unwinds, TypeOK
    <3>4. op[t] # "ROLLBACK"
      BY <2>1 DEF Scope, Done
    <3> QED
      BY <3>1, <3>2, <3>3, <3>4 DEF TypeOK, Text
  <2> QED
    BY <2>1, <2>2, <2>4 DEF Scope, Stepped, Done, InScope
<1> QED
  BY <1>1, <1>2, <1>3, <1>4, <1>5, <1>6, <1>7, <1>8 DEF Do, Continue

LEMMA NextScope ==
  ASSUME NoMemory = FALSE
  PROVE  TypeOK /\ CallInv /\ ScopeInv /\ [Next]_vars => ScopeInv'
<1> SUFFICES ASSUME TypeOK, CallInv, ScopeInv, [Next]_vars PROVE ScopeInv'
  OBVIOUS
<1>1. Clean'
  <2>1. CASE Next
    BY <2>1, NextClean DEF Next, ScopeInv
  <2>2. CASE UNCHANGED vars
    BY <2>2 DEF vars, ScopeInv, Clean
  <2> QED
    BY <2>1, <2>2
<1>2. ASSUME NEW t \in Guarded PROVE Scope(t)'
  <2> t \in Thread
    BY ThreadAssumption
  <2>1. Clean /\ Scope(t) /\ Holds(t) /\ Outcome(t)
    BY DEF ScopeInv, CallInv
  <2>2. CASE Do(t)
    BY <2>1, <2>2, OwnScope
  <2>3. ASSUME NEW u \in Thread, u # t, Do(u) PROVE Scope(t)'
    <3>1. OwnUnchanged(t)
      BY <2>3, OwnFrame
    <3>2. CASE Active(t)
      <4>1. ConnectionUnchanged
        BY <2>1, <2>3, <3>2, HeldFrame DEF Holds
      <4> QED
        BY <2>1, <3>1, <4>1
           DEF OwnUnchanged, ConnectionUnchanged, Scope, Stepped, Done, InScope, next_text
    <3>3. CASE ~Active(t)
      <4>1. txn # t
        BY <2>1, <3>3 DEF Active, Scope, Stepped, Done, InScope
      <4>2. txn' # t
        BY <2>3, <4>1, OthersTransaction
      <4> QED
        BY <3>1, <3>3, <4>2 DEF OwnUnchanged, Active, Scope, Stepped, Done
    <3> QED
      BY <3>2, <3>3
  <2>4. CASE UNCHANGED vars
    BY <2>1, <2>4 DEF vars, Scope, Stepped, Done, InScope, next_text
  <2> QED
    BY <2>2, <2>3, <2>4 DEF Next
<1> QED
  BY <1>1, <1>2 DEF ScopeInv

\* The three invariants together.
LEMMA ScopeInvariant == NoMemory = FALSE /\ Spec => [](TypeOK /\ CallInv /\ ScopeInv)
<1>1. CASE NoMemory = FALSE
  <2>1. TypeOK /\ CallInv /\ ScopeInv /\ [Next]_vars => ScopeInv'
    BY <1>1, NextScope
  <2> QED
    BY <2>1, InitType, NextType, InitCall, NextCall, InitScope, PTL DEF Spec
<1>2. CASE NoMemory # FALSE
  BY <1>2
<1> QED
  BY <1>1, <1>2

LEMMA ScopeInvImplies == TypeOK /\ ScopeInv => Isolation /\ ScopeEndsTransaction
  BY DEF ScopeInv, Scope, Isolation, ScopeEndsTransaction, Stepped, Done, InScope

\* The lock_guard around the transaction object keeps the rows of the others,
\* guarded or not, out of its transaction.
THEOREM TransactionsAreIsolated == NoMemory = FALSE /\ Spec => []Isolation
  BY ScopeInvariant, ScopeInvImplies, PTL

\* The destructor of the transaction object, or its commit(), always ends the
\* engine's transaction, when the engine never runs out of memory.
THEOREM ScopesEnd == NoMemory = FALSE /\ Spec => []ScopeEndsTransaction
  BY ScopeInvariant, ScopeInvImplies, PTL

----------------------------------------------------------------------------
(* Nothing is committed before commit().                                   *)

LEMMA InitOpen == Init => OpenInv
  BY ThreadAssumption DEF Init, OpenInv, Open, InScope

LEMMA OwnOpen ==
  ASSUME NoMemory = FALSE, LeaveOnError = TRUE, TypeOK, NEW t \in Guarded,
         Outcome(t), Scope(t), Open(t), Do(t)
  PROVE  Open(t)'
<1> t \in Thread /\ t # NoThread
  BY ThreadAssumption
<1>1. CASE Lock(t) \/ Unlock(t)
  BY <1>1 DEF Lock, Unlock, Open, Stepped, Done, InScope, dataVars, callVars, scopeVars
<1>2. CASE Call(t) \/ Prepare(t)
  <2>1. ~Stepped(t) /\ UNCHANGED <<txn, committed, tx, base>>
    BY <1>2 DEF Call, Prepare, Stepped, dataVars, scopeVars
  <2>2. pc'[t] \in {"prepare", "step", "prepare_error"}
    BY <1>2 DEF Call, Prepare, TypeOK
  <2> QED
    BY <2>1, <2>2 DEF Open, Stepped, Done, InScope
<1>3. CASE EndScope(t)
  BY <1>3 DEF EndScope, Open, InScope, TypeOK
<1>4. CASE ReadPrepareError(t)
  <2>1. PICK o \in {"exception", "busy_exception"} : EndExecute(t, o)
    BY <1>4 DEF ReadPrepareError, class_of
  <2>2. op[t] = "INSERT" /\ ~Stepped(t) /\ UNCHANGED <<txn, committed>>
    BY <1>4 DEF ReadPrepareError, Scope, Stepped, dataVars
  <2>3. pc'[t] = "idle"
    BY <2>1, EndExecuteCall DEF Class
  <2>4. tx'[t] = after_insert(t, o) /\ base'[t] = base[t]
    BY <2>1, <2>2 DEF EndExecute, TypeOK
  <2>5. tx'[t] = tx[t] \/ (tx[t] = "open" /\ tx'[t] = "leaving")
    BY <2>4 DEF after_insert, unwinds
  <2> QED
    BY <2>2, <2>3, <2>4, <2>5 DEF Open, Stepped, Done, InScope
<1>5. CASE Step(t)
  <2>1. PICK r \in Code :
          /\ \/ op[t] = "BEGIN"    /\ begin_step(t, r)
             \/ op[t] = "INSERT"   /\ insert_step(t, r)
             \/ op[t] = "COMMIT"   /\ commit_step(t, r)
             \/ op[t] = "ROLLBACK" /\ rollback_step(t, r)
          /\ rc' = [rc EXCEPT ![t] = r]
          /\ pc' = [pc EXCEPT ![t] = IF r = "DONE" THEN "changes" ELSE "errcode"]
    BY <1>5, StepFacts
  <2>2. /\ ~Stepped(t) /\ Stepped(t)' /\ rc'[t] = r
        /\ op[t] \in next_text(t)
        /\ UNCHANGED <<op, tx, base>>
    BY <1>5, <2>1 DEF Step, Stepped, Scope, scopeVars, TypeOK
  <2>3. /\ tx[t] = "open" => txn = t /\ ~Autocommit
        /\ InScope(t) => committed[t] = base[t]
    BY <2>2 DEF Open, Done, Autocommit
  <2>4. CASE op[t] = "BEGIN"
    BY <2>2, <2>4 DEF next_text, Open, InScope, TypeOK
  <2>5. CASE op[t] = "INSERT" /\ insert_step(t, r)
    <3>1. tx[t] # "leaving"
      BY <2>2, <2>5 DEF next_text
    <3>2. tx[t] = "open" => /\ committed' = committed
                            /\ txn' = txn \/ r = "FULL"
      BY <2>3, <2>5 DEF insert_step, Unchanged, Discard
    <3> QED
      BY <2>2, <2>3, <3>1, <3>2 DEF Open, InScope
  <2>6. CASE op[t] = "COMMIT" /\ commit_step(t, r)
    <3>1. tx[t] # "leaving"
      BY <2>2, <2>6 DEF next_text
    <3>2. tx[t] = "open" => \/ r = "DONE"
                            \/ committed' = committed /\ (txn' = txn \/ r = "FULL")
      BY <2>3, <2>6 DEF commit_step, Unchanged, Discard
    <3> QED
      BY <2>2, <2>3, <2>6, <3>1, <3>2 DEF Open, InScope, Done
  <2>7. CASE op[t] = "ROLLBACK" /\ rollback_step(t, r)
    <3>1. committed' = committed
      BY <2>7 DEF rollback_step, Unchanged, Discard
    <3> QED
      BY <2>2, <2>3, <2>7, <3>1 DEF Open, InScope
  <2> QED
    BY <2>1, <2>4, <2>5, <2>6, <2>7
<1>6. CASE ReadError(t) \/ Construct(t) \/ ReadChanges(t)
  <2>1. Stepped(t) /\ Stepped(t)'
    BY <1>6 DEF ReadError, Construct, ReadChanges, Stepped, TypeOK
  <2>2. UNCHANGED <<op, rc, tx, txn, committed, base>>
    BY <1>6 DEF ReadError, Construct, ReadChanges, dataVars, scopeVars
  <2> QED
    BY <2>1, <2>2 DEF Open, Done, InScope
<1>7. CASE Finalize(t)
  <2>1. /\ EndExecute(t, out[t]) /\ Stepped(t) /\ Faithful(t) /\ out[t] \in Class
        /\ op[t] \in next_text(t) /\ UNCHANGED <<txn, committed>>
    BY <1>7 DEF Finalize, Outcome, Scope, Stepped, dataVars, TypeOK
  <2>2. ~Stepped(t)'
    BY <2>1, EndExecuteCall DEF Stepped
  <2>3. /\ out[t] = "returned" <=> rc[t] = "DONE"
        /\ rc[t] = "FULL" => out[t] = "exception"
    BY <2>1 DEF Faithful, class_of
  <2>4. CASE op[t] = "BEGIN"
    <3>1. tx[t] = "none"
      BY <2>1, <2>4 DEF next_text, TypeOK
    <3>2. /\ tx'[t] = IF out[t] = "returned" THEN "open" ELSE "none"
          /\ base'[t] = IF out[t] = "returned" THEN committed[t] ELSE base[t]
      BY <2>1, <2>4, <3>1 DEF EndExecute, after_begin, TypeOK
    <3>3. out[t] = "returned" => txn = t
      BY <2>1, <2>3, <2>4 DEF Scope, Done
    <3> QED
      BY <2>1, <2>2, <3>2, <3>3 DEF Open, InScope, Done
  <2>5. CASE op[t] = "INSERT"
    <3>1. tx'[t] = after_insert(t, out[t]) /\ base'[t] = base[t]
      BY <2>1, <2>5 DEF EndExecute, TypeOK
    <3>2. \/ tx'[t] = "leaving" /\ tx[t] = "open"
          \/ tx'[t] = tx[t] /\ (tx[t] = "open" => rc[t] # "FULL")
      BY <2>3, <3>1 DEF after_insert, unwinds
    <3> QED
      BY <2>1, <2>2, <2>5, <3>1, <3>2 DEF Open, InScope, Done
  <2>6. CASE op[t] = "COMMIT"
    <3>1. tx'[t] = after_commit(t, out[t]) /\ base'[t] = base[t]
      BY <2>1, <2>6 DEF EndExecute, TypeOK
    <3>2. \/ tx'[t] = "commited"
          \/ /\ rc[t] # "DONE"
             /\ \/ tx'[t] = "leaving" /\ tx[t] = "open"
                \/ tx'[t] = tx[t] /\ (tx[t] = "open" => rc[t] # "FULL")
      BY <2>3, <3>1 DEF after_commit, unwinds
    <3> QED
      BY <2>1, <2>2, <2>6, <3>1, <3>2 DEF Open, InScope, Done
  <2>7. CASE op[t] = "ROLLBACK"
    BY <2>1, <2>7 DEF EndExecute, after_rollback, Open, InScope, TypeOK
  <2> QED
    BY <2>4, <2>5, <2>6, <2>7 DEF TypeOK, Text
<1> QED
  BY <1>1, <1>2, <1>3, <1>4, <1>5, <1>6, <1>7 DEF Do, Continue

LEMMA NextOpen ==
  ASSUME NoMemory = FALSE, LeaveOnError = TRUE
  PROVE  TypeOK /\ CallInv /\ ScopeInv /\ OpenInv /\ [Next]_vars => OpenInv'
<1> SUFFICES ASSUME TypeOK, CallInv, ScopeInv, OpenInv, [Next]_vars, NEW t \in Guarded
             PROVE  Open(t)'
  BY DEF OpenInv
<1> t \in Thread
  BY ThreadAssumption
<1>1. Open(t) /\ Scope(t) /\ Holds(t) /\ Outcome(t)
  BY DEF OpenInv, ScopeInv, CallInv
<1>2. CASE Do(t)
  BY <1>1, <1>2, OwnOpen
<1>3. ASSUME NEW u \in Thread, u # t, Do(u) PROVE Open(t)'
  <2>1. OwnUnchanged(t)
    BY <1>3, OwnFrame
  <2>2. CASE Active(t)
    <3>1. ConnectionUnchanged
      BY <1>1, <1>3, <2>2, HeldFrame DEF Holds
    <3> QED
      BY <1>1, <2>1, <3>1 DEF OwnUnchanged, ConnectionUnchanged, Open, Stepped, Done, InScope
  <2>3. CASE ~Active(t)
    BY <2>1, <2>3 DEF OwnUnchanged, Active, Open, InScope
  <2> QED
    BY <2>2, <2>3
<1>4. CASE UNCHANGED vars
  BY <1>1, <1>4 DEF vars, Open, Stepped, Done, InScope
<1> QED
  BY <1>2, <1>3, <1>4 DEF Next

LEMMA OpenInvImplies == OpenInv => NothingBeforeCommit
  BY DEF OpenInv, Open, NothingBeforeCommit, InScope, Done, Stepped

\* When an exception leaves the transaction's scope, as it does unless the program
\* catches it inside, leaving the scope without commit() leaves no row behind,
\* even after the engine has rolled back on its own.
THEOREM ScopesAreAtomic ==
  NoMemory = FALSE /\ LeaveOnError = TRUE /\ Spec => []NothingBeforeCommit
<1>1. CASE NoMemory = FALSE /\ LeaveOnError = TRUE
  <2>1. TypeOK /\ CallInv /\ ScopeInv /\ OpenInv /\ [Next]_vars => OpenInv'
    BY <1>1, NextOpen
  <2>2. NoMemory = FALSE
    BY <1>1
  <2> QED
    BY <2>1, <2>2, ScopeInvariant, InitOpen, OpenInvImplies, PTL DEF Spec
<1>2. CASE ~(NoMemory = FALSE /\ LeaveOnError = TRUE)
  BY <1>2
<1> QED
  BY <1>1, <1>2

----------------------------------------------------------------------------
(* When every thread is guarded, what is acknowledged is in the database.  *)

LEMMA InitDurable == Init => DurableInv
<1> SUFFICES ASSUME Init, NEW t \in Thread PROVE Durable(t)
  BY DEF DurableInv
<1>1. txn # t /\ ~Stepped(t) /\ acked[t] = 0 /\ committed[t] = 0
  BY ThreadAssumption DEF Init, Stepped, Nothing
<1> QED
  BY <1>1 DEF Durable, Done

\* Rows in the database stay there.
LEMMA CommittedGrows ==
  ASSUME TypeOK, NEW t \in Thread, Do(t), NEW u \in Thread
  PROVE  committed'[u] \in Nat /\ committed[u] <= committed'[u]
<1>1. CASE Step(t)
  BY <1>1, StepFacts
     DEF begin_step, insert_step, commit_step, rollback_step, Unchanged, Discard, TypeOK
<1>2. CASE ~Step(t)
  BY <1>2, DataFrame DEF TypeOK
<1> QED
  BY <1>1, <1>2

\* Only the holder of the mutex has a transaction.
LEMMA OwnTransaction ==
  ASSUME Guarded = Thread, TypeOK, CallInv, ScopeInv, NEW t \in Thread, Active(t)
  PROVE  txn \in {t, NoThread}
<1> SUFFICES ASSUME NEW u \in Thread, txn = u PROVE u = t
  BY DEF TypeOK
<1>1. Active(u)
  BY DEF ScopeInv, Scope, Active, Stepped, Done, InScope
<1>2. Holds(t) /\ Holds(u)
  BY DEF CallInv
<1> QED
  BY <1>1, <1>2 DEF Holds

LEMMA OwnDurable ==
  ASSUME Guarded = Thread, NoMemory = FALSE, TypeOK, CallInv, ScopeInv,
         NEW t \in Thread, Durable(t), Do(t)
  PROVE  Durable(t)'
<1> t # NoThread
  BY ThreadAssumption
<1> Scope(t) /\ Outcome(t)
  BY DEF ScopeInv, CallInv
<1>1. CASE Lock(t) \/ Unlock(t)
  BY <1>1 DEF Lock, Unlock, Durable, Stepped, Done, dataVars, callVars, scopeVars
<1>2. CASE Call(t) \/ Prepare(t)
  <2>1. ~Stepped(t) /\ UNCHANGED <<txn, pend, committed, ins, acked>>
    BY <1>2 DEF Call, Prepare, Stepped, dataVars, scopeVars
  <2>2. pc'[t] \in {"prepare", "step", "prepare_error"}
    BY <1>2 DEF Call, Prepare, TypeOK
  <2> QED
    BY <2>1, <2>2 DEF Durable, Stepped, Done
<1>3. CASE EndScope(t)
  BY <1>3 DEF EndScope, Durable, Stepped, Done, dataVars, callVars
<1>4. CASE ReadPrepareError(t)
  <2>1. PICK o \in {"exception", "busy_exception"} : EndExecute(t, o)
    BY <1>4 DEF ReadPrepareError, class_of
  <2>2. ~Stepped(t) /\ UNCHANGED <<txn, pend, committed>>
    BY <1>4 DEF ReadPrepareError, Stepped, dataVars
  <2>3. pc'[t] = "idle" /\ ins'[t] = ins[t] /\ acked'[t] = acked[t]
    BY <2>1 DEF EndExecute, TypeOK
  <2> QED
    BY <2>2, <2>3 DEF Durable, Stepped, Done
<1>5. CASE Step(t)
  <2>1. PICK r \in Code :
          /\ \/ op[t] = "BEGIN"    /\ begin_step(t, r)
             \/ op[t] = "INSERT"   /\ insert_step(t, r)
             \/ op[t] = "COMMIT"   /\ commit_step(t, r)
             \/ op[t] = "ROLLBACK" /\ rollback_step(t, r)
          /\ rc' = [rc EXCEPT ![t] = r]
          /\ pc' = [pc EXCEPT ![t] = IF r = "DONE" THEN "changes" ELSE "errcode"]
    BY <1>5, StepFacts
  <2>2. /\ ~Stepped(t) /\ Stepped(t)' /\ rc'[t] = r
        /\ op[t] \in next_text(t)
        /\ UNCHANGED <<op, tx, ins, acked>>
    BY <1>5, <2>1 DEF Step, Stepped, Scope, scopeVars, TypeOK
  <2>3. /\ txn \in {t, NoThread}
        /\ txn = t => InScope(t) /\ ins[t] <= pend[t]
    BY <1>5, <2>2, OwnTransaction DEF Step, Active, Scope, Durable, Done, TypeOK
  <2>4. acked[t] <= committed'[t]
    BY CommittedGrows DEF Durable, TypeOK
  <2>5. CASE op[t] = "BEGIN" /\ begin_step(t, r)
    <3>1. r = "DONE" \/ txn' # t
      BY <2>2, <2>3, <2>5 DEF begin_step, Unchanged, InScope, next_text, Autocommit, TypeOK
    <3> QED
      BY <2>2, <2>4, <2>5, <3>1 DEF Durable, Done
  <2>6. CASE op[t] = "INSERT" /\ insert_step(t, r)
    <3>1. txn = t => tx[t] = "open"
      BY <2>2, <2>3, <2>6 DEF next_text, InScope
    <3>2. CASE r = "DONE" /\ txn = t
      <4>1. pend'[t] = pend[t] + 1 /\ txn' = t
        BY <2>6, <3>2 DEF insert_step, Autocommit, TypeOK
      <4> QED
        BY <2>2, <2>3, <2>4, <2>6, <3>1, <3>2, <4>1 DEF Durable, Done, TypeOK
    <3>3. CASE r = "DONE" /\ txn = NoThread
      <4>1. committed'[t] = committed[t] + 1 /\ txn' = NoThread
        BY <2>6, <3>3 DEF insert_step, Autocommit, TypeOK
      <4> QED
        BY <2>2, <2>4, <2>6, <3>3, <4>1 DEF Durable, Done, TypeOK
    <3>4. CASE r # "DONE"
      <4>1. txn' = t => txn = t /\ pend' = pend
        BY <2>6, <3>4 DEF insert_step, Unchanged, Discard
      <4> QED
        BY <2>2, <2>3, <2>4, <2>6, <3>4, <4>1 DEF Durable, Done, TypeOK
    <3> QED
      BY <2>3, <3>2, <3>3, <3>4
  <2>7. CASE op[t] = "COMMIT" /\ commit_step(t, r)
    <3>1. CASE r = "DONE"
      <4>1. txn = t /\ tx[t] = "open"
        BY <2>2, <2>3, <2>7, <3>1 DEF commit_step, Autocommit, InScope, next_text
      <4>2. committed'[t] = committed[t] + pend[t] /\ txn' = NoThread
        BY <2>7, <3>1 DEF commit_step
      <4> QED
        BY <2>2, <2>3, <2>4, <2>7, <4>1, <4>2 DEF Durable, Done, TypeOK
    <3>2. CASE r # "DONE"
      <4>1. txn' = t => txn = t /\ pend' = pend
        BY <2>7, <3>2 DEF commit_step, Unchanged, Discard
      <4> QED
        BY <2>2, <2>3, <2>4, <2>7, <3>2, <4>1 DEF Durable, Done, TypeOK
    <3> QED
      BY <3>1, <3>2
  <2>8. CASE op[t] = "ROLLBACK" /\ rollback_step(t, r)
    <3>1. txn' = NoThread
      BY <2>8 DEF rollback_step, Unchanged, Discard, Autocommit
    <3> QED
      BY <2>2, <2>4, <2>8, <3>1 DEF Durable, Done
  <2> QED
    BY <2>1, <2>5, <2>6, <2>7, <2>8
<1>6. CASE ReadError(t) \/ Construct(t) \/ ReadChanges(t)
  <2>1. Stepped(t) /\ Stepped(t)'
    BY <1>6 DEF ReadError, Construct, ReadChanges, Stepped, TypeOK
  <2>2. UNCHANGED <<op, rc, tx, txn, pend, committed, ins, acked>>
    BY <1>6 DEF ReadError, Construct, ReadChanges, dataVars, scopeVars
  <2> QED
    BY <2>1, <2>2 DEF Durable, Done
<1>7. CASE Finalize(t)
  <2>1. /\ EndExecute(t, out[t]) /\ Stepped(t) /\ Faithful(t) /\ out[t] \in Class
        /\ op[t] \in next_text(t) /\ UNCHANGED <<txn, pend, committed>>
    BY <1>7 DEF Finalize, Outcome, Scope, Stepped, dataVars, TypeOK
  <2>2. ~Stepped(t)'
    BY <2>1, EndExecuteCall DEF Stepped
  <2>3. out[t] = "returned" <=> rc[t] = "DONE"
    BY <2>1 DEF Faithful, class_of
  <2>4. /\ ins[t] \in Nat /\ acked[t] \in Nat /\ pend[t] \in Nat /\ committed[t] \in Nat
    BY DEF TypeOK
  <2>5. CASE out[t] # "returned"
    <3>1. ins'[t] = ins[t] /\ acked'[t] = acked[t]
      BY <2>1, <2>5 DEF EndExecute, TypeOK
    <3> QED
      BY <2>1, <2>2, <2>3, <2>4, <2>5, <3>1 DEF Durable, Done
  <2>6. CASE out[t] = "returned" /\ op[t] \in {"BEGIN", "ROLLBACK"}
    <3>1. ins'[t] = 0 /\ acked'[t] = acked[t]
      BY <2>1, <2>6 DEF EndExecute, TypeOK
    <3> QED
      BY <2>1, <2>2, <2>4, <3>1 DEF Durable, Done
  <2>7. CASE out[t] = "returned" /\ op[t] = "COMMIT"
    <3>1. ins'[t] = 0 /\ acked'[t] = acked[t] + ins[t]
      BY <2>1, <2>7 DEF EndExecute, TypeOK
    <3>2. acked[t] + ins[t] <= committed[t]
      BY <2>1, <2>3, <2>7 DEF Durable, Done
    <3> QED
      BY <2>1, <2>2, <2>4, <3>1, <3>2 DEF Durable, Done
  <2>8. CASE out[t] = "returned" /\ op[t] = "INSERT"
    <3>1. CASE tx[t] = "open"
      <4>1. ins'[t] = ins[t] + 1 /\ acked'[t] = acked[t]
        BY <2>1, <2>8, <3>1 DEF EndExecute, TypeOK
      <4>2. txn = t => ins[t] + 1 <= pend[t]
        BY <2>1, <2>3, <2>8 DEF Durable, Done
      <4> QED
        BY <2>1, <2>2, <2>4, <4>1, <4>2 DEF Durable, Done
    <3>2. CASE tx[t] # "open"
      <4>1. ins'[t] = ins[t] /\ acked'[t] = acked[t] + 1
        BY <2>1, <2>8, <3>2 DEF EndExecute, TypeOK
      <4>2. acked[t] + 1 <= committed[t]
        BY <2>1, <2>3, <2>8, <3>2 DEF Durable, Done
      <4>3. txn = t => ins[t] + 1 <= pend[t]
        BY <2>1, <2>3, <2>8 DEF Durable, Done
      <4> QED
        BY <2>1, <2>2, <2>4, <4>1, <4>2, <4>3 DEF Durable, Done
    <3> QED
      BY <3>1, <3>2
  <2> QED
    BY <2>5, <2>6, <2>7, <2>8 DEF TypeOK, Text
<1> QED
  BY <1>1, <1>2, <1>3, <1>4, <1>5, <1>6, <1>7 DEF Do, Continue

LEMMA NextDurable ==
  ASSUME Guarded = Thread, NoMemory = FALSE
  PROVE  TypeOK /\ CallInv /\ ScopeInv /\ DurableInv /\ [Next]_vars => DurableInv'
<1> SUFFICES ASSUME TypeOK, CallInv, ScopeInv, DurableInv, [Next]_vars, NEW t \in Thread
             PROVE  Durable(t)'
  BY DEF DurableInv
<1>1. Durable(t) /\ Scope(t) /\ Holds(t)
  BY DEF DurableInv, ScopeInv, CallInv
<1>2. CASE Do(t)
  BY <1>1, <1>2, OwnDurable
<1>3. ASSUME NEW u \in Thread, u # t, Do(u) PROVE Durable(t)'
  <2>1. OwnUnchanged(t)
    BY <1>3, OwnFrame
  <2>2. CASE Active(t)
    <3>1. ConnectionUnchanged
      BY <1>1, <1>3, <2>2, HeldFrame DEF Holds
    <3> QED
      BY <1>1, <2>1, <3>1 DEF OwnUnchanged, ConnectionUnchanged, Durable, Stepped, Done
  <2>3. CASE ~Active(t)
    <3>1. txn' # t
      BY <1>1, <1>3, <2>3, OthersTransaction DEF Active, Scope, Stepped, Done, InScope
    <3>2. committed[t] <= committed'[t] /\ committed'[t] \in Nat
      BY <1>3, CommittedGrows
    <3> QED
      BY <1>1, <2>1, <2>3, <3>1, <3>2
         DEF OwnUnchanged, Active, Durable, Stepped, Done, TypeOK
  <2> QED
    BY <2>2, <2>3
<1>4. CASE UNCHANGED vars
  BY <1>1, <1>4 DEF vars, Durable, Stepped, Done
<1> QED
  BY <1>2, <1>3, <1>4 DEF Next

LEMMA DurableInvImplies == DurableInv => AckedIsDurable
  BY DEF DurableInv, Durable, AckedIsDurable

\* When every thread encloses its work in a lock_guard, no row that execute() or
\* commit() acknowledged is ever missing from the database.
THEOREM AcknowledgedRowsStay == NoMemory = FALSE /\ Spec => []AckedIsDurable
<1>1. CASE NoMemory = FALSE /\ Guarded = Thread
  <2>1. TypeOK /\ CallInv /\ ScopeInv /\ DurableInv /\ [Next]_vars => DurableInv'
    BY <1>1, NextDurable
  <2>2. NoMemory = FALSE
    BY <1>1
  <2> QED
    BY <2>1, <2>2, ScopeInvariant, InitDurable, DurableInvImplies, PTL DEF Spec
<1>2. CASE NoMemory = FALSE /\ Guarded # Thread
  <2>1. AckedIsDurable
    BY <1>2 DEF AckedIsDurable
  <2> QED
    BY <2>1, PTL
<1>3. CASE NoMemory # FALSE
  BY <1>3
<1> QED
  BY <1>1, <1>2, <1>3

----------------------------------------------------------------------------
(***************************************************************************)
(* Guarded scopes implement Ledger.  Exact makes Durable's bounds          *)
(* equalities: nothing is in the database, or pending, that the thread     *)
(* neither knows of nor is just about to be told of.                       *)
(***************************************************************************)
Exact(t) ==
  /\ ~Done(t, "INSERT") /\ ~Done(t, "COMMIT") => committed[t] = acked[t]
  /\ Done(t, "INSERT") => committed[t] = acked[t] + (IF tx[t] = "open" THEN 0 ELSE 1)
  /\ Done(t, "COMMIT") => committed[t] = acked[t] + ins[t]
  /\ txn = t /\ ~Done(t, "BEGIN") =>
       pend[t] = ins[t] + (IF Done(t, "INSERT") THEN 1 ELSE 0)
  /\ Done(t, "BEGIN") => pend[t] = 0

ExactInv == \A t \in Thread : Exact(t)

LEMMA InitExact == Init => ExactInv
<1> SUFFICES ASSUME Init, NEW t \in Thread PROVE Exact(t)
  BY DEF ExactInv
<1>1. txn # t /\ ~Stepped(t) /\ acked[t] = 0 /\ committed[t] = 0
  BY ThreadAssumption DEF Init, Stepped, Nothing
<1> QED
  BY <1>1 DEF Exact, Done

\* What t has in the database is changed by steps of its own calls only, when no
\* other thread is in its transaction.
LEMMA OthersRows ==
  ASSUME Guarded = Thread, TypeOK, CallInv, ScopeInv,
         NEW t \in Thread, NEW u \in Thread, u # t, Do(u)
  PROVE  committed'[t] = committed[t]
<1>1. CASE Step(u)
  <2>1. Active(u)
    BY <1>1 DEF Step, Active
  <2>2. txn \in {u, NoThread}
    BY <2>1, OwnTransaction
  <2>3. txn = u => pend[t] = 0
    BY DEF ScopeInv, Scope
  <2>4. PICK r \in Code : \/ op[u] = "BEGIN"    /\ begin_step(u, r)
                          \/ op[u] = "INSERT"   /\ insert_step(u, r)
                          \/ op[u] = "COMMIT"   /\ commit_step(u, r)
                          \/ op[u] = "ROLLBACK" /\ rollback_step(u, r)
    BY <1>1, StepFacts
  <2>5. CASE begin_step(u, r) \/ rollback_step(u, r)
    BY <2>5 DEF begin_step, rollback_step, Unchanged, Discard
  <2>6. CASE insert_step(u, r)
    BY <2>6 DEF insert_step, Unchanged, Discard, TypeOK
  <2>7. CASE commit_step(u, r)
    BY <2>2, <2>3, <2>7 DEF commit_step, Autocommit, Unchanged, Discard, TypeOK
  <2> QED
    BY <2>4, <2>5, <2>6, <2>7
<1>2. CASE ~Step(u)
  BY <1>2, DataFrame
<1> QED
  BY <1>1, <1>2

\* At the end of a call its thread knows of all it has in the database.
LEMMA ToldOnReturn ==
  ASSUME TypeOK, NEW t \in Thread, Exact(t), Scope(t), Durable(t), Stepped(t),
         out[t] \in Class, out[t] = "returned" <=> rc[t] = "DONE", EndExecute(t, out[t])
  PROVE  acked'[t] = committed[t] /\ (txn = t => pend[t] = ins'[t])
<1> /\ ins[t] \in Nat /\ acked[t] \in Nat /\ pend[t] \in Nat /\ committed[t] \in Nat
    /\ op[t] \in Text
  BY DEF TypeOK
<1>1. CASE out[t] # "returned"
  <2>1. ins'[t] = ins[t] /\ acked'[t] = acked[t]
    BY <1>1 DEF EndExecute, TypeOK
  <2> QED
    BY <1>1, <2>1 DEF Exact, Done
<1>2. CASE out[t] = "returned" /\ op[t] = "BEGIN"
  <2>1. ins'[t] = 0 /\ acked'[t] = acked[t]
    BY <1>2 DEF EndExecute, TypeOK
  <2> QED
    BY <1>2, <2>1 DEF Exact, Done
<1>3. CASE out[t] = "returned" /\ op[t] = "ROLLBACK"
  <2>1. acked'[t] = acked[t] /\ txn # t
    BY <1>3, ThreadAssumption DEF EndExecute, Scope, Done, TypeOK
  <2> QED
    BY <1>3, <2>1 DEF Exact, Done
<1>4. CASE out[t] = "returned" /\ op[t] = "COMMIT"
  <2>1. acked'[t] = acked[t] + ins[t] /\ txn # t
    BY <1>4, ThreadAssumption DEF EndExecute, Scope, Done, TypeOK
  <2> QED
    BY <1>4, <2>1 DEF Exact, Done
<1>5. CASE out[t] = "returned" /\ op[t] = "INSERT"
  <2>1. CASE tx[t] = "open"
    <3>1. ins'[t] = ins[t] + 1 /\ acked'[t] = acked[t]
      BY <1>5, <2>1 DEF EndExecute, TypeOK
    <3> QED
      BY <1>5, <2>1, <3>1 DEF Exact, Done
  <2>2. CASE tx[t] # "open"
    <3>1. ins'[t] = ins[t] /\ acked'[t] = acked[t] + 1
      BY <1>5, <2>2 DEF EndExecute, TypeOK
    <3>2. op[t] \in next_text(t)
      BY DEF Scope, Stepped
    <3>3. txn # t
      BY <1>5, <2>2, <3>2 DEF Scope, Done, InScope, next_text
    <3> QED
      BY <1>5, <2>2, <3>1, <3>3 DEF Exact, Done
  <2> QED
    BY <2>1, <2>2
<1> QED
  BY <1>1, <1>2, <1>3, <1>4, <1>5 DEF Text

LEMMA OwnExact ==
  ASSUME Guarded = Thread, NoMemory = FALSE, TypeOK, CallInv, ScopeInv, OpenInv,
         DurableInv, NEW t \in Thread, Exact(t), Do(t)
  PROVE  Exact(t)'
<1> t # NoThread
  BY ThreadAssumption
<1> Scope(t) /\ Outcome(t) /\ Open(t) /\ Durable(t)
  BY DEF ScopeInv, CallInv, OpenInv, DurableInv
<1> /\ ins[t] \in Nat /\ acked[t] \in Nat /\ pend[t] \in Nat /\ committed[t] \in Nat
  BY DEF TypeOK
<1>1. CASE Lock(t) \/ Unlock(t)
  BY <1>1 DEF Lock, Unlock, Exact, Stepped, Done, dataVars, callVars, scopeVars
<1>2. CASE Call(t) \/ Prepare(t)
  <2>1. ~Stepped(t) /\ UNCHANGED <<txn, pend, committed, ins, acked, tx>>
    BY <1>2 DEF Call, Prepare, Stepped, dataVars, scopeVars
  <2>2. pc'[t] \in {"prepare", "step", "prepare_error"}
    BY <1>2 DEF Call, Prepare, TypeOK
  <2> QED
    BY <2>1, <2>2 DEF Exact, Stepped, Done
<1>3. CASE EndScope(t)
  <2>1. ~Stepped(t) /\ ~Stepped(t)'
    BY <1>3 DEF EndScope, Stepped, callVars
  <2> QED
    BY <1>3, <2>1 DEF EndScope, Exact, Done, dataVars
<1>4. CASE ReadPrepareError(t)
  <2>1. PICK o \in {"exception", "busy_exception"} : EndExecute(t, o)
    BY <1>4 DEF ReadPrepareError, class_of
  <2>2. ~Stepped(t) /\ UNCHANGED <<txn, pend, committed>>
    BY <1>4 DEF ReadPrepareError, Stepped, dataVars
  <2>3. pc'[t] = "idle" /\ ins'[t] = ins[t] /\ acked'[t] = acked[t]
    BY <2>1 DEF EndExecute, TypeOK
  <2> QED
    BY <2>2, <2>3 DEF Exact, Stepped, Done
<1>5. CASE Step(t)
  <2>1. PICK r \in Code :
          /\ \/ op[t] = "BEGIN"    /\ begin_step(t, r)
             \/ op[t] = "INSERT"   /\ insert_step(t, r)
             \/ op[t] = "COMMIT"   /\ commit_step(t, r)
             \/ op[t] = "ROLLBACK" /\ rollback_step(t, r)
          /\ rc' = [rc EXCEPT ![t] = r]
          /\ pc' = [pc EXCEPT ![t] = IF r = "DONE" THEN "changes" ELSE "errcode"]
    BY <1>5, StepFacts
  <2>2. /\ ~Stepped(t) /\ Stepped(t)' /\ rc'[t] = r
        /\ op[t] \in next_text(t)
        /\ UNCHANGED <<op, tx, ins, acked>>
    BY <1>5, <2>1 DEF Step, Stepped, Scope, scopeVars, TypeOK
  <2>3. txn \in {t, NoThread} /\ committed[t] = acked[t] /\ (txn = t => pend[t] = ins[t])
    BY <1>5, <2>2, OwnTransaction DEF Step, Active, Exact, Done
  <2>4. (txn = t <=> tx[t] = "open") \/ tx[t] = "leaving"
    BY <2>2 DEF Open, Scope, Done, InScope
  <2>5. CASE op[t] = "BEGIN" /\ begin_step(t, r)
    <3>1. committed' = committed /\ pend' = pend /\ (r = "DONE" \/ txn' # t)
      BY <2>2, <2>3, <2>4, <2>5 DEF begin_step, Unchanged, next_text, Autocommit, TypeOK
    <3>2. r = "DONE" => pend[t] = 0
      BY <2>5 DEF begin_step, Autocommit, ScopeInv, Clean
    <3> QED
      BY <2>2, <2>3, <2>5, <3>1, <3>2 DEF Exact, Done
  <2>6. CASE op[t] = "INSERT" /\ insert_step(t, r)
    <3>1. tx[t] # "leaving"
      BY <2>2, <2>6 DEF next_text
    <3>2. CASE r = "DONE" /\ txn = t
      <4>1. pend'[t] = pend[t] + 1 /\ txn' = t /\ committed' = committed
        BY <2>6, <3>2 DEF insert_step, Autocommit, TypeOK
      <4> QED
        BY <2>2, <2>3, <2>4, <2>6, <3>1, <3>2, <4>1 DEF Exact, Done
    <3>3. CASE r = "DONE" /\ txn = NoThread
      <4>1. committed'[t] = committed[t] + 1 /\ txn' = NoThread
        BY <2>6, <3>3 DEF insert_step, Autocommit, TypeOK
      <4> QED
        BY <2>2, <2>3, <2>4, <2>6, <3>1, <3>3, <4>1 DEF Exact, Done
    <3>4. CASE r # "DONE"
      <4>1. committed' = committed /\ (txn' = t => txn = t /\ pend' = pend)
        BY <2>6, <3>4 DEF insert_step, Unchanged, Discard
      <4> QED
        BY <2>2, <2>3, <2>6, <3>4, <4>1 DEF Exact, Done
    <3> QED
      BY <2>3, <3>2, <3>3, <3>4
  <2>7. CASE op[t] = "COMMIT" /\ commit_step(t, r)
    <3>1. CASE r = "DONE"
      <4>1. txn = t
        BY <2>3, <2>7, <3>1 DEF commit_step, Autocommit
      <4>2. committed'[t] = committed[t] + pend[t] /\ txn' = NoThread
        BY <2>7, <3>1 DEF commit_step
      <4> QED
        BY <2>2, <2>3, <2>7, <3>1, <4>1, <4>2 DEF Exact, Done
    <3>2. CASE r # "DONE"
      <4>1. committed' = committed /\ (txn' = t => txn = t /\ pend' = pend)
        BY <2>7, <3>2 DEF commit_step, Unchanged, Discard
      <4> QED
        BY <2>2, <2>3, <2>7, <3>2, <4>1 DEF Exact, Done
    <3> QED
      BY <3>1, <3>2
  <2>8. CASE op[t] = "ROLLBACK" /\ rollback_step(t, r)
    <3>1. txn' = NoThread /\ committed' = committed
      BY <2>8 DEF rollback_step, Unchanged, Discard, Autocommit
    <3> QED
      BY <2>2, <2>3, <2>8, <3>1 DEF Exact, Done
  <2> QED
    BY <2>1, <2>5, <2>6, <2>7, <2>8
<1>6. CASE ReadError(t) \/ Construct(t) \/ ReadChanges(t)
  <2>1. Stepped(t) /\ Stepped(t)'
    BY <1>6 DEF ReadError, Construct, ReadChanges, Stepped, TypeOK
  <2>2. UNCHANGED <<op, rc, tx, txn, pend, committed, ins, acked>>
    BY <1>6 DEF ReadError, Construct, ReadChanges, dataVars, scopeVars
  <2> QED
    BY <2>1, <2>2 DEF Exact, Done
<1>7. CASE Finalize(t)
  <2>1. /\ EndExecute(t, out[t]) /\ Stepped(t) /\ Faithful(t) /\ out[t] \in Class
        /\ op[t] \in next_text(t) /\ UNCHANGED <<txn, pend, committed>>
    BY <1>7 DEF Finalize, Outcome, Scope, Stepped, dataVars, TypeOK
  <2>2. ~Stepped(t)'
    BY <2>1, EndExecuteCall DEF Stepped
  <2>3. out[t] = "returned" <=> rc[t] = "DONE"
    BY <2>1 DEF Faithful, class_of
  <2>4. acked'[t] = committed[t] /\ (txn = t => pend[t] = ins'[t])
    BY <2>1, <2>3, ToldOnReturn
  <2> QED
    BY <2>1, <2>2, <2>4 DEF Exact, Done
<1> QED
  BY <1>1, <1>2, <1>3, <1>4, <1>5, <1>6, <1>7 DEF Do, Continue

LEMMA NextExact ==
  ASSUME Guarded = Thread, NoMemory = FALSE, LeaveOnError = TRUE
  PROVE  /\ TypeOK /\ CallInv /\ ScopeInv /\ OpenInv /\ DurableInv /\ ExactInv /\ [Next]_vars
         => ExactInv'
<1> SUFFICES ASSUME TypeOK, CallInv, ScopeInv, OpenInv, DurableInv, ExactInv, [Next]_vars,
                    NEW t \in Thread
             PROVE  Exact(t)'
  BY DEF ExactInv
<1>1. Exact(t) /\ Scope(t) /\ Holds(t)
  BY DEF ExactInv, ScopeInv, CallInv
<1>2. CASE Do(t)
  BY <1>1, <1>2, OwnExact
<1>3. ASSUME NEW u \in Thread, u # t, Do(u) PROVE Exact(t)'
  <2>1. OwnUnchanged(t) /\ committed'[t] = committed[t]
    BY <1>3, OwnFrame, OthersRows
  <2>2. CASE Active(t)
    <3>1. ConnectionUnchanged
      BY <1>1, <1>3, <2>2, HeldFrame DEF Holds
    <3> QED
      BY <1>1, <2>1, <3>1 DEF OwnUnchanged, ConnectionUnchanged, Exact, Stepped, Done
  <2>3. CASE ~Active(t)
    <3>1. txn' # t
      BY <1>1, <1>3, <2>3, OthersTransaction DEF Active, Scope, Stepped, Done, InScope
    <3> QED
      BY <1>1, <2>1, <2>3, <3>1 DEF OwnUnchanged, Active, Exact, Stepped, Done
  <2> QED
    BY <2>2, <2>3
<1>4. CASE UNCHANGED vars
  BY <1>1, <1>4 DEF vars, Exact, Stepped, Done
<1> QED
  BY <1>2, <1>3, <1>4 DEF Next

\* Every step of a guarded thread is a step of Ledger, or changes nothing there: a
\* row that has come into the database is new, and told of at the end of the call.
LEMMA LedgerStep ==
  ASSUME Guarded = Thread, TypeOK, TypeOK', CallInv, ScopeInv, ScopeInv', OpenInv, DurableInv,
         ExactInv, ExactInv', NEW t \in Thread, Do(t)
  PROVE  LedgerOf!Commit(t) \/ LedgerOf!Tell(t) \/ UNCHANGED <<committed, acked>>
<1> Exact(t) /\ Scope(t) /\ Outcome(t) /\ Durable(t)
  BY DEF ExactInv, ScopeInv, CallInv, DurableInv
<1>1. CASE Step(t)
  <2>1. \A u \in Thread \ {t} : committed'[u] = committed[u]
    <3>1. txn \in {t, NoThread}
      BY <1>1, OwnTransaction DEF Step, Active
    <3>2. \A u \in Thread \ {t} : txn = t => pend[u] = 0
      BY DEF Scope
    <3>3. PICK r \in Code : \/ op[t] = "BEGIN"    /\ begin_step(t, r)
                            \/ op[t] = "INSERT"   /\ insert_step(t, r)
                            \/ op[t] = "COMMIT"   /\ commit_step(t, r)
                            \/ op[t] = "ROLLBACK" /\ rollback_step(t, r)
      BY <1>1, StepFacts
    <3>4. CASE begin_step(t, r) \/ rollback_step(t, r)
      BY <3>4 DEF begin_step, rollback_step, Unchanged, Discard
    <3>5. CASE insert_step(t, r)
      BY <3>5 DEF insert_step, Unchanged, Discard, TypeOK
    <3>6. CASE commit_step(t, r)
      BY <3>1, <3>2, <3>6 DEF commit_step, Autocommit, Unchanged, Discard, TypeOK
    <3> QED
      BY <3>3, <3>4, <3>5, <3>6
  <2>2. committed' = [committed EXCEPT ![t] = committed'[t]]
    BY <2>1 DEF TypeOK
  <2>3. committed'[t] \in Nat /\ committed[t] <= committed'[t]
    BY <1>1, CommittedGrows DEF Do, Continue
  <2>4. acked' = acked /\ acked[t] = committed[t]
    BY <1>1 DEF Step, scopeVars, Exact, Done, Stepped
  <2>5. CASE committed'[t] = committed[t]
    BY <2>2, <2>4, <2>5 DEF TypeOK
  <2>6. CASE committed'[t] # committed[t]
    BY <2>2, <2>3, <2>4, <2>6 DEF LedgerOf!Commit, TypeOK
  <2> QED
    BY <2>5, <2>6
<1>2. CASE Finalize(t)
  <2>1. /\ EndExecute(t, out[t]) /\ Stepped(t) /\ Faithful(t) /\ out[t] \in Class
        /\ committed' = committed
    BY <1>2 DEF Finalize, Outcome, Stepped, dataVars, TypeOK
  <2>2. out[t] = "returned" <=> rc[t] = "DONE"
    BY <2>1 DEF Faithful, class_of
  <2>3. acked'[t] = committed[t]
    BY <2>1, <2>2, ToldOnReturn
  <2>4. acked' = [acked EXCEPT ![t] = acked'[t]]
    BY <2>1 DEF EndExecute, TypeOK
  <2> QED
    BY <2>1, <2>3, <2>4 DEF LedgerOf!Tell
<1>3. CASE ReadPrepareError(t)
  <2>1. PICK o \in {"exception", "busy_exception"} : EndExecute(t, o)
    BY <1>3 DEF ReadPrepareError, class_of
  <2>2. acked' = acked
    BY <2>1 DEF EndExecute, TypeOK
  <2> QED
    BY <1>3, <2>2 DEF ReadPrepareError, dataVars
<1>4. CASE ~Step(t) /\ ~Finalize(t) /\ ~ReadPrepareError(t)
  BY <1>4 DEF Do, Continue, Lock, Unlock, Call, EndScope, Prepare, ReadError, Construct,
              ReadChanges, dataVars, scopeVars
<1> QED
  BY <1>1, <1>2, <1>3, <1>4

\* When all threads enclose their work in a lock_guard and let errors leave the scope
\* they are thrown in, scopes are transactions: SharedConnection implements Ledger.
THEOREM ScopesImplementLedger ==
  /\ Guarded = Thread /\ NoMemory = FALSE /\ LeaveOnError = TRUE
  /\ Spec
  => ScopesAreTransactions
<1>1. CASE Guarded = Thread /\ NoMemory = FALSE /\ LeaveOnError = TRUE
  <2>1. TypeOK /\ CallInv /\ ScopeInv /\ OpenInv /\ [Next]_vars => OpenInv'
    BY <1>1, NextOpen
  <2>2. TypeOK /\ CallInv /\ ScopeInv /\ DurableInv /\ [Next]_vars => DurableInv'
    BY <1>1, NextDurable
  <2>3. TypeOK /\ CallInv /\ ScopeInv /\ OpenInv /\ DurableInv /\ ExactInv /\ [Next]_vars
        => ExactInv'
    BY <1>1, NextExact
  <2>4. Init => LedgerOf!Init
    BY DEF Init, LedgerOf!Init, Nothing
  <2>5. /\ TypeOK /\ TypeOK' /\ CallInv /\ ScopeInv /\ ScopeInv' /\ OpenInv /\ DurableInv
        /\ ExactInv /\ ExactInv' /\ [Next]_vars
        => [LedgerOf!Next]_<<committed, acked>>
    BY <1>1, LedgerStep DEF Next, LedgerOf!Next, vars
  <2>6. NoMemory = FALSE
    BY <1>1
  <2> QED
    BY <2>1, <2>2, <2>3, <2>4, <2>5, <2>6, ScopeInvariant, InitOpen, InitDurable, InitExact,
       PTL DEF Spec, ScopesAreTransactions, LedgerOf!Spec
<1>2. CASE ~(Guarded = Thread /\ NoMemory = FALSE /\ LeaveOnError = TRUE)
  BY <1>2
<1> QED
  BY <1>1, <1>2
=============================================================================
