-------------------------- MODULE SharedConnection --------------------------
(***************************************************************************)
(* Threads that share one sqlite::dbconnection: sqlite::execute            *)
(* (Statement.h), sqlite::transaction (Transaction.cpp), sqlite::mutex     *)
(* (Mutex.cpp) and the error reporting of Exception.cpp, at the grain of   *)
(* the engine's API calls.                                                 *)
(*                                                                         *)
(* The connection is in the engine's serialized mode: an API call enters   *)
(* the connection's recursive mutex, which sqlite::mutex also gives to the *)
(* program, and is atomic.  The wrapper makes several such calls for each  *)
(* of its own, and another thread may run between them.  Two of them, the  *)
(* reads of the connection's last error code and of its count of changes,  *)
(* do not enter the mutex at all.                                          *)
(*                                                                         *)
(* A thread of Guarded follows table_insert_shared_connection              *)
(* (TestThreading.cpp): a lock_guard on the mutex encloses everything it   *)
(* does with the connection, its transaction object included.              *)
(*                                                                         *)
(* An operator named X_Y and defined just before X is a plausible mistake  *)
(* in the code X models; no definition uses it, mutation runs put it in    *)
(* the place of X.                                                         *)
(***************************************************************************)
EXTENDS Naturals

CONSTANTS
  Thread,         \* the threads sharing the connection
  Guarded,        \* those that hold the mutex around all they do
  NoThread,       \* "nobody", not a thread
  MaxInserts,     \* bound: INSERTs a thread executes
  MaxDepth,       \* bound: nested lock() of one thread
  LeaveOnError,   \* TRUE: an exception other than busy_exception leaves the
                  \* scope of the transaction object it is thrown in
  NoMemory        \* TRUE: an allocation of the engine may fail

ASSUME ThreadAssumption == Guarded \subseteq Thread /\ NoThread \notin Thread
ASSUME BoundAssumption == /\ MaxInserts \in Nat /\ MaxDepth \in Nat
                          /\ LeaveOnError \in BOOLEAN /\ NoMemory \in BOOLEAN

VARIABLES
  \* The engine's connection.
  owner,      \* thread inside the connection's mutex, or NoThread
  depth,      \* how many times owner has entered it through sqlite::mutex
  err,        \* error code of the last API call made on the connection
  changes,    \* whose INSERT sqlite3_changes counts, NoThread at first
  txn,        \* thread whose BEGIN opened the transaction, NoThread: autocommit
  pend,       \* pend[t]: rows t inserted in the open transaction
  committed,  \* committed[t]: rows of t in the database
  \* The call each thread is in.
  pc,         \* where it is between two API calls
  op,         \* the SQL it executes
  rc,         \* history: the engine's answer to prepare, then to step
  out,        \* how execute() ended: a return or an exception class
  code,       \* errcode of the exception
  n,          \* whose INSERT the returned number counts
  \* The transaction object of each thread.
  tx,         \* none, open (m_commited false), commited, or leaving its scope
  \* History of each thread.
  calls,      \* INSERTs executed
  ins,        \* rows acknowledged by execute() in the open transaction object
  acked,      \* rows acknowledged for good: by commit(), or outside an object
  base        \* committed[t] when the transaction object was constructed

connVars   == <<owner, depth>>
dataVars   == <<txn, pend, committed, changes>>
callVars   == <<pc, op, rc, out, code, n>>
scopeVars  == <<tx, ins, acked, base>>
vars == <<owner, depth, err, changes, txn, pend, committed, pc, op, rc, out,
          code, n, tx, calls, ins, acked, base>>

Text == {"BEGIN", "INSERT", "COMMIT", "ROLLBACK"}
Code == {"OK", "DONE", "BUSY", "CONSTRAINT", "FULL", "ERROR", "NOMEM"}
Class == {"none", "returned", "exception", "busy_exception"}
Where == {"idle", "prepare", "prepare_error", "step", "errcode", "construct", "changes", "finalize"}

----------------------------------------------------------------------------
(* The mutex.  An API call of t enters and leaves it; the recursive mutex  *)
(* lets t in when t already holds it.                                      *)

enters_OtherMutex(t) == TRUE
enters_NotRecursive(t) == owner = NoThread
enters(t) == owner \in {NoThread, t}

\* mutex::lock, or a mutex::try_lock that answers true; one that answers false
\* changes nothing.
Lock(t) ==
  /\ pc[t] = "idle"
  /\ owner \in {NoThread, t}
  /\ depth < MaxDepth
  /\ owner' = t
  /\ depth' = depth + 1
  /\ UNCHANGED <<err, dataVars, callVars, scopeVars, calls>>

\* mutex::unlock by the thread that holds it.  The lock_guard of a guarded
\* thread was constructed before its transaction object and outlives it.
scope_ended_LockFirst(t) == TRUE
scope_ended(t) == tx[t] = "none"

owner_after_unlock_AtOnce(t) == NoThread
owner_after_unlock(t) == IF depth = 1 THEN NoThread ELSE t

Unlock(t) ==
  /\ pc[t] = "idle"
  /\ owner = t
  /\ t \in Guarded => scope_ended(t) \/ depth > 1
  /\ depth' = depth - 1
  /\ owner' = owner_after_unlock(t)
  /\ UNCHANGED <<err, dataVars, callVars, scopeVars, calls>>

----------------------------------------------------------------------------
(* Exception.cpp: throw_error_code returns for OK and DONE, else picks the *)
(* class of the exception.                                                 *)

silent_Busy(e) == e \in {"OK", "DONE", "BUSY"}
silent(e) == e \in {"OK", "DONE"}
class_of(e) == IF e = "BUSY" THEN "busy_exception" ELSE "exception"

----------------------------------------------------------------------------
(***************************************************************************)
(* The end of sqlite::execute, with outcome o, and what its caller makes   *)
(* of it: the constructor, commit() or destructor of the transaction, or   *)
(* the program.  An exception leaves the constructor without an object,    *)
(* and m_commited as it was in commit(); the destructor swallows it.       *)
(***************************************************************************)
unwinds(t, o) == LeaveOnError /\ o = "exception" /\ tx[t] = "open"

after_insert(t, o) == IF unwinds(t, o) THEN "leaving" ELSE tx[t]
after_begin_Ignored(t, o) == "open"
after_begin(t, o)  == IF o = "returned" THEN "open" ELSE tx[t]
after_commit_Always(t, o) == "commited"
after_commit(t, o) == IF o = "returned" THEN "commited"
                      ELSE IF unwinds(t, o) THEN "leaving" ELSE tx[t]
after_rollback(t)  == "none"

EndExecute(t, o) ==
  /\ pc' = [pc EXCEPT ![t] = "idle"]
  /\ tx' = [tx EXCEPT ![t] = CASE op[t] = "BEGIN"    -> after_begin(t, o)
                               [] op[t] = "INSERT"   -> after_insert(t, o)
                               [] op[t] = "COMMIT"   -> after_commit(t, o)
                               [] op[t] = "ROLLBACK" -> after_rollback(t)]
  /\ ins' = [ins EXCEPT ![t] = IF op[t] # "INSERT" /\ o = "returned" THEN 0
                               ELSE IF op[t] = "INSERT" /\ o = "returned" /\ tx[t] = "open"
                               THEN @ + 1 ELSE @]
  /\ acked' = [acked EXCEPT ![t] = IF o # "returned" THEN @
                                   ELSE IF op[t] = "COMMIT" THEN @ + ins[t]
                                   ELSE IF op[t] = "INSERT" /\ tx[t] # "open" THEN @ + 1
                                   ELSE @]
  /\ base' = [base EXCEPT ![t] = IF op[t] = "BEGIN" /\ o = "returned"
                                 THEN committed[t] ELSE @]

----------------------------------------------------------------------------
(* sqlite::execute(connection, c), call by call.                           *)

\* What the program may execute next.
next_text(t) ==
  CASE tx[t] = "none"     -> {"BEGIN", "INSERT"}
    [] tx[t] = "open"     -> {"INSERT", "COMMIT", "ROLLBACK"}
    [] tx[t] = "commited" -> {"INSERT", "COMMIT"}
    [] tx[t] = "leaving"  -> {"ROLLBACK"}

\* sqlite3_prepare_v2: an INSERT reads the schema, the others only allocate.
sqlite3_prepare(c) == {"OK"} \cup (IF c = "INSERT" THEN {"BUSY", "ERROR"} ELSE {})
                             \cup (IF NoMemory THEN {"NOMEM"} ELSE {})

\* The program calls execute(connection, c), or the constructor, commit() or
\* the destructor of the transaction, which do nothing else first.
Call(t) ==
  /\ pc[t] = "idle"
  /\ t \in Guarded => owner = t
  /\ \E c \in next_text(t) :
       /\ c = "INSERT" => calls[t] < MaxInserts
       /\ calls' = [calls EXCEPT ![t] = IF c = "INSERT" THEN @ + 1 ELSE @]
       /\ op' = [op EXCEPT ![t] = c]
  /\ pc' = [pc EXCEPT ![t] = "prepare"]
  /\ rc' = [rc EXCEPT ![t] = "OK"]
  /\ out' = [out EXCEPT ![t] = "none"]
  /\ code' = [code EXCEPT ![t] = "OK"]
  /\ n' = [n EXCEPT ![t] = NoThread]
  /\ UNCHANGED <<connVars, err, dataVars, scopeVars>>

Prepare(t) ==
  /\ pc[t] = "prepare"
  /\ enters(t)
  /\ \E r \in sqlite3_prepare(op[t]) :
       /\ err' = r
       /\ rc' = [rc EXCEPT ![t] = r]
       /\ pc' = [pc EXCEPT ![t] = IF r = "OK" THEN "step" ELSE "prepare_error"]
  /\ UNCHANGED <<connVars, dataVars, op, out, code, n, scopeVars, calls>>

(***************************************************************************)
(* internal_prepare after a failure: the error code is read without the    *)
(* mutex and given by value to throw_error_code.  When another thread has  *)
(* overwritten it with a success nothing is thrown, the statement holds    *)
(* NULL, and step() on NULL throws an exception with code NOMEM.           *)
(***************************************************************************)
ReadPrepareError(t) ==
  /\ pc[t] = "prepare_error"
  /\ LET e == IF silent(err) THEN "NOMEM" ELSE err IN
     /\ out' = [out EXCEPT ![t] = class_of(e)]
     /\ code' = [code EXCEPT ![t] = e]
     /\ EndExecute(t, class_of(e))
  /\ UNCHANGED <<connVars, err, dataVars, op, rc, n, calls>>

(***************************************************************************)
(* sqlite3_step on each of the four texts.  FULL stands for the errors     *)
(* after which the engine rolls the whole transaction back.                *)
(***************************************************************************)
Autocommit == txn = NoThread
Nothing == [t \in Thread |-> 0]

Unchanged == UNCHANGED <<txn, pend, committed, changes>>
Discard   == txn' = NoThread /\ pend' = Nothing /\ UNCHANGED <<committed, changes>>

begin_step(t, r) ==
  \/ r = "DONE"  /\ Autocommit  /\ txn' = t /\ UNCHANGED <<pend, committed, changes>>
  \/ r = "BUSY"  /\ Autocommit  /\ Unchanged
  \/ r = "ERROR" /\ ~Autocommit /\ Unchanged

insert_step(t, r) ==
  \/ /\ r = "DONE"
     /\ changes' = t
     /\ txn' = txn
     /\ IF Autocommit
        THEN committed' = [committed EXCEPT ![t] = @ + 1] /\ pend' = pend
        ELSE pend' = [pend EXCEPT ![t] = @ + 1] /\ committed' = committed
  \/ r \in {"BUSY", "CONSTRAINT"} /\ Unchanged
  \/ r = "FULL" /\ Discard

commit_step(t, r) ==
  \/ /\ r = "DONE" /\ ~Autocommit
     /\ committed' = [u \in Thread |-> committed[u] + pend[u]]
     /\ txn' = NoThread /\ pend' = Nothing /\ changes' = changes
  \/ r = "BUSY"  /\ ~Autocommit /\ Unchanged
  \/ r = "FULL"  /\ ~Autocommit /\ Discard
  \/ r = "ERROR" /\ Autocommit  /\ Unchanged

rollback_step(t, r) ==
  \/ r = "DONE"  /\ ~Autocommit /\ Discard
  \/ r = "ERROR" /\ Autocommit  /\ Unchanged

Step(t) ==
  /\ pc[t] = "step"
  /\ enters(t)
  /\ \E r \in Code :
       /\ \/ op[t] = "BEGIN"    /\ begin_step(t, r)
          \/ op[t] = "INSERT"   /\ insert_step(t, r)
          \/ op[t] = "COMMIT"   /\ commit_step(t, r)
          \/ op[t] = "ROLLBACK" /\ rollback_step(t, r)
       /\ err' = r
       /\ rc' = [rc EXCEPT ![t] = r]
       /\ pc' = [pc EXCEPT ![t] = IF r = "DONE" THEN "changes" ELSE "errcode"]
  /\ UNCHANGED <<connVars, op, out, code, n, scopeVars, calls>>

\* statement::step has failed: throw_error_code reads the connection's error
\* code, without the mutex.  Nothing is thrown for a success: step() then
\* answers false and execute() goes on as after the end.
ReadError(t) ==
  /\ pc[t] = "errcode"
  /\ IF silent(err)
     THEN pc' = [pc EXCEPT ![t] = "changes"] /\ out' = out
     ELSE /\ pc' = [pc EXCEPT ![t] = "construct"]
          /\ out' = [out EXCEPT ![t] = class_of(err)]
  /\ UNCHANGED <<connVars, err, dataVars, op, rc, code, n, scopeVars, calls>>

\* The constructor of the exception reads the error code a second time,
\* between two calls of sqlite3_errmsg, which enter the mutex.
Construct(t) ==
  /\ pc[t] = "construct"
  /\ enters(t)
  /\ code' = [code EXCEPT ![t] = err]
  /\ pc' = [pc EXCEPT ![t] = "finalize"]
  /\ UNCHANGED <<connVars, err, dataVars, op, rc, out, n, scopeVars, calls>>

\* execute() returns sqlite3_changes, read without the mutex.
ReadChanges(t) ==
  /\ pc[t] = "changes"
  /\ n' = [n EXCEPT ![t] = changes]
  /\ out' = [out EXCEPT ![t] = "returned"]
  /\ pc' = [pc EXCEPT ![t] = "finalize"]
  /\ UNCHANGED <<connVars, err, dataVars, op, rc, code, scopeVars, calls>>

\* The temporary statement is destroyed: sqlite3_finalize leaves the error of
\* the run it ends on the connection.
Finalize(t) ==
  /\ pc[t] = "finalize"
  /\ enters(t)
  /\ err' = IF rc[t] = "DONE" THEN "OK" ELSE rc[t]
  /\ EndExecute(t, out[t])
  /\ UNCHANGED <<connVars, dataVars, op, rc, out, code, n, calls>>

\* The destructor of a committed transaction does nothing.
EndScope(t) ==
  /\ pc[t] = "idle"
  /\ tx[t] = "commited"
  /\ tx' = [tx EXCEPT ![t] = "none"]
  /\ UNCHANGED <<connVars, err, dataVars, callVars, ins, acked, base, calls>>

----------------------------------------------------------------------------
Init ==
  /\ owner = NoThread /\ depth = 0
  /\ err = "OK" /\ changes = NoThread
  /\ txn = NoThread /\ pend = Nothing /\ committed = Nothing
  /\ pc = [t \in Thread |-> "idle"]
  /\ op = [t \in Thread |-> "INSERT"]
  /\ rc = [t \in Thread |-> "OK"]
  /\ out = [t \in Thread |-> "none"]
  /\ code = [t \in Thread |-> "OK"]
  /\ n = [t \in Thread |-> NoThread]
  /\ tx = [t \in Thread |-> "none"]
  /\ calls = Nothing /\ ins = Nothing /\ acked = Nothing /\ base = Nothing

\* The steps of a call that has begun.
Continue(t) == \/ Prepare(t) \/ ReadPrepareError(t) \/ Step(t) \/ ReadError(t)
               \/ Construct(t) \/ ReadChanges(t) \/ Finalize(t)

\* Any step of one thread.
Do(t) == Lock(t) \/ Unlock(t) \/ Call(t) \/ EndScope(t) \/ Continue(t)

Next == \E t \in Thread : Do(t)

Spec == Init /\ [][Next]_vars

\* A thread in a call is scheduled again as long as nothing blocks it.
FairSpec == Spec /\ \A t \in Thread : WF_vars(Continue(t))

----------------------------------------------------------------------------
(* Properties.                                                             *)

\* The types; the connection's mutex has an owner exactly while it has been
\* entered and not left as often (Mutex.cpp, lock and unlock).
TypeOK ==
  /\ owner \in Thread \cup {NoThread}
  /\ depth \in Nat
  /\ owner = NoThread <=> depth = 0
  /\ err \in Code
  /\ changes \in Thread \cup {NoThread}
  /\ txn \in Thread \cup {NoThread}
  /\ pend \in [Thread -> Nat]
  /\ committed \in [Thread -> Nat]
  /\ pc \in [Thread -> Where]
  /\ op \in [Thread -> Text]
  /\ rc \in [Thread -> Code]
  /\ out \in [Thread -> Class]
  /\ code \in [Thread -> Code]
  /\ n \in [Thread -> Thread \cup {NoThread}]
  /\ tx \in [Thread -> {"none", "open", "commited", "leaving"}]
  /\ calls \in [Thread -> Nat]
  /\ ins \in [Thread -> Nat]
  /\ acked \in [Thread -> Nat]
  /\ base \in [Thread -> Nat]

\* The call of t has ended.
Ended(t) == pc[t] = "idle" /\ out[t] # "none"

\* A guarded thread gets the outcome of its own call whatever the other threads
\* do: it returns when the engine said DONE, with its own count of changes,
\* throws otherwise, busy_exception for BUSY only, with the engine's code
\* (Statement.cpp, step and execute; Exception.cpp).
OutcomeIsMine ==
  \A t \in Guarded : Ended(t) =>
    /\ out[t] = "returned" <=> rc[t] = "DONE"
    /\ out[t] = "returned" /\ op[t] = "INSERT" => n[t] = t
    /\ out[t] # "returned" => out[t] = class_of(rc[t]) /\ code[t] = rc[t]

\* The transaction of a guarded thread holds nobody else's rows, so that its
\* commit() or its destructor decides about its own work only.
Isolation == \A t \in Guarded : txn = t => \A u \in Thread \ {t} : pend[u] = 0

\* Until commit() has run, no row of a guarded thread that was inserted in the
\* scope of its transaction object is in the database, so that leaving the
\* scope leaves nothing behind (Transaction.h: "Safely rollback the transaction
\* if it has not been commited").
NothingBeforeCommit ==
  \A t \in Guarded :
    tx[t] \in {"open", "leaving"} /\ (op[t] = "COMMIT" => pc[t] = "idle")
      => committed[t] = base[t]

\* When a guarded thread has no transaction object, no transaction of its own is
\* left open on the connection (Transaction.cpp, the destructor).
ScopeEndsTransaction ==
  \A t \in Guarded : tx[t] \in {"none", "commited"} /\ pc[t] = "idle" => txn # t

\* When every thread is guarded, no acknowledged row is ever missing from the
\* database (TestThreading.cpp: as many rows as the threads were told of).
AckedIsDurable == Guarded = Thread => \A t \in Thread : acked[t] <= committed[t]

\* When every thread is guarded and errors leave the scope, the threads' scopes are
\* transactions: what a thread inserts comes into the database at once, as a whole,
\* and is exactly what it is then told of, so that no row is half-committed, doubled,
\* or there without its thread knowing (Transaction.cpp, commit and the destructor).
LedgerOf == INSTANCE Ledger WITH rows <- committed, told <- acked
ScopesAreTransactions == LedgerOf!Spec

\* A guarded thread is never stuck inside a call: the mutex it holds is the one
\* its calls enter (Mutex.cpp, lock).
GuardedCallsEnd == \A t \in Guarded : pc[t] # "idle" ~> pc[t] = "idle"

\* What is left of a call: the more, the earlier in it.
Left == [w \in Where |-> CASE w = "idle"                       -> 0
                           [] w \in {"finalize", "prepare_error"} -> 1
                           [] w \in {"construct", "changes"}      -> 2
                           [] w = "errcode"                    -> 3
                           [] w = "step"                       -> 4
                           [] w = "prepare"                    -> 5]

\* The part of it that does not rest on fairness: inside a call a guarded thread is
\* let into the connection's mutex at every moment, no other thread moves it, and each
\* of its own steps takes it nearer to the end of the call (Mutex.cpp; Statement.cpp,
\* execute).
GuardedCallsAdvance ==
  [][\A t \in Guarded : pc[t] # "idle" =>
       /\ enters(t) /\ (pc'[t] # "idle" => enters(t)')
       /\ IF Do(t) THEN Left[pc'[t]] < Left[pc[t]] ELSE pc'[t] = pc[t]]_vars

\* What Statement.h says of step(), for every thread: an error is thrown.
ErrorsReachTheirCaller ==
  \A t \in Thread : Ended(t) /\ rc[t] # "DONE" => out[t] # "returned"
============================================================================
