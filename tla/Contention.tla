----------------------------- MODULE Contention -----------------------------
(***************************************************************************)
(* Clients with a dbconnection each on one database file, which run        *)
(* sqlite::transaction objects (Transaction.cpp) against each other, as    *)
(* the second half of TestThreading.cpp does.                              *)
(*                                                                         *)
(* A client increments the value in the file: it may SELECT it first, it   *)
(* UPDATEs it, and it commits.  On busy_exception it runs the scope again, *)
(* with a deferred transaction it calls commit() again; any other          *)
(* exception ends it.                                                      *)
(*                                                                         *)
(* The engine's locks on the file are external.  With a rollback journal a *)
(* reader holds SHARED, a writer RESERVED, and COMMIT needs EXCLUSIVE,     *)
(* while PENDING keeps new readers out; in WAL mode readers hold a         *)
(* snapshot, and locks nobody out.  A call that finds the file locked      *)
(* answers BUSY, after the connection's busy timeout when the engine can   *)
(* wait without a deadlock, which it cannot when the connection already    *)
(* reads.                                                                  *)
(*                                                                         *)
(* An operator named X_Y and defined just before X is a plausible mistake  *)
(* in the code X models; no definition uses it, mutation runs put it in    *)
(* the place of X.                                                         *)
(***************************************************************************)
EXTENDS Naturals

CONSTANTS
  Client,         \* the clients
  None,           \* no value
  MaxDone,        \* bound: transactions a client commits
  MaxExpired      \* bound: how often a busy timeout expires

ASSUME ContentionAssumption ==
  None \notin Nat /\ MaxDone \in Nat /\ MaxExpired \in Nat

VARIABLES
  \* The configuration, which does not change.
  wal,        \* the file is in WAL mode
  waits,      \* waits[c]: c's connection has a busy timeout
  type,       \* type[c]: the transactiontype that c uses
  keeps,      \* clients may keep a SELECT as it is after the first row
  \* The file.
  file,       \* the committed value
  lock,       \* lock[c]: the lock c's connection holds
  \* Each client's transaction.
  seen,       \* the value it has read, or None
  dirty,      \* the value it has written, or None
  reading,    \* its SELECT has returned a row and has not been reset
  pc,         \* where the client is
  err,        \* history: code and place of the last exception it caught
  done,       \* transactions committed
  expired     \* how often a busy timeout has expired

conf == <<wal, waits, type, keeps>>
vars == <<wal, waits, type, keeps, file, lock, seen, dirty, reading, pc, err, done, expired>>

transactiontype == {"deferred", "immediate", "exclusive"}
Lock == {"none", "shared", "reserved", "pending", "exclusive"}
Writing == {"reserved", "pending", "exclusive"}
Code == {"OK", "BUSY", "BUSY_SNAPSHOT", "CONSTRAINT", "FULL"}
Place == {"none", "begin", "read", "write", "upgrade", "commit"}
Where == {"idle", "beginning", "open", "committing", "commited", "leaving", "gone"}

----------------------------------------------------------------------------
(* The engine: locks and the busy timeout.                                 *)

CanShare(c)   == wal \/ \A d \in Client \ {c} : lock[d] \notin {"pending", "exclusive"}
CanReserve(c) == \A d \in Client \ {c} : lock[d] \notin Writing
Alone(c)      == wal \/ \A d \in Client \ {c} : lock[d] = "none"

\* The snapshot that c reads is the latest.
Latest(c) == seen[c] \in {None, file}

\* The transaction that c's connection is in: an automatic rollback ends it
\* before its object is gone.
InTransaction(c) == \/ pc[c] \in {"open", "committing"}
                    \/ pc[c] = "leaving" /\ err[c].code # "FULL"

\* The lock that is left when c's transaction ends: a SELECT under way keeps its.
rest(c) == IF reading[c] THEN "shared" ELSE "none"

\* A call that found the file locked returns: at once when nothing waits, else
\* when the timeout has expired.
StopsWaiting(waiting) ==
  \/ ~waiting /\ expired' = expired
  \/ waiting /\ expired < MaxExpired /\ expired' = expired + 1

----------------------------------------------------------------------------
(* The wrapper.                                                            *)

\* The constructors set a busy timeout, and open() on a default-constructed
\* object does not: any of the two was used.
timeouts == [Client -> BOOLEAN]

\* The SQL for each type, and the lock it takes at once.
kBegginings_OutOfOrder ==
  [t \in transactiontype |-> IF t = "immediate" THEN "BEGIN DEFERRED"
                            ELSE IF t = "deferred" THEN "BEGIN IMMEDIATE" ELSE "BEGIN EXCLUSIVE"]
kBegginings ==
  [t \in transactiontype |-> IF t = "deferred" THEN "BEGIN DEFERRED"
                            ELSE IF t = "immediate" THEN "BEGIN IMMEDIATE" ELSE "BEGIN EXCLUSIVE"]

begin_lock(c) == LET sql == kBegginings[type[c]] IN
                 IF sql = "BEGIN DEFERRED" THEN "none"
                 ELSE IF sql = "BEGIN IMMEDIATE" \/ wal THEN "reserved" ELSE "exclusive"

\* throw_error_code compares the extended code.
class_of_NeverBusy(code) == "exception"
class_of(code) == IF code = "BUSY" THEN "busy_exception" ELSE "exception"

\* A call has answered code; the client, which was at place, goes on at to.
Throws(c, code, place, to) ==
  /\ err' = [err EXCEPT ![c] = [code |-> code, at |-> place]]
  /\ pc' = [pc EXCEPT ![c] = to]

\* Where an exception takes a client that is not in a scope any more.
after_scope(code) == IF class_of(code) = "busy_exception" THEN "idle" ELSE "gone"

----------------------------------------------------------------------------
(* The constructor.                                                        *)

Opens(c, l) ==
  /\ lock' = [lock EXCEPT ![c] = l]
  /\ pc' = [pc EXCEPT ![c] = "open"]
  /\ UNCHANGED <<err, expired>>

\* It throws, and there is no object.
BeginBusy(c) ==
  /\ StopsWaiting(waits[c])
  /\ Throws(c, "BUSY", "begin", after_scope("BUSY"))
  /\ lock' = [lock EXCEPT ![c] = "none"]

\* BEGIN EXCLUSIVE waits for the readers behind PENDING.
BeginPending(c) ==
  /\ waits[c] /\ pc[c] = "idle"
  /\ lock' = [lock EXCEPT ![c] = "pending"]
  /\ pc' = [pc EXCEPT ![c] = "beginning"]
  /\ UNCHANGED <<err, expired>>

Begin(c) ==
  /\ pc[c] \in {"idle", "beginning"}
  /\ done[c] < MaxDone
  /\ ~reading[c]
  /\ \/ begin_lock(c) = "none" /\ Opens(c, "none")
     \/ begin_lock(c) = "reserved" /\ CanReserve(c) /\ Opens(c, "reserved")
     \/ begin_lock(c) = "exclusive" /\ CanReserve(c) /\ Alone(c) /\ Opens(c, "exclusive")
     \/ begin_lock(c) = "exclusive" /\ CanReserve(c) /\ ~Alone(c) /\ BeginPending(c)
     \/ begin_lock(c) = "exclusive" /\ CanReserve(c) /\ ~Alone(c) /\ BeginBusy(c)
     \/ begin_lock(c) # "none" /\ ~CanReserve(c) /\ BeginBusy(c)
  /\ UNCHANGED <<conf, file, seen, dirty, reading, done>>

----------------------------------------------------------------------------
(* In the scope.                                                           *)

\* An exception leaves the scope.
Refused(c, code, place) ==
  /\ Throws(c, code, place, "leaving")
  /\ UNCHANGED <<file, lock, seen, dirty, reading, done>>

\* SELECT of the value.
Read(c) ==
  /\ pc[c] = "open" /\ seen[c] = None /\ dirty[c] = None
  /\ \/ /\ lock[c] # "none" \/ CanShare(c)
        /\ lock' = [lock EXCEPT ![c] = IF @ = "none" THEN "shared" ELSE @]
        /\ seen' = [seen EXCEPT ![c] = file]
        /\ \E open \in {FALSE, keeps} : reading' = [reading EXCEPT ![c] = open]
        /\ UNCHANGED <<file, dirty, pc, err, done, expired>>
     \/ /\ lock[c] = "none" /\ ~CanShare(c)
        /\ StopsWaiting(waits[c])
        /\ Refused(c, "BUSY", "read")
  /\ UNCHANGED conf

\* UPDATE to one more than the value read, or than the value that is there.  The
\* engine does not wait for RESERVED when the connection has SHARED, and does not
\* let it write when its snapshot is old.
Write(c) ==
  /\ pc[c] = "open" /\ dirty[c] = None
  /\ \/ /\ CanReserve(c) /\ Latest(c) /\ (lock[c] # "none" \/ CanShare(c))
        /\ lock' = [lock EXCEPT ![c] = IF @ \in Writing THEN @ ELSE "reserved"]
        /\ dirty' = [dirty EXCEPT ![c] = (IF seen[c] = None THEN file ELSE seen[c]) + 1]
        /\ UNCHANGED <<file, seen, reading, pc, err, done, expired>>
     \/ /\ ~CanReserve(c)
        /\ StopsWaiting(waits[c] /\ lock[c] = "none")
        /\ Refused(c, "BUSY", IF lock[c] = "none" THEN "write" ELSE "upgrade")
     \/ /\ CanReserve(c) /\ ~Latest(c)
        /\ Refused(c, "BUSY_SNAPSHOT", "upgrade")
        /\ expired' = expired
     \/ Refused(c, "CONSTRAINT", "write") /\ expired' = expired
  /\ UNCHANGED conf

\* The SELECT is reset or its statement destroyed, which ends its hold on the
\* file when no transaction does it.
Release(c) ==
  /\ reading[c]
  /\ reading' = [reading EXCEPT ![c] = FALSE]
  /\ lock' = [lock EXCEPT ![c] = IF InTransaction(c) THEN @ ELSE "none"]
  /\ UNCHANGED <<conf, file, seen, dirty, pc, err, done, expired>>

----------------------------------------------------------------------------
(* commit().                                                               *)

\* What a client does about a busy_exception of commit():
\* table_insert_deferredtransaction_busy_exception calls it again, the two others
\* run the scope again.
after_busy_commit_NewScope(c) == "leaving"
after_busy_commit(c) == IF type[c] = "deferred" THEN "committing" ELSE "leaving"

\* What commit() leaves when COMMIT has answered BUSY: m_commited is not set.
unsure_Committed(c) == [done EXCEPT ![c] = @ + 1]
unsure(c) == done

CommitDone(c) ==
  /\ Alone(c)
  /\ file' = dirty[c]
  /\ lock' = [lock EXCEPT ![c] = rest(c)]
  /\ seen' = [seen EXCEPT ![c] = None]
  /\ dirty' = [dirty EXCEPT ![c] = None]
  /\ pc' = [pc EXCEPT ![c] = "commited"]
  /\ done' = [done EXCEPT ![c] = @ + 1]
  /\ UNCHANGED <<reading, err, expired>>

\* COMMIT waits for the readers behind PENDING, or answers BUSY and keeps it: the
\* transaction is still open.
CommitPending(c) ==
  /\ ~Alone(c)
  /\ lock' = [lock EXCEPT ![c] = IF @ = "exclusive" THEN @ ELSE "pending"]
  /\ \/ /\ waits[c]
        /\ pc' = [pc EXCEPT ![c] = "committing"]
        /\ UNCHANGED <<err, done, expired>>
     \/ /\ StopsWaiting(waits[c])
        /\ Throws(c, "BUSY", "commit", after_busy_commit(c))
        /\ done' = unsure(c)
  /\ UNCHANGED <<file, seen, dirty, reading>>

\* COMMIT fails in such a way that the engine rolls back by itself.
CommitFails(c) ==
  /\ Throws(c, "FULL", "commit", "leaving")
  /\ lock' = [lock EXCEPT ![c] = rest(c)]
  /\ seen' = [seen EXCEPT ![c] = None]
  /\ dirty' = [dirty EXCEPT ![c] = None]
  /\ UNCHANGED <<file, reading, done, expired>>

Commit(c) ==
  /\ pc[c] \in {"open", "committing"}
  /\ dirty[c] # None
  /\ CommitDone(c) \/ CommitPending(c) \/ CommitFails(c)
  /\ UNCHANGED conf

----------------------------------------------------------------------------
(* The destructor, and what the client does then.                          *)

\* Whether it executes ROLLBACK; the error of one that finds no transaction is
\* swallowed.
rolls_back_Never(c) == FALSE
rolls_back(c) == pc[c] = "leaving"

Unchanged(c) == UNCHANGED <<lock, seen, dirty>>
RollBack(c) == /\ lock' = [lock EXCEPT ![c] = rest(c)]
               /\ seen' = [seen EXCEPT ![c] = None]
               /\ dirty' = [dirty EXCEPT ![c] = None]

EndScope(c) ==
  /\ pc[c] \in {"commited", "leaving"}
  /\ IF rolls_back(c) THEN RollBack(c) ELSE Unchanged(c)
  /\ pc' = [pc EXCEPT ![c] = IF @ = "commited" THEN "idle" ELSE after_scope(err[c].code)]
  /\ UNCHANGED <<conf, file, reading, err, done, expired>>

----------------------------------------------------------------------------
Init ==
  /\ wal \in BOOLEAN
  /\ waits \in timeouts
  /\ type \in [Client -> transactiontype]
  /\ keeps \in BOOLEAN
  /\ file = 0
  /\ lock = [c \in Client |-> "none"]
  /\ seen = [c \in Client |-> None]
  /\ dirty = [c \in Client |-> None]
  /\ reading = [c \in Client |-> FALSE]
  /\ pc = [c \in Client |-> "idle"]
  /\ err = [c \in Client |-> [code |-> "OK", at |-> "none"]]
  /\ done = [c \in Client |-> 0]
  /\ expired = 0

Step(c) == Begin(c) \/ Read(c) \/ Write(c) \/ Release(c) \/ Commit(c) \/ EndScope(c)

\* A client has committed all it wanted to, or has given up.
Ended(c) == pc[c] = "gone" \/ (pc[c] = "idle" /\ done[c] = MaxDone)

Rest == (\A c \in Client : Ended(c) /\ ~reading[c]) /\ UNCHANGED vars

Next == (\E c \in Client : Step(c)) \/ Rest

Spec == Init /\ [][Next]_vars

\* Every client goes on with what it has to do; that a statement or a COMMIT fails for
\* a reason other than a lock is never owed.
Fails(c) == err'[c] # err[c] /\ err'[c].code \in {"CONSTRAINT", "FULL"}
Goes(c) == Step(c) /\ ~Fails(c)
FairSpec == Spec /\ \A c \in Client : WF_vars(Goes(c))

----------------------------------------------------------------------------
(* Properties.                                                             *)

Types ==
  /\ wal \in BOOLEAN
  /\ waits \in [Client -> BOOLEAN]
  /\ type \in [Client -> transactiontype]
  /\ keeps \in BOOLEAN
  /\ file \in Nat
  /\ lock \in [Client -> Lock]
  /\ seen \in [Client -> Nat \cup {None}]
  /\ dirty \in [Client -> Nat \cup {None}]
  /\ reading \in [Client -> BOOLEAN]
  /\ pc \in [Client -> Where]
  /\ err \in [Client -> [code : Code, at : Place]]
  /\ done \in [Client -> Nat]
  /\ expired \in Nat

\* The types; two connections never write at the same time, and a client outside a
\* scope has nothing in the file that waits for a decision.
TypeOK ==
  /\ Types
  /\ \A c, d \in Client : lock[c] \in Writing /\ lock[d] \in Writing => c = d
  /\ \A c \in Client : pc[c] \in {"idle", "gone"} => seen[c] = None /\ dirty[c] = None

\* No increment is lost, none happens twice or without its client knowing:
\* whatever the types, timeouts and retries, each commit() that returns is one
\* increment of the value, and nothing else changes it (Transaction.cpp, commit
\* and the destructor).
CounterOf == INSTANCE Counter WITH value <- file
NoLostUpdate == CounterOf!Spec

\* What the types promise (Transaction.h, transactiontype): once an immediate or
\* exclusive transaction has been constructed no call in its scope finds the file
\* locked, and commit() neither when it is exclusive.
TypePromise ==
  \A c \in Client : type[c] # "deferred" /\ err[c].code \in {"BUSY", "BUSY_SNAPSHOT"}
    => err[c].at \in {"begin", "commit"} /\ (type[c] = "exclusive" => err[c].at = "begin")

\* Where the timeout of the constructors does not help: as long as no timeout has
\* expired, a connection that has one gets busy_exception from a transaction that
\* reads before it writes and from no other (DBConnection.h: "before returning
\* sqlite::busy_exception").
BusyMeansTimeout ==
  \A c \in Client : waits[c] /\ expired = 0 /\ err[c].code = "BUSY"
    => type[c] = "deferred" /\ err[c].at = "upgrade"

\* A transaction object leaves no lock behind: outside the scopes of its
\* transactions, failed constructors included, a connection holds at most the lock
\* of a SELECT that has not been reset (Transaction.cpp, the destructor).
LocksEndWithScope ==
  \A c \in Client : pc[c] \in {"idle", "commited", "gone"} => lock[c] = rest(c)

\* Contention alone makes nobody give up: what a client that retries
\* busy_exception sees of it is busy_exception, except for a transaction in WAL
\* mode that reads before it writes (Exception.cpp, throw_error_code).
ContentionIsRetried ==
  \A c \in Client : pc[c] = "gone" =>
    \/ err[c].code \in {"CONSTRAINT", "FULL"}
    \/ err[c].code = "BUSY_SNAPSHOT" /\ wal /\ type[c] = "deferred"

\* c cannot go on before another client lets go of a lock: it waits, or it is told
\* BUSY and has to call again.  BEGIN and UPDATE want the right to write, and
\* BEGIN EXCLUSIVE and COMMIT the readers to go.
Blocked(c) ==
  \/ /\ pc[c] \in {"idle", "beginning"} /\ done[c] < MaxDone /\ ~reading[c]
     /\ \/ begin_lock(c) # "none" /\ ~CanReserve(c)
        \/ begin_lock(c) = "exclusive" /\ ~Alone(c)
  \/ pc[c] = "open" /\ dirty[c] = None /\ lock[c] = "none" /\ ~CanReserve(c)
  \/ pc[c] = "committing" /\ ~Alone(c)

\* c has nothing left to do.
AtRest(c) == Ended(c) /\ ~reading[c]

\* No deadlock, and no circle of calls that refuse each other: as long as somebody
\* has something to do, one of them needs nobody else's lock for it, whatever the
\* types and timeouts are and whoever keeps a SELECT (Transaction.cpp, the
\* constructor, commit and the destructor).
NoDeadlock ==
  \/ \A c \in Client : AtRest(c)
  \/ \E c \in Client : ~AtRest(c) /\ ~Blocked(c)

\* The retries end: when all connections have a timeout, and also without any when
\* all clients use the same type and none keeps a SELECT that has not been reset, as
\* in TestThreading.cpp, everyone commits all its transactions or gives up.
SameType == \A c, d \in Client : type[c] = type[d]
RetriesEnd == (\A c \in Client : waits[c]) \/ (SameType /\ ~keeps)
                => <>(\A c \in Client : Ended(c))
=============================================================================
