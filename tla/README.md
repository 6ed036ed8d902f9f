# SQLiteXX in TLA+

SQLiteXX is a C++ wrapper around SQLite: header templates and a few `.cpp`
files under `src/src/`. Most of what can go wrong in it is not in any one
function but in the protocol between the wrapper's flags and handles and the
engine's own state, and in what threads that share a connection may do between
two calls of the engine. This directory models that protocol, checks it with
TLC and proves the main results with TLAPS.

The engine is external. Each call of it is modelled by the set of answers it
may give and the state it leaves, as the wrapper relies on it (SQLite 3.16.2,
the version `src/cmake/External_SQLite3.cmake` fetches).

## Inventory

| component | state | operations | what is hard |
|---|---|---|---|
| `statement`, `row_iterator` (`Statement.h/.cpp`) | `m_handle`, `m_done`, the iterator's `m_statement` | construct, `prepare`, `step`, `execute`, `bind*`, `bind_all`, `clear_bindings`, `reset`, destroy, `begin`, `++`; free `execute`, `execute_callback` | `m_done` shadows the engine's own state across mixed and failing calls; noexcept iterators over a throwing `step` |
| exceptions (`Exception.h/.cpp`) | none of their own; the connection's last error code | `throw_error_code`, the constructors | the code is read after the call that set it, twice, without a lock |
| `transaction` (`Transaction.h/.cpp`) | `m_commited`; the engine's transaction | construct (BEGIN), `commit`, destroy (ROLLBACK) | failures of each of the three; errors after which the engine rolls back by itself; other threads on the connection |
| transactions of several connections (`Transaction`, `DBConnection`) | the engine's locks on the file; the busy timeout | BEGIN of the three types, SELECT, UPDATE, COMMIT, ROLLBACK, the clients' retries | which call may find the file locked, when waiting helps, what a refused COMMIT leaves |
| `mutex` (`Mutex.h/.cpp`) | the connection's recursive mutex | `lock`, `try_lock`, `unlock` | the engine enters the same mutex in its calls |
| `backup`, `save` (`Backup.h/.cpp`) | `m_handle`, `m_destination`; the engine's backup | construct, `step`, counters, destroy, `save` | the source changes between steps; where the error of a step is found |
| SQL functions (`Functions.h`, `DBConnection.h`) | the object registered, its accumulator | `create_*`, `internal_step`, `internal_final`, `internal_dispose`, the scalar and collation trampolines | one accumulator for all uses; who deletes the object; exceptions under C frames |
| `dbconnection` (`DBConnection.h/.cpp`) | a `shared_ptr<sqlite3>` | open, copy, move, `mutex`, `row_id`, `profile` | `sqlite3_close` refuses while statements live and its answer is lost; `open` sets no busy timeout |
| `blob`, `value` (`Blob`, `Value`) | owned memory or `sqlite3_value` | construct, copy, move, destroy, conversions | who owns a duplicate; conversions in place; the size a moved-from blob keeps |
| `reader`, `row` (`Statement.h`) | none; the engine's cell, converted in place | typed getters by index or name | the order of asking for data and length; noexcept getters by name over a lookup that throws |
| open flags (`Open.h`, `SQLiteEnums.h`) | none | the operators on `openmode` | `^` and `~` are not what their names say |

How they interact: every statement, transaction and backup borrows the
`sqlite3*` of a `dbconnection`; a transaction is three calls of
`sqlite::execute`, each of which is a temporary statement that is prepared,
stepped and finalized; every failure goes through `throw_error_code`, which asks
the connection, not the call, what went wrong; the engine calls the user's
functions back from inside `sqlite3_step`. Threads share a connection by
copying the `dbconnection`, and the mutex is the engine's own.

What makes each one correct: a statement never skips a row, never runs twice,
never hides an error; a call's outcome is that of the call, also with other
threads on the connection; a transaction object's scope is atomic and ends the
engine's transaction; acknowledged rows stay; each commit() that returns is one atomic
change of the file, whoever else writes, and retries end; a backup's destination is
always a whole copy; an aggregate's result is made of its group's rows; what is read is
what was bound; every duplicate and every registered object has one owner.

Every hazard found in the survey is listed in `PROJECT.json` at the line where
it bites, with the properties that cover it or the reason none does yet.

## Modules

| module | models | |
|---|---|---|
| `Statement` | `statement`, `row_iterator`, `execute`, `execute_callback`, one thread | one action per public call |
| `Cursor` | what a prepared statement promises; `Statement` implements it | |
| `StatementProofs` | theorems about `Statement`, among them that it implements `Cursor` | |
| `SharedConnection` | threads on one connection: `mutex`, `transaction`, `execute`, `throw_error_code` | one action per engine call |
| `Ledger` | what transactions promise to the threads that share a database; `SharedConnection` implements it | |
| `SharedConnectionProofs` | theorems about `SharedConnection`, among them that it implements `Ledger` | |
| `Backup` | `backup`, `save` | one action per public call |
| `Copy` | what a backup promises; `Backup` implements it | |
| `BackupProofs` | theorems about `Backup`, among them that it implements `Copy` | |
| `Aggregate` | aggregates, scalar functions and collations written in C++ | one action per registration or engine callback |
| `AggregateProofs` | theorems about `Aggregate` | |
| `Contention` | `transaction` objects of several connections on one file | one action per engine call and its outcome |
| `Counter` | what transactions promise; `Contention` implements it | |
| `ContentionProofs` | theorems about `Contention`, among them that it implements `Counter` | |
| `Values` | `value`, `blob`, the getters of `reader` and `row`, `bind` as the source of data | one action per public call |
| `ValuesProofs` | theorems about `Values` | |
| `Connection` | `dbconnection` and what is made from one: who keeps the engine's connection open | one action per public call |
| `ConnectionProofs` | theorems about `Connection` | |
| `MC*` | small instances of the above | |

In every module an operator called `X_Y`, just before `X`, is a plausible
mistake in the code that `X` models. Nothing uses it; substituting it for `X`
must break a property, and `PROJECT.json` ("mutants") says which.

### Statement

`m_handle[s]` is the sqlite3_stmt of object `s` (`NULL`, or a record with its
status, the rows emitted, the completed runs and the error of its run),
`m_done[s]` the flag, `m_statement[s]` how many iterators over `s` are not at
the end (they share the one statement: any of them may take the next row). `step(h, done)` is the body of `statement::step`; `Step`, `Execute`,
`IterBegin`, `IterNext` and `ExecuteText` all go through it, as in the code.
`ret` is how the last call ended (a return, an exception class, or the death of
the process: a failed assertion, an exception leaving a noexcept iterator,
`++` past the end, `clear_bindings` or, after a step that was skipped,
`execute` on a null handle) together with the engine's answer; `seen` is
the number of rows handed out. Values bound and columns read are abstracted away:
binding is its answer (too late, out of range, fine).

`Cursor` is what a prepared statement promises: its rows one by one, then once that
there are no more, and a new beginning only by `reset`, another text or after an
error. `ObjectsAreCursors` is `Cursor!Spec` with `given <- seen` and `ended <- m_done`,
so that it is `m_done`, and not the engine, which restarts a finished program at the next
step, that must say the end.

`PrepareOnce` is the discipline of the tests: an object is not prepared again
while it holds a statement. Without it the documented meaning of `step()` fails
(finding `statement_reprepare`).

### SharedConnection

In serialized mode an engine call enters the connection's recursive mutex and is
atomic, so each is one action (`Prepare`, `Step`, `Construct`, `Finalize`); the
reads of the last error code (`ReadPrepareError`, `ReadError`) and of the change
count (`ReadChanges`) do not enter it. `pc[t]` is where thread `t` is between
two of them. The constructor, `commit()` and destructor of a transaction are
`execute` of BEGIN, COMMIT and ROLLBACK followed by what they do with the
outcome (`after_begin`, `after_commit`, `after_rollback`). Threads in `Guarded`
do what `TestThreading.cpp` does: a `lock_guard` encloses the transaction
object. The others call whenever they like, and may lock or not.

`LeaveOnError` says that an exception other than `busy_exception` leaves the
scope of the transaction object (the natural use of RAII); `busy_exception` may
be caught and retried in the scope. `NoMemory` lets allocations of the engine
fail; every run sets it to FALSE, and the theorems about scopes assume it: a
ROLLBACK that runs out of memory leaves the transaction open, and the destructor
swallows the exception. FULL stands for every error after which SQLite rolls back
by itself.

`Ledger` is what transactions promise: the rows of a thread come into the database in
one step, all or none, and it is told of exactly those before any other of its rows
comes. `ScopesAreTransactions` is `Ledger!Spec` with `rows <- committed` and
`told <- acked`. It is stronger than `AckedIsDurable`, which does not mind a row that is there
without its thread knowing when the next one comes.

### Backup

`work` is the destination's open transaction, `destination` what is committed.
`sqlite3_backup_step` copies pages and, with the last, commits; a write to the
source restarts the copy (another connection, an in-memory source) or is
repeated on the copied pages (the source's own connection). A step that fails
leaves no error on any connection; `sqlite3_backup_finish` does, which is why
the order in `backup::step` matters. That connection is found through a pointer to
the caller's object: `m_destination` is what is in it, the destination or, after
`Reassign`, another connection by its last error code; then a failure can be taken
for the end, or get the wrong class, and `DoneMeansCopied` and `FailureIsRaised` say
exactly when. `Copy` is the promise: the destination
changes only by becoming the whole source; `CopiesWhole` is `Copy!Spec` under
the identity mapping of `source` and `destination`.

### Aggregate

`function` and `collation` are the objects that the registered function and collation
have, `live` those that are allocated: an `aggregate_wrapper`, or a copy of the
user's function. The engine refuses a replacement while a statement is active, and
may refuse any registration; for a function it then deletes the new object itself,
for a collation it does not, and `leaked` remembers those. A registration may come
from inside a function that the engine is calling.

A query is one SELECT that groups rows, a statement or a subquery. `Enter(s)` begins a
group of it, also while groups of others are open: those of a statement that steps it
from inside a function, or of the query it is a subquery of. `nested` is how many groups
are open, one inside the other, and `level[s]` where `s` is among them; only the innermost
goes on (`In`). It leaves with its last `reset()`, with the last call of a scalar
function for a row, or by an error (`Fail`). `turn[s]` is the use that is called next,
for each row one after the other; a use of distinct values may be passed over (`Skip`).

`m_implementation` counts the rows of each use that the object of an aggregate holds,
`fed` the rows the use was really given in its group. `finalize` and `reset` are two
actions, because the user's `finalize()` may throw between them or step a statement.
Because the wrapper never asks for `sqlite3_aggregate_context`, the engine does not call
`internal_final` after an error, and the rows of an abandoned group stay in the object.

`ResultOfOwnRows` says of a group when its result is right: when the object is its own.
Then the first use to be finalized has the rows of all uses and the others find the
object reset; no row is lost, doubled or taken from another group, however the groups of
statements follow each other between. It is not its own, and the property says nothing,
when the group began with rows of an abandoned one in the object (`dirty`), or when a group
around it or inside it has rows there (`tainted`). That is not caution: in
`SELECT f(s) FROM (SELECT f(v) AS s FROM t GROUP BY k)` each inner group takes what the
outer one has gathered and resets it, and the outer result holds only what came since.
Without the taint that `Enter` gives, TLC finds such a group. A scalar function keeps
nothing and is always right. That two uses of one query see different rows is the finding
`aggregate_two_uses`.

### Connection

`m_handle[d]` is the engine's connection that the object in place `d` shares,
`m_connection[t]` the copy a transaction object holds, `borrowed[b]` the connection
a statement, or a backup as its source, points into without a share. `Share` is
what a change of the shares does: a connection that loses its last owner goes
through the deleter, `sqlite3_close`, which closes it, rolling back, or refuses.
`refused` remembers a refusal, which the code does not. Several transaction objects
may be nested on one connection; `EngineRollsBack` is an error after which the
engine ends a transaction by itself, and `disturbed` remembers it for as long as an
object that was there lives uncommitted, because COMMIT and ROLLBACK then reach
whatever transaction the connection is in. `commit()` is called once per object.

### Contention

Each client has a connection of its own to one file and increments the value in it
in `transaction` objects of one type, as the second half of `TestThreading.cpp`
does. `wal`, `waits`, `type` and `keeps` are the configuration, chosen in `Init`:
rollback journal or WAL, which connections have a busy timeout (the constructors set
one, `open()` does not), the types, and whether a client may leave a SELECT
unreset. `lock[c]` is SQLite's lock of `c`'s connection; `CanShare`, `CanReserve` and
`Alone` say when it can be taken. A call that cannot take its lock answers BUSY at
once when there is no timeout, or when waiting could deadlock (the connection
already reads), and otherwise waits, or expires, at most `MaxExpired` times.
Taking the locks of one call is atomic but for PENDING, which a COMMIT or a BEGIN
EXCLUSIVE that waits keeps (`CommitPending`, `BeginPending`). `pc[c]` is where the
client is; `after_busy_commit` is what the tests do after a refused `commit()`: the
scope again, or with a deferred transaction `commit()` again. Crashes and journal
recovery are left out: the wrapper has no code for them.

`Counter` is an atomic counter with what each client knows to have committed;
`NoLostUpdate` is `Counter!Spec` with `value <- file`.
`class_of` makes a `busy_exception` of BUSY and a plain exception of BUSY_SNAPSHOT.
BUSY_RECOVERY, the third code of its kind, is answered only after a writer has crashed.

### Values

A parameter is bound (`BindNumber`, `BindText`, `BindBytes`, `BindBlob`), an INSERT
stores it (`content`: a parameter that is bound statically is what the buffer holds
then), and a SELECT returns it. A cell is what it is of, the encoding of the text in
it, whether it has been read as a blob, and whether its bytes are lost: the engine
converts in place. `row` is the current row's cell; `handle[v]` the duplicate
(`sqlite3_value_dup`) that value object `v` owns; a blob object is the length of its
data and its size, which differ after a move. `stopped` is how a program ends: an
exception that leaves a noexcept getter, the assertion of `blob(data, size)` (the build
has assertions on by default), or undefined behaviour of an object that
has been moved from. Contents are a type and a length; two encodings, both
encodings of the database, and columns whose name is ambiguous or missing are
covered. The program fills its table before it reads. It does not move an object to itself, which
two assertions forbid, and no allocation fails: a `sqlite3_value_dup` without memory would
leave a null handle as a move does.

## Runs

| run | instance | shows |
|---|---|---|
| `statement_lifecycle` | 2 objects, a SQL text of each kind, up to 2 values, 2 iterators each, errors BUSY and CONSTRAINT, assertions off | the properties of `Statement` under `PrepareOnce`, among them the refinement of `Cursor` |
| `statement_reprepare` | 1 object, prepared again | finding: `step()` returns false without running the new statement |
| `shared_guarded` | 2 guarded threads, 2 INSERTs each, lock depth 2, symmetric | scopes are atomic and end, and the database is a ledger of whole scopes |
| `shared_mixed` | 1 guarded thread and 1 that never needs the lock, 1 INSERT each | the guarded thread's outcomes and transaction are its own, its calls go forward only and end |
| `shared_lost_error` | 2 unguarded threads | finding: a failed `execute()` returns normally |
| `connection_lifetime` | 3 dbconnections, 2 transactions, 2 statements or backups, 3 engine connections, symmetric | what is used is open, what is unused is closed or refused, each transaction is ended by its own object |
| `backup_copy` | 3 pages, 2 contents, errors BUSY and READONLY, the destination's object reassigned | whole copies only, no failure taken for the end while the object is the destination, `save()` copies |
| `backup_reuse` | same, the only error is BUSY | finding: `step()` after a failed `step()` dereferences null |
| `aggregate_sharing` | 2 queries, nested or not, one with 2 uses of which one is DISTINCT, 2 rows a group, failures, 3 objects, symmetric | the registered objects, and those of refused collations, are alive and no others; a group that has the object to itself gets the result of its own rows |
| `aggregate_two_uses` | same, no DISTINCT, 1 row a group | finding: same inputs, different results |
| `contention_retry` | 2 clients, 2 commits each, every type, timeout and journal mode | no increment is lost, the types and timeouts keep their promise, no lock is left, no circle of refusals, the retries end |
| `values_data` | 2 value and 2 blob objects, 3 duplicates, lengths 0 and 1, symmetric | what is read is what was bound; one owner per duplicate; whole blobs |

The bounds. Statement: two rows are enough for "first, middle, end" and two
objects for what crosses objects (the connection's change count); `MaxRuns`
stops the count of complete runs at 2, since one too many is already a
violation; `MaxIterators` 2 lets one iterator take the row another waits for.
SharedConnection: two threads are enough for one to run inside any
gap of the other's call; two INSERTs let a transaction hold one row while the
next one fails; `MaxDepth` 2 is a nested lock. Backup: with three pages a copy
can be before, inside and after a page that changes, and the source can be
shorter or longer than what was copied. Connection: three
places let two objects exchange connections while a third keeps or drops a share;
three engine connections let an object be opened again twice. Aggregate: two queries are
what alternating and nesting need, either inside the other; more of them only nest deeper,
and the proof covers those. `MaxHeld` bounds what abandoned and nested groups may have in
the object: 4 is room for a whole group of two uses, or for one group inside another;
`MaxLeaked` bounds the refused collations; a third
object is what replaces the function while a collation is there. Contention: two
clients are what every lock conflict needs, two commits let one start over while
the other is inside, and `MaxExpired` is 1 because a timeout that may expire without
end makes no promise of progress. Values: two objects of each kind are what a copy or a
move needs, and a third duplicate lets an assignment make one before it frees
another; length 0 is the boundary of `blob`. The proofs remove these bounds, except where
liveness is concerned: objects, rows, threads, INSERTs, lock depths, connections,
clients, pages, contents and lengths are arbitrary.

`CHECK_DEADLOCK FALSE` is said only where the process may really be dead (a failed
assertion, `std::terminate`, a null dereference, the undefined behaviour of a moved-from object).
In SharedConnection, Connection, Aggregate and Contention deadlock is checked.

Fairness. `FairSpec` assumes weak fairness of `Continue(t)`: a thread that is
inside a call and not blocked is scheduled again. Nothing is assumed of
programs: they need not call, unlock or commit. `GuardedCallsEnd` therefore
speaks of guarded threads only, which hold the mutex their calls enter; a thread
that does not hold it may wait for ever for one that does.

`Contention!FairSpec` assumes weak fairness of `Goes(c)`, each client's step but for
those that fail with an error other than a lock: its thread is scheduled, and the
clients are those of the tests, which go on until they are done. Failures such as
CONSTRAINT and FULL may come at any time and are never owed: a fairness that owed them
would let an error free clients that block each other. Which of two clients takes a free
lock is left open, so that `RetriesEnd` does not rest on the scheduler choosing well.
It is stated for connections that all have a
timeout, which expires at most `MaxExpired` times: that is what it means that locks
are held for less than the timeout; and for clients without any that use the same
type and reset their SELECTs, as the tests do. For the others it fails:
a SELECT that another client has not reset, or scopes of another type that it begins
again and again, may be in the way of a COMMIT each time it is tried.

## What is proved

All theorems hold for every value of the constants, under the named assumptions.

* `StatementProofs!NeverRunTwice`, `ResetAlwaysRearms`: no discipline needed. The
  invariant is `Base`: `Good(h, done)` says that a program that has run to its end
  once has `m_done` set, and that one whose run failed has not. The second half is
  what makes `reset()` right when `sqlite3_reset` answers with the old error and
  the assignment to `m_done` is skipped.
* `StatementProofs!TypeCorrect`, `NoRowIsSkipped`: for `PrepareOnce = TRUE`. `Armed`
  ties `m_done` and the rows handed out to the engine's status; it is exactly what
  `prepare` on a finished object breaks.
* `StatementProofs!StatementsAreCursors`: the refinement of `Cursor`, for `PrepareOnce`.
  `SteppedCursor` shows once what a step is in `Cursor` (a row, the end, a restart by an
  error or nothing), and each call is a sum of those.
* `StatementProofs!RefusalsAreRaised`, `ChangesAreOwn`: no discipline needed. `StepSays`
  lists the engine's answers to a step with what the wrapper makes of each, and `Says` is
  the property for one answer and one outcome; each call is then a look at that list.
* `SharedConnectionProofs!TypeCorrect`, `OutcomesAreOwn`: for any threads, guarded or
  not. `CallInv` says that a guarded thread owns the mutex from its first call to the
  end of its scope and that, between two engine calls of its own, `err` and
  `changes` still hold its own answer.
* `GuardedCallsAreNotBlocked`: for any threads. It is the part of `GuardedCallsEnd` that
  does not rest on fairness: inside a call of a guarded thread the mutex always lets
  it in, each of its steps lowers the rank `Left`, and no step of another thread
  raises it.
* `TransactionsAreIsolated`, `ScopesEnd`: when no allocation fails. `ScopeInv` says
  that the engine's transaction and the object begin and end together.
* `ScopesAreAtomic`: when moreover errors leave the scope (`OpenInv`).
* `AcknowledgedRowsStay`: when all threads are guarded and no allocation fails
  (`DurableInv` accounts for rows acknowledged but not yet committed).
* `ScopesImplementLedger`: the refinement of `Ledger`, when all threads are guarded, no
  allocation fails and errors leave the scope. `Exact` says of each thread where its rows
  are: acknowledged, in the database but not yet told of, or pending in its scope.

* `ConnectionProofs!TypeCorrect`, `BorrowedStaysOpen`, `OnlyRefusedLeaks`,
  `TransactionsAreOwn`: no assumption. The four properties together are inductive;
  `ShareKeeps` proves once what every change of the shares keeps.

* `ContentionProofs!TypeCorrect`, `TypesKeepTheirPromise`, `OnlyUpgradesDoNotWait`,
  `ContentionIsRetriedAlways`, `NoLockIsLeftBehind`, `NeverDeadlocked`, `NoUpdateIsLost`: no
  assumption. The invariant has a part about each client (`Own`: what it is about to write is one more
  than what is in the file, its lock is what its place and type call for) and one
  about each two (`Compatible`: no two write, nobody is beside an exclusive lock). The
  last theorem is the refinement of `Counter`. `NeverDeadlocked` needs no count of the
  clients: if somebody holds the right to write, it is not blocked or a reader keeps it from
  committing, and a reader is never blocked (`WriterOrReaderGoesOn`, `ReaderGoesOn`).
* `ValuesProofs!TypeCorrect`, `DuplicatesHaveOneOwner`, `ContentsSurvive`, `BlobsAreWhole`,
  `BreakingNeedsAMove`: the five together are inductive. `WhatIsBoundIsStored` follows from
  the types, `ReadingGivesTheStored` needs `RowIsStored`: an undisturbed row still is the
  stored content.
* `BackupProofs!TypeCorrect`, `CopiesAreWhole`, `FailuresAreRaised`, `DoneIsCopied`,
  `SavesAreComplete`. `Progress` says that the pages before the next one are the source's,
  however it changes; with the last page the copy is then the whole source
  (`EngineStep`). `Ended` says that a backup that has answered "no more pages" copies none
  again. `CopiesAreWhole` is the refinement of `Copy`.
* `AggregateProofs!TypeCorrect`, `OnlyRefusedCollationsLeak`, `ResultsAreOwn`: any number
  of queries, nested as deep as one likes. `Nesting` says that the open groups are at
  different levels, so that one is innermost; `Sharing` that a group inside another one that
  has rows in the object is tainted; `Accumulated` what the object holds: nothing when no
  group has rows in it and none was abandoned, and the rows of an untainted group alone
  when it has any, in which case it is the innermost. When an inner group is over, an untainted
  one around it had no rows in the object, and finds it empty again.

The assumptions on the constants of Statement and SharedConnection are not decoration:
`statement_reprepare` drops `PrepareOnce` and `shared_lost_error` the mutex, and each
property falls. Atomicity of a scope would fall without `LeaveOnError`: a program that
goes on in the scope after an error such as FULL, which the engine answers with a
rollback of its own, inserts outside any transaction.

Each proof has the same shape: a lemma that the initial states satisfy the
invariant, one that each action preserves it, one that it implies the property,
and a temporal step.

Only model-checked: liveness (`GuardedCallsEnd`, `RetriesEnd`), which is beyond the prover.
What of it does not need fairness is proved: `GuardedCallsAreNotBlocked` for the first,
`NeverDeadlocked` for the second; that a client which is not `Blocked` has a step is a
statement about ENABLED and is left to the deadlock check and `RetriesEnd`. Every other
property of a passing run is a theorem.

Only proved: `AckedIsDurable`, of which `ScopesAreTransactions` says more where both hold
(its theorem needs no `LeaveOnError`), and `OnlyMovedFromBreaks`. `FalseMeansNoMoreRows` is
checked by the run that refutes it without `PrepareOnce`; with it `ObjectsAreCursors` says the
same of every object at every moment.

## Not modelled, and the plan

1. The text and the code of an error raised by a user's function: the trampolines pass
   the exception's code where the engine expects the length of the text
   (`Functions.h:222`). Here such an error is the failure of the query.
2. Numeric conversions: `get_uint` and `as_uint` cut 64 bits to 32. `Values` has one
   abstract type of number.

Left out for good:

* open flags (`Open.h`): pure operators on an enumeration without state; a model of them
  would repeat the text of `operator|` and its kin, and has no hazard of its own beyond a
  name that misleads (`^` is a bitwise or, `~` the identity).
* `profile()`, `row_id()` and `handle()` of dbconnection: they keep no state in the
  wrapper. This is why dbconnection is listed as partly modelled.
* a collation or a callback that throws through the engine's C frames: `DBConnection.h`
  says of the first that the result is unknown, and so would the model's be.
* a statement that a function resets, prepares, destroys or steps again while it is
  inside its own step: SQLite leaves it undefined. Stepping another statement from a
  function is modelled (`Aggregate`).
* an iterator that outlives its statement, and allocation failures outside
  `SharedConnection` (`sqlite3_value_dup`, `std::bad_alloc`).
* a mutex object, a row or a backup's `m_destination` that outlives what it points to:
  undefined from the first use.
* crashes, journals and recovery, SQL itself and the B-tree: the engine's, and the
  wrapper has no code for them; message texts, UTF conversions, the build files and the
  tests (the latter are read for what client programs do).
