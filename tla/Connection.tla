----------------------------- MODULE Connection -----------------------------
(***************************************************************************)
(* Who keeps an engine's connection open: sqlite::dbconnection             *)
(* (src/src/DBConnection.h, DBConnection.cpp) and what is made from one,   *)
(* in one thread.                                                          *)
(*                                                                         *)
(* dbconnection objects share a sqlite3 through a shared_ptr whose deleter *)
(* is sqlite3_close, and a transaction holds a dbconnection of its own.    *)
(* Statements and backups hold pointers into the connection and no share:  *)
(* what keeps it alive under them is that sqlite3_close refuses, and its   *)
(* answer is lost.                                                         *)
(*                                                                         *)
(* One action is one call of the public interface that changes something.  *)
(* A null handle is refused by the engine, and so is a BEGIN inside a      *)
(* transaction: both throw and leave all as it was.                        *)
(*                                                                         *)
(* An operator named X_Y and defined just before X is a plausible mistake  *)
(* in the code X models; no definition uses it, mutation runs put it in    *)
(* the place of X.                                                         *)
(***************************************************************************)
EXTENDS FiniteSets

CONSTANTS
  Object,         \* places of dbconnection objects
  Transaction,    \* places of transaction objects
  Borrower,       \* statements, and backups that read from a connection
  Connection,     \* the engine's connections that may be opened
  Null,           \* no connection, no transaction object
  NoObject        \* the place holds no dbconnection

ASSUME NullAssumption ==
  /\ Null \notin Connection \cup Transaction
  /\ NoObject \notin Connection \cup {Null}

VARIABLES
  m_handle,       \* m_handle[d]: the connection d shares, Null, or NoObject
  m_connection,   \* m_connection[t]: the share of the transaction object t, or Null
  m_commited,     \* m_commited[t]: the flag of the same name
  borrowed,       \* borrowed[b]: the connection b points into, or Null
  fresh,          \* connections never opened so far
  open,           \* connections opened and not closed
  txn,            \* txn[c]: the object whose BEGIN opened c's transaction, or Null
  refused,        \* history: sqlite3_close(c) has been refused
  disturbed       \* history: the engine has ended a transaction of c by itself
                  \* and an object that was there has neither committed nor gone

vars == <<m_handle, m_connection, m_commited, borrowed, fresh, open, txn,
          refused, disturbed>>

Exists(d) == m_handle[d] # NoObject

\* Transaction objects of c whose destructor will still roll back.
Uncommitted(c, shares, flags) == {t \in Transaction : shares[t] = c /\ ~flags[t]}

----------------------------------------------------------------------------
(* The shares of a connection and the end of the last one.                 *)

\* Those that share c when the handles are h and the transactions' shares s.
\* The constructor of a transaction copies the dbconnection it is given.
owners_NoCopy(c, h, s) == {d \in Object : h[d] = c}
owners(c, h, s) == {d \in Object : h[d] = c} \cup {t \in Transaction : s[t] = c}

\* The deleter: whether c is closed when its last owner goes.
closes_Anyway(c) == TRUE
closes(c) == \A b \in Borrower : borrowed[b] # c

(***************************************************************************)
(* The handles become h and the transactions' shares s, when new have been *)
(* opened and x is what has become of the transactions.  Closing a         *)
(* connection rolls its transaction back.                                  *)
(***************************************************************************)
Share(h, s, new, x) ==
  LET dropped == {c \in Connection : /\ owners(c, m_handle, m_connection) # {}
                                     /\ owners(c, h, s) = {}}
      closed  == {c \in dropped : closes(c)}
  IN  /\ m_handle' = h
      /\ m_connection' = s
      /\ open' = (open \cup new) \ closed
      /\ refused' = refused \cup (dropped \ closed)
      /\ txn' = [c \in Connection |-> IF c \in closed THEN Null ELSE x[c]]

\* Only handles of dbconnection objects change.
Handles(h) ==
  /\ Share(h, m_connection, {}, txn)
  /\ UNCHANGED <<m_commited, borrowed, fresh, disturbed>>

----------------------------------------------------------------------------
(* dbconnection.                                                           *)

\* dbconnection().
Construct(d) ==
  /\ ~Exists(d)
  /\ Handles([m_handle EXCEPT ![d] = Null])

\* sqlite3_open_v2 makes a connection even when it fails; open() closes it then.
failed_open_Kept(c) == {c}
failed_open(c) == {}

\* open(filename): on success the object leaves the connection it shared, on
\* failure it keeps it.
Opened(d, c) ==
  \/ Share([m_handle EXCEPT ![d] = c], m_connection, {c}, txn)
  \/ Share(m_handle, m_connection, failed_open(c), txn)

\* open(), and the constructors and memory() that call it; a constructor that
\* fails leaves no object.
Open(d) ==
  /\ \E c \in fresh : fresh' = fresh \ {c} /\ Opened(d, c)
  /\ UNCHANGED <<m_commited, borrowed, disturbed>>

\* dbconnection(other) and operator=(other).
Copy(d, other) ==
  /\ Exists(other) /\ d # other
  /\ Handles([m_handle EXCEPT ![d] = m_handle[other]])

\* The same from an rvalue, which keeps nothing.
Move(d, other) ==
  /\ Exists(other) /\ d # other
  /\ Handles([m_handle EXCEPT ![d] = m_handle[other], ![other] = Null])

\* ~dbconnection().
Destroy(d) ==
  /\ Exists(d)
  /\ Handles([m_handle EXCEPT ![d] = NoObject])

----------------------------------------------------------------------------
(* Statements and backups.                                                 *)

\* statement::prepare on d, or a backup that reads from d; a statement that b
\* held is finalized.
Borrow(b, d) ==
  /\ m_handle[d] \in Connection
  /\ borrowed' = [borrowed EXCEPT ![b] = m_handle[d]]
  /\ UNCHANGED <<m_handle, m_connection, m_commited, fresh, open, txn, refused, disturbed>>

\* ~statement, ~backup.
Return(b) ==
  /\ borrowed[b] # Null
  /\ borrowed' = [borrowed EXCEPT ![b] = Null]
  /\ UNCHANGED <<m_handle, m_connection, m_commited, fresh, open, txn, refused, disturbed>>

----------------------------------------------------------------------------
(* transaction objects, several of which may be nested.                    *)

\* Connections on which a disturbance lasts.
StillDisturbed(s, flags) == {c \in disturbed : Uncommitted(c, s, flags) # {}}

\* The constructor: a copy of the dbconnection, then BEGIN.
Begin(t, d) ==
  /\ m_connection[t] = Null
  /\ m_handle[d] \in Connection
  /\ txn[m_handle[d]] = Null
  /\ Share(m_handle, [m_connection EXCEPT ![t] = m_handle[d]], {},
           [txn EXCEPT ![m_handle[d]] = t])
  /\ m_commited' = [m_commited EXCEPT ![t] = FALSE]
  /\ UNCHANGED <<borrowed, fresh, disturbed>>

\* commit(), called once: COMMIT ends whatever transaction the connection is in.
Commit(t) ==
  LET c == m_connection[t] IN
  /\ c # Null
  /\ ~m_commited[t]
  /\ txn[c] # Null
  /\ txn' = [txn EXCEPT ![c] = Null]
  /\ m_commited' = [m_commited EXCEPT ![t] = TRUE]
  /\ disturbed' = StillDisturbed(m_connection, m_commited')
  /\ UNCHANGED <<m_handle, m_connection, borrowed, fresh, open, refused>>

(***************************************************************************)
(* ~transaction: ROLLBACK, of whatever transaction the connection is in,   *)
(* unless commit() has run; then the copy of the dbconnection goes.        *)
(***************************************************************************)
rolls_back_Always(t) == TRUE
rolls_back(t) == ~m_commited[t]

End(t) ==
  LET c == m_connection[t] IN
  /\ c # Null
  /\ Share(m_handle, [m_connection EXCEPT ![t] = Null], {},
           IF rolls_back(t) THEN [txn EXCEPT ![c] = Null] ELSE txn)
  /\ disturbed' = StillDisturbed(m_connection', m_commited)
  /\ UNCHANGED <<m_commited, borrowed, fresh>>

\* A statement fails in such a way (SQLITE_FULL, SQLITE_IOERR) that the engine
\* rolls the whole transaction back.
EngineRollsBack(c) ==
  /\ txn[c] # Null
  /\ txn' = [txn EXCEPT ![c] = Null]
  /\ disturbed' = disturbed \cup {c}
  /\ UNCHANGED <<m_handle, m_connection, m_commited, borrowed, fresh, open, refused>>

----------------------------------------------------------------------------
Init ==
  /\ m_handle = [d \in Object |-> NoObject]
  /\ m_connection = [t \in Transaction |-> Null]
  /\ m_commited = [t \in Transaction |-> FALSE]
  /\ borrowed = [b \in Borrower |-> Null]
  /\ fresh = Connection
  /\ open = {}
  /\ txn = [c \in Connection |-> Null]
  /\ refused = {}
  /\ disturbed = {}

Next ==
  \/ \E d \in Object : Construct(d) \/ Open(d) \/ Destroy(d)
  \/ \E d, other \in Object : Copy(d, other) \/ Move(d, other)
  \/ \E b \in Borrower : Return(b) \/ \E d \in Object : Borrow(b, d)
  \/ \E t \in Transaction : \/ Commit(t) \/ End(t)
                            \/ \E d \in Object : Begin(t, d)
  \/ \E c \in Connection : EngineRollsBack(c)

Spec == Init /\ [][Next]_vars

----------------------------------------------------------------------------
(* Properties.                                                             *)

\* The types; however dbconnection objects are copied, moved, opened again and
\* destroyed, what an object or a transaction shares is open (DBConnection.cpp).
TypeOK ==
  /\ fresh \subseteq Connection
  /\ open \subseteq Connection \ fresh
  /\ m_handle \in [Object -> open \cup {Null, NoObject}]
  /\ m_connection \in [Transaction -> open \cup {Null}]
  /\ m_commited \in [Transaction -> BOOLEAN]
  /\ borrowed \in [Borrower -> Connection \cup {Null}]
  /\ txn \in [Connection -> Transaction \cup {Null}]
  /\ refused \subseteq Connection
  /\ disturbed \subseteq Connection

\* Statements and backups own no share, and still the connection they point into
\* is open, whatever has become of the objects they were made from
\* (DBConnection.cpp, open: the deleter is sqlite3_close, which refuses).
NothingDangles == \A b \in Borrower : borrowed[b] # Null => borrowed[b] \in open

\* A connection that nobody shares is closed, also one that could not be opened
\* properly, except after a refusal, whose answer is lost (DBConnection.cpp,
\* open).
ClosedUnlessRefused ==
  \A c \in open : owners(c, m_handle, m_connection) = {} => c \in refused

\* A transaction of the engine always has its transaction object, which will end
\* it, and that object finds it open until commit(), also when all objects it
\* was made from are gone, unless the engine has interfered (Transaction.h,
\* m_connection; Transaction.cpp, the destructor).
TransactionHasItsObject ==
  /\ \A c \in Connection : txn[c] # Null => txn[c] \in Uncommitted(c, m_connection, m_commited)
  /\ \A c \in Connection \ disturbed :
       \A t \in Uncommitted(c, m_connection, m_commited) : txn[c] = t
=============================================================================
