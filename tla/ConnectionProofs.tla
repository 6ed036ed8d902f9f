-------------------------- MODULE ConnectionProofs --------------------------
(***************************************************************************)
(* Theorems about Connection, for any numbers of objects, transactions,    *)
(* statements and connections.  The four properties are one inductive      *)
(* invariant: what is shared is open, what is borrowed is open, and what   *)
(* nobody shares is closed or refused.                                     *)
(***************************************************************************)
EXTENDS Connection, TLAPS

Inv == TypeOK /\ NothingDangles /\ ClosedUnlessRefused /\ TransactionHasItsObject

\* What a change of the shares must respect: h and s share open or new
\* connections, every new one is shared, and x is a state of the transactions.
Respects(h, s, new, x) ==
  /\ new \subseteq Connection
  /\ h \in [Object -> open \cup new \cup {Null, NoObject}]
  /\ s \in [Transaction -> open \cup new \cup {Null}]
  /\ x \in [Connection -> Transaction \cup {Null}]
  /\ \A c \in new : c \in fresh /\ owners(c, h, s) # {}

\* A change of the shares closes what nobody shares or borrows, and nothing else.
LEMMA ShareKeeps ==
  ASSUME Inv, NEW h, NEW s, NEW new, NEW x, Respects(h, s, new, x), Share(h, s, new, x),
         borrowed' = borrowed,
         fresh' \subseteq fresh \ new
  PROVE  /\ fresh' \subseteq Connection
         /\ open' \subseteq Connection \ fresh'
         /\ m_handle' \in [Object -> open' \cup {Null, NoObject}]
         /\ m_connection' \in [Transaction -> open' \cup {Null}]
         /\ txn' \in [Connection -> Transaction \cup {Null}]
         /\ refused' \subseteq Connection
         /\ NothingDangles'
         /\ ClosedUnlessRefused'
         /\ \A c \in Connection : txn'[c] = x[c] \/ (txn'[c] = Null /\ owners(c, h, s) = {})
<1> DEFINE dropped == {c \in Connection : /\ owners(c, m_handle, m_connection) # {}
                                          /\ owners(c, h, s) = {}}
           closed  == {c \in dropped : closes(c)}
<1>1. /\ m_handle' = h
      /\ m_connection' = s
      /\ open' = (open \cup new) \ closed
      /\ refused' = refused \cup (dropped \ closed)
      /\ txn' = [c \in Connection |-> IF c \in closed THEN Null ELSE x[c]]
  BY DEF Share
<1>2. \A c \in closed : c \in Connection /\ owners(c, h, s) = {} /\ closes(c)
  OBVIOUS
<1>3. fresh' \subseteq Connection /\ open' \subseteq Connection \ fresh'
  BY <1>1 DEF Inv, TypeOK, Respects
<1>4. m_handle' \in [Object -> open' \cup {Null, NoObject}]
  <2>1. \A d \in Object : h[d] \notin closed
    BY <1>2 DEF owners
  <2> QED
    BY <1>1, <2>1 DEF Respects
<1>5. m_connection' \in [Transaction -> open' \cup {Null}]
  <2>1. \A t \in Transaction : s[t] \notin closed
    BY <1>2 DEF owners
  <2> QED
    BY <1>1, <2>1 DEF Respects
<1>6. txn' \in [Connection -> Transaction \cup {Null}] /\ refused' \subseteq Connection
  BY <1>1 DEF Inv, TypeOK, Respects
<1>7. NothingDangles'
  <2>1. \A b \in Borrower : borrowed[b] \notin closed
    BY <1>2 DEF closes
  <2> QED
    BY <1>1, <2>1 DEF Inv, NothingDangles
<1>8. ClosedUnlessRefused'
  <2> SUFFICES ASSUME NEW c \in open', owners(c, h, s) = {}
               PROVE  c \in refused'
    BY <1>1 DEF ClosedUnlessRefused, owners
  <2>1. c \in open /\ c \in Connection
    BY <1>1 DEF Respects, Inv, TypeOK
  <2>2. CASE owners(c, m_handle, m_connection) = {}
    BY <1>1, <2>1, <2>2 DEF Inv, ClosedUnlessRefused
  <2>3. CASE owners(c, m_handle, m_connection) # {}
    BY <1>1, <2>1, <2>3
  <2> QED
    BY <2>2, <2>3
<1>9. \A c \in Connection : txn'[c] = x[c] \/ (txn'[c] = Null /\ owners(c, h, s) = {})
  BY <1>1, <1>2
<1> HIDE DEF dropped, closed
<1> QED
  BY <1>3, <1>4, <1>5, <1>6, <1>7, <1>8, <1>9

\* When only handles change, the transactions and their objects stay together.
LEMMA HandlesKeep ==
  ASSUME Inv, NEW h, NEW new, Respects(h, m_connection, new, txn),
         Share(h, m_connection, new, txn), fresh' \subseteq fresh \ new,
         UNCHANGED <<m_commited, borrowed, disturbed>>
  PROVE  Inv'
<1>1. m_connection' = m_connection
  BY DEF Share
<1>2. \A c \in Connection : txn'[c] = txn[c] \/ (txn'[c] = Null /\ owners(c, h, m_connection) = {})
  BY ShareKeeps
<1>3. \A c \in Connection : Uncommitted(c, m_connection, m_commited)' =
                            Uncommitted(c, m_connection, m_commited)
  BY <1>1 DEF Uncommitted
<1>4. \A c \in Connection : owners(c, h, m_connection) = {}
        => Uncommitted(c, m_connection, m_commited) = {}
  BY DEF owners, Uncommitted
<1>5. TransactionHasItsObject'
  BY <1>2, <1>3, <1>4 DEF Inv, TransactionHasItsObject
<1>6. TypeOK' /\ NothingDangles' /\ ClosedUnlessRefused'
  <2>1. /\ m_commited' \in [Transaction -> BOOLEAN]
        /\ borrowed' \in [Borrower -> Connection \cup {Null}]
        /\ disturbed' \subseteq Connection
    BY DEF Inv, TypeOK
  <2> QED
    BY <2>1, ShareKeeps DEF TypeOK
<1> QED
  BY <1>5, <1>6 DEF Inv

LEMMA InitInv == Init => Inv
BY NullAssumption DEF Init, Inv, TypeOK, NothingDangles, ClosedUnlessRefused,
     TransactionHasItsObject, Uncommitted

LEMMA ConstructInv ==
  ASSUME Inv, NEW d \in Object, Construct(d)
  PROVE  Inv'
<1>1. Respects([m_handle EXCEPT ![d] = Null], m_connection, {}, txn)
  BY DEF Inv, TypeOK, Respects
<1> QED
  BY <1>1, HandlesKeep DEF Construct, Handles

LEMMA CopyInv ==
  ASSUME Inv, NEW d \in Object, NEW other \in Object, Copy(d, other)
  PROVE  Inv'
<1>1. Respects([m_handle EXCEPT ![d] = m_handle[other]], m_connection, {}, txn)
  BY DEF Inv, TypeOK, Respects
<1> QED
  BY <1>1, HandlesKeep DEF Copy, Handles

LEMMA MoveInv ==
  ASSUME Inv, NEW d \in Object, NEW other \in Object, Move(d, other)
  PROVE  Inv'
<1>1. Respects([m_handle EXCEPT ![d] = m_handle[other], ![other] = Null], m_connection, {}, txn)
  BY DEF Inv, TypeOK, Respects
<1> QED
  BY <1>1, HandlesKeep DEF Move, Handles

LEMMA DestroyInv ==
  ASSUME Inv, NEW d \in Object, Destroy(d)
  PROVE  Inv'
<1>1. Respects([m_handle EXCEPT ![d] = NoObject], m_connection, {}, txn)
  BY DEF Inv, TypeOK, Respects
<1> QED
  BY <1>1, HandlesKeep DEF Destroy, Handles

\* open() that succeeds shares the connection it has made, one that fails makes
\* none.
LEMMA OpenInv ==
  ASSUME Inv, NEW d \in Object, Open(d)
  PROVE  Inv'
<1>1. PICK c \in fresh :
        /\ fresh' = fresh \ {c}
        /\ \/ Share([m_handle EXCEPT ![d] = c], m_connection, {c}, txn)
           \/ Share(m_handle, m_connection, failed_open(c), txn)
  BY DEF Open, Opened
<1>2. UNCHANGED <<m_commited, borrowed, disturbed>>
  BY DEF Open
<1>3. CASE Share([m_handle EXCEPT ![d] = c], m_connection, {c}, txn)
  <2>1. d \in owners(c, [m_handle EXCEPT ![d] = c], m_connection)
    BY DEF owners, Inv, TypeOK
  <2>2. Respects([m_handle EXCEPT ![d] = c], m_connection, {c}, txn)
    BY <2>1 DEF Inv, TypeOK, Respects
  <2> QED
    BY <1>1, <1>2, <1>3, <2>2, HandlesKeep
<1>4. CASE Share(m_handle, m_connection, failed_open(c), txn)
  <2>1. Respects(m_handle, m_connection, {}, txn)
    BY DEF Inv, TypeOK, Respects
  <2> QED
    BY <1>1, <1>2, <1>4, <2>1, HandlesKeep DEF failed_open
<1> QED
  BY <1>1, <1>3, <1>4

LEMMA BorrowReturnInv ==
  ASSUME Inv, NEW b \in Borrower, Return(b) \/ \E d \in Object : Borrow(b, d)
  PROVE  Inv'
<1>1. /\ UNCHANGED <<m_handle, m_connection, m_commited, fresh, open, txn, refused, disturbed>>
      /\ \E c \in open \cup {Null} : borrowed' = [borrowed EXCEPT ![b] = c]
  BY NullAssumption DEF Return, Borrow, Inv, TypeOK
<1>2. TypeOK'
  BY <1>1 DEF Inv, TypeOK
<1>3. NothingDangles'
  BY <1>1 DEF Inv, TypeOK, NothingDangles
<1>4. ClosedUnlessRefused'
  BY <1>1 DEF Inv, ClosedUnlessRefused, owners
<1>5. TransactionHasItsObject'
  BY <1>1 DEF Inv, TransactionHasItsObject, Uncommitted
<1> QED
  BY <1>2, <1>3, <1>4, <1>5 DEF Inv

\* BEGIN finds the connection in no transaction, and so with no object of one.
LEMMA BeginInv ==
  ASSUME Inv, NEW t \in Transaction, NEW d \in Object, Begin(t, d)
  PROVE  Inv'
<1> DEFINE c == m_handle[d]
           s == [m_connection EXCEPT ![t] = c]
           x == [txn EXCEPT ![c] = t]
<1>1. c \in open /\ c \in Connection
  BY NullAssumption DEF Begin, Inv, TypeOK
<1>2. Respects(m_handle, s, {}, x)
  BY <1>1 DEF Inv, TypeOK, Respects
<1>3. Share(m_handle, s, {}, x) /\ UNCHANGED <<borrowed, fresh, disturbed>>
  BY DEF Begin
<1>4. /\ m_commited' = [m_commited EXCEPT ![t] = FALSE]
      /\ m_connection[t] = Null
      /\ txn[c] = Null
  BY DEF Begin
<1>5. m_connection' = s
  BY <1>3 DEF Share
<1>6. \A e \in Connection : txn'[e] = x[e] \/ (txn'[e] = Null /\ owners(e, m_handle, s) = {})
  <2>1. fresh' \subseteq fresh \ {} /\ borrowed' = borrowed
    BY <1>3
  <2> HIDE DEF s, x
  <2> QED
    BY <1>2, <1>3, <2>1, ShareKeeps
<1>7. TypeOK' /\ NothingDangles' /\ ClosedUnlessRefused'
  <2>1. /\ m_commited' \in [Transaction -> BOOLEAN]
        /\ borrowed' \in [Borrower -> Connection \cup {Null}]
        /\ disturbed' \subseteq Connection
    BY <1>3, <1>4 DEF Inv, TypeOK
  <2> QED
    BY <1>2, <1>3, <2>1, ShareKeeps DEF TypeOK
<1>8. TransactionHasItsObject'
  <2> SUFFICES ASSUME NEW e \in Connection
               PROVE  /\ txn'[e] # Null => txn'[e] \in Uncommitted(e, m_connection, m_commited)'
                      /\ e \notin disturbed => \A u \in Uncommitted(e, m_connection, m_commited)' :
                                                 txn'[e] = u
    BY <1>3 DEF TransactionHasItsObject
  <2>1. owners(e, m_handle, s) = {} => Uncommitted(e, m_connection, m_commited)' = {}
    BY <1>5 DEF owners, Uncommitted
  <2>2. CASE e = c
    <3>1. t \in Uncommitted(e, m_connection, m_commited)' /\ x[e] = t
      BY <1>1, <1>4, <1>5, <2>2 DEF Uncommitted, Inv, TypeOK
    <3>2. \A u \in Uncommitted(e, m_connection, m_commited)' \ {t} :
             u \in Uncommitted(e, m_connection, m_commited)
      BY <1>4, <1>5 DEF Uncommitted, Inv, TypeOK
    <3>3. e \notin disturbed => Uncommitted(e, m_connection, m_commited) \subseteq {Null}
      BY <1>4, <2>2 DEF Inv, TransactionHasItsObject
    <3>4. Null \notin Transaction
      BY NullAssumption
    <3>5. Uncommitted(e, m_connection, m_commited) \subseteq Transaction
      BY DEF Uncommitted
    <3>6. e \notin disturbed => Uncommitted(e, m_connection, m_commited)' = {t}
      BY <3>1, <3>2, <3>3, <3>4, <3>5
    <3>7. txn'[e] = t
      BY <1>6, <2>1, <3>1
    <3> QED
      BY <3>1, <3>6, <3>7
  <2>3. CASE e # c
    <3>1. x[e] = txn[e]
      BY <2>3 DEF Inv, TypeOK
    <3>2. Uncommitted(e, m_connection, m_commited)' = Uncommitted(e, m_connection, m_commited)
      BY <1>4, <1>5, <2>3, NullAssumption DEF Uncommitted, Inv, TypeOK
    <3> QED
      BY <1>6, <2>1, <3>1, <3>2 DEF Inv, TransactionHasItsObject
  <2> QED
    BY <2>2, <2>3
<1> QED
  BY <1>7, <1>8 DEF Inv

\* commit(): the transaction that ends is the object's own, unless the engine has
\* interfered.
LEMMA CommitInv ==
  ASSUME Inv, NEW t \in Transaction, Commit(t)
  PROVE  Inv'
<1> DEFINE c == m_connection[t]
<1>1. c \in open /\ c \in Connection
  BY DEF Commit, Inv, TypeOK
<1>2. /\ ~m_commited[t]
      /\ txn' = [txn EXCEPT ![c] = Null]
      /\ m_commited' = [m_commited EXCEPT ![t] = TRUE]
      /\ disturbed' = StillDisturbed(m_connection, m_commited')
      /\ UNCHANGED <<m_handle, m_connection, borrowed, fresh, open, refused>>
  BY DEF Commit
<1>3. TypeOK' /\ NothingDangles' /\ ClosedUnlessRefused'
  <2>1. TypeOK'
    BY <1>1, <1>2 DEF Inv, TypeOK, StillDisturbed
  <2>2. NothingDangles'
    BY <1>2 DEF Inv, NothingDangles
  <2>3. ClosedUnlessRefused'
    BY <1>2 DEF Inv, ClosedUnlessRefused, owners
  <2> QED
    BY <2>1, <2>2, <2>3
<1>4. TransactionHasItsObject'
  <2> SUFFICES ASSUME NEW e \in Connection
               PROVE  /\ txn'[e] # Null => txn'[e] \in Uncommitted(e, m_connection, m_commited)'
                      /\ e \notin disturbed' => \A u \in Uncommitted(e, m_connection, m_commited)' :
                                                  txn'[e] = u
    BY DEF TransactionHasItsObject
  <2>1. Uncommitted(e, m_connection, m_commited)' =
          Uncommitted(e, m_connection, m_commited) \ {t}
    BY <1>2 DEF Uncommitted, Inv, TypeOK
  <2>2. e \in disturbed /\ e \notin disturbed' => Uncommitted(e, m_connection, m_commited)' = {}
    BY <1>2 DEF StillDisturbed, Uncommitted
  <2>3. CASE e = c
    <3>1. t \in Uncommitted(e, m_connection, m_commited)
      BY <1>2, <2>3 DEF Uncommitted
    <3>2. e \notin disturbed => Uncommitted(e, m_connection, m_commited) = {t}
      BY <3>1 DEF Inv, TransactionHasItsObject
    <3>3. txn'[e] = Null
      BY <1>1, <1>2, <2>3 DEF Inv, TypeOK
    <3> QED
      BY <2>1, <2>2, <3>2, <3>3
  <2>4. CASE e # c
    <3>1. txn'[e] = txn[e]
      BY <1>2, <2>4 DEF Inv, TypeOK
    <3>2. t \notin Uncommitted(e, m_connection, m_commited)
      BY <2>4 DEF Uncommitted
    <3> QED
      BY <2>1, <2>2, <3>1, <3>2 DEF Inv, TransactionHasItsObject
  <2> QED
    BY <2>3, <2>4
<1> QED
  BY <1>3, <1>4 DEF Inv

\* The destructor: the transaction it rolls back is the object's own, unless the
\* engine has interfered, and only then is the object's share given up.
LEMMA EndInv ==
  ASSUME Inv, NEW t \in Transaction, End(t)
  PROVE  Inv'
<1> DEFINE c == m_connection[t]
           s == [m_connection EXCEPT ![t] = Null]
           x == IF rolls_back(t) THEN [txn EXCEPT ![c] = Null] ELSE txn
<1>1. c \in open /\ c \in Connection
  BY DEF End, Inv, TypeOK
<1>2. Respects(m_handle, s, {}, x)
  BY <1>1 DEF Inv, TypeOK, Respects
<1>3. /\ Share(m_handle, s, {}, x)
      /\ disturbed' = StillDisturbed(m_connection', m_commited)
      /\ UNCHANGED <<m_commited, borrowed, fresh>>
  BY DEF End
<1>4. m_connection' = s
  BY <1>3 DEF Share
<1>5. \A e \in Connection : txn'[e] = x[e] \/ (txn'[e] = Null /\ owners(e, m_handle, s) = {})
  <2>1. fresh' \subseteq fresh \ {} /\ borrowed' = borrowed
    BY <1>3
  <2> HIDE DEF s, x
  <2> QED
    BY <1>2, <1>3, <2>1, ShareKeeps
<1>6. TypeOK' /\ NothingDangles' /\ ClosedUnlessRefused'
  <2>1. /\ m_commited' \in [Transaction -> BOOLEAN]
        /\ borrowed' \in [Borrower -> Connection \cup {Null}]
        /\ disturbed' \subseteq Connection
        /\ fresh' \subseteq fresh \ {}
    BY <1>3 DEF Inv, TypeOK, StillDisturbed
  <2> HIDE DEF s, x
  <2> QED
    BY <1>2, <1>3, <2>1, ShareKeeps DEF TypeOK
<1>7. TransactionHasItsObject'
  <2> SUFFICES ASSUME NEW e \in Connection
               PROVE  /\ txn'[e] # Null => txn'[e] \in Uncommitted(e, m_connection, m_commited)'
                      /\ e \notin disturbed' => \A u \in Uncommitted(e, m_connection, m_commited)' :
                                                  txn'[e] = u
    BY DEF TransactionHasItsObject
  <2>1. Uncommitted(e, m_connection, m_commited)' =
          Uncommitted(e, m_connection, m_commited) \ {t}
    BY <1>3, <1>4, NullAssumption DEF Uncommitted, Inv, TypeOK
  <2>2. e \in disturbed /\ e \notin disturbed' => Uncommitted(e, m_connection, m_commited)' = {}
    BY <1>3 DEF StillDisturbed, Uncommitted
  <2>3. owners(e, m_handle, s) = {} => Uncommitted(e, m_connection, m_commited)' = {}
    BY <1>4 DEF owners, Uncommitted
  <2>4. CASE e = c /\ ~m_commited[t]
    <3>1. t \in Uncommitted(e, m_connection, m_commited)
      BY <2>4 DEF Uncommitted
    <3>2. e \notin disturbed => Uncommitted(e, m_connection, m_commited) = {t}
      BY <3>1 DEF Inv, TransactionHasItsObject
    <3>3. x[e] = Null
      BY <1>1, <2>4 DEF rolls_back, Inv, TypeOK
    <3>4. txn'[e] = Null
      BY <1>5, <3>3
    <3> QED
      BY <2>1, <2>2, <3>2, <3>4
  <2>5. CASE ~(e = c /\ ~m_commited[t])
    <3>1. x[e] = txn[e]
      BY <2>5 DEF rolls_back, Inv, TypeOK
    <3>2. t \notin Uncommitted(e, m_connection, m_commited)
      BY <2>5 DEF Uncommitted
    <3>3. txn'[e] = txn[e] \/ (txn'[e] = Null /\ Uncommitted(e, m_connection, m_commited)' = {})
      BY <1>5, <2>3, <3>1
    <3> QED
      BY <2>1, <2>2, <3>2, <3>3 DEF Inv, TransactionHasItsObject
  <2> QED
    BY <2>4, <2>5
<1> QED
  BY <1>6, <1>7 DEF Inv

LEMMA EngineRollsBackInv ==
  ASSUME Inv, NEW c \in Connection, EngineRollsBack(c)
  PROVE  Inv'
<1>1. /\ txn' = [txn EXCEPT ![c] = Null]
      /\ disturbed' = disturbed \cup {c}
      /\ UNCHANGED <<m_handle, m_connection, m_commited, borrowed, fresh, open, refused>>
  BY DEF EngineRollsBack
<1>2. TypeOK'
  BY <1>1 DEF Inv, TypeOK
<1>3. NothingDangles'
  BY <1>1 DEF Inv, NothingDangles
<1>4. ClosedUnlessRefused'
  BY <1>1 DEF Inv, ClosedUnlessRefused, owners
<1>5. TransactionHasItsObject'
  BY <1>1 DEF Inv, TypeOK, TransactionHasItsObject, Uncommitted
<1> QED
  BY <1>2, <1>3, <1>4, <1>5 DEF Inv

LEMMA NextInv == Inv /\ [Next]_vars => Inv'
<1> SUFFICES ASSUME Inv, [Next]_vars
             PROVE  Inv'
  OBVIOUS
<1>1. CASE UNCHANGED vars
  BY <1>1 DEF vars, Inv, TypeOK, NothingDangles, ClosedUnlessRefused,
     TransactionHasItsObject, owners, Uncommitted
<1>2. CASE \E d \in Object : Construct(d) \/ Open(d) \/ Destroy(d)
  BY <1>2, ConstructInv, OpenInv, DestroyInv
<1>3. CASE \E d, other \in Object : Copy(d, other) \/ Move(d, other)
  BY <1>3, CopyInv, MoveInv
<1>4. CASE \E b \in Borrower : Return(b) \/ \E d \in Object : Borrow(b, d)
  BY <1>4, BorrowReturnInv
<1>5. CASE \E t \in Transaction : \/ Commit(t) \/ End(t)
                                  \/ \E d \in Object : Begin(t, d)
  BY <1>5, CommitInv, EndInv, BeginInv
<1>6. CASE \E c \in Connection : EngineRollsBack(c)
  BY <1>6, EngineRollsBackInv
<1> QED
  BY <1>1, <1>2, <1>3, <1>4, <1>5, <1>6 DEF Next

LEMMA Invariance == Spec => []Inv
BY InitInv, NextInv, PTL DEF Spec

----------------------------------------------------------------------------
\* What a dbconnection or a transaction object shares is open, for any number of
\* copies, moves, openings and destructions (DBConnection.cpp).
THEOREM TypeCorrect == Spec => []TypeOK
<1>1. Inv => TypeOK
  BY DEF Inv
<1> QED
  BY <1>1, Invariance, PTL

\* A statement or a backup never points into a closed connection, although it
\* owns no share of it (DBConnection.cpp, open; Statement.h and Backup.h,
\* m_handle).
THEOREM BorrowedStaysOpen == Spec => []NothingDangles
<1>1. Inv => NothingDangles
  BY DEF Inv
<1> QED
  BY <1>1, Invariance, PTL

\* The only connections that leak are those whose closing the engine refused, and
\* a failed open() leaves none (DBConnection.cpp, open).
THEOREM OnlyRefusedLeaks == Spec => []ClosedUnlessRefused
<1>1. Inv => ClosedUnlessRefused
  BY DEF Inv
<1> QED
  BY <1>1, Invariance, PTL

\* However transaction objects are nested and whatever becomes of the objects they
\* were made from, each ends its own transaction and no other, unless the engine
\* has ended one by itself (Transaction.cpp).
THEOREM TransactionsAreOwn == Spec => []TransactionHasItsObject
<1>1. Inv => TransactionHasItsObject
  BY DEF Inv
<1> QED
  BY <1>1, Invariance, PTL
=============================================================================
