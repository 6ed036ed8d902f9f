-------------------------- MODULE ContentionProofs --------------------------
(***************************************************************************)
(* Theorems about Contention, for any number of clients, any configuration *)
(* and any bounds: it implements Counter, the types keep their promise,    *)
(* no lock is left behind and the locks never hold everybody up.           *)
(*                                                                         *)
(* The invariant has a part about each client alone (Own), which says that *)
(* what it will write is one more than what is in the file, and a part     *)
(* about each two (Compatible), which says that nobody can change the file *)
(* under it.                                                               *)
(***************************************************************************)
EXTENDS Contention, TLAPS

OutOfTransaction(c) == \/ pc[c] \in {"idle", "beginning", "commited", "gone"}
                       \/ (pc[c] = "leaving" /\ err[c].code = "FULL")

\* What is read and written belongs to a transaction and is current.
Current(c) ==
  /\ OutOfTransaction(c) => seen[c] = None /\ dirty[c] = None
  /\ dirty[c] # None => lock[c] \in Writing /\ dirty[c] = file + 1
  /\ seen[c] # None => lock[c] # "none" /\ (wal \/ seen[c] = file)
  /\ lock[c] \in Writing => Latest(c)
  /\ lock[c] = "exclusive" => ~wal

\* The lock is the one that the place of c and its type call for.
Held(c) ==
  /\ pc[c] \in {"idle", "commited", "gone"} => lock[c] = rest(c)
  /\ reading[c] => lock[c] # "none" /\ pc[c] # "beginning"
  /\ pc[c] \in {"beginning", "committing"} => lock[c] \in Writing
  /\ pc[c] \in {"open", "committing"} /\ type[c] # "deferred" => lock[c] \in Writing
  /\ pc[c] \in {"open", "committing"} /\ type[c] = "exclusive" /\ ~wal
       => lock[c] = "exclusive"

\* What c has been told fits its type and its timeout.
Promise(c) ==
  /\ type[c] # "deferred" /\ err[c].code \in {"BUSY", "BUSY_SNAPSHOT"}
       => err[c].at \in {"begin", "commit"} /\ (type[c] = "exclusive" => err[c].at = "begin")
  /\ err[c].code = "BUSY_SNAPSHOT" => wal /\ type[c] = "deferred"
  /\ waits[c] /\ expired = 0 /\ err[c].code = "BUSY"
       => type[c] = "deferred" /\ err[c].at = "upgrade"
  /\ pc[c] = "leaving" => err[c].code # "OK"
  /\ pc[c] = "gone" => err[c].code \in {"BUSY_SNAPSHOT", "CONSTRAINT", "FULL"}

Own(c) == Current(c) /\ Held(c) /\ Promise(c)

Compatible(c, d) ==
  /\ ~(lock[c] \in Writing /\ lock[d] \in Writing)
  /\ lock[c] = "exclusive" => lock[d] = "none"

Inv ==
  /\ Types
  /\ \A c \in Client : Own(c)
  /\ \A c, d \in Client : c # d => Compatible(c, d)

USE DEF Inv

\* A step of c that changes nothing of another client and not the file.
LEMMA OthersKeep ==
  ASSUME Inv, NEW c \in Client, NEW d \in Client \ {c}, UNCHANGED <<conf, file>>,
         lock'[d] = lock[d], seen'[d] = seen[d], dirty'[d] = dirty[d],
         reading'[d] = reading[d], pc'[d] = pc[d], err'[d] = err[d],
         expired = 0 \/ expired' # 0
  PROVE  Own(d)'
BY DEF Own, Current, Held, Promise, OutOfTransaction, Latest, rest, conf

\* Only c's lock changes, to one that the others' locks admit.
LEMMA LocksKeep ==
  ASSUME Inv, NEW c \in Client, NEW l \in Lock, lock' = [lock EXCEPT ![c] = l],
         l \in Writing => CanReserve(c),
         l # "none" => \A d \in Client \ {c} : lock[d] # "exclusive",
         l = "exclusive" => \A d \in Client \ {c} : lock[d] = "none"
  PROVE  \A d, e \in Client : d # e => Compatible(d, e)'
BY DEF Types, Compatible, CanReserve, Writing, Lock

LEMMA InitInv == Init => Inv
BY ContentionAssumption
DEF Init, Types, Own, Current, Held, Promise, OutOfTransaction, Compatible, Latest, rest,
    timeouts, Lock, Writing, Where, Code, Place

LEMMA BeginInv ==
  ASSUME Inv, NEW c \in Client, Begin(c)
  PROVE  Inv'
<1>1. /\ pc[c] \in {"idle", "beginning"} /\ ~reading[c]
      /\ seen[c] = None /\ dirty[c] = None
  BY DEF Begin, Own, Current, OutOfTransaction
<1>2. PICK l \in Lock \ {"shared"} :
        /\ lock' = [lock EXCEPT ![c] = l]
        /\ l \in Writing => CanReserve(c)
        /\ l = "exclusive" => Alone(c) /\ ~wal
        /\ \/ /\ pc' = [pc EXCEPT ![c] = "open"] /\ err' = err
              /\ type[c] # "deferred" => l \in Writing
              /\ type[c] = "exclusive" /\ ~wal => l = "exclusive"
           \/ pc' = [pc EXCEPT ![c] = "beginning"] /\ err' = err /\ l = "pending"
           \/ /\ pc' = [pc EXCEPT ![c] = "idle"] /\ l = "none"
              /\ err' = [err EXCEPT ![c] = [code |-> "BUSY", at |-> "begin"]]
              /\ waits[c] => expired' # 0
  <2>1. begin_lock(c) = IF type[c] = "deferred" THEN "none"
                        ELSE IF type[c] = "immediate" \/ wal THEN "reserved" ELSE "exclusive"
    <3>1. \/ type[c] = "deferred" /\ kBegginings[type[c]] = "BEGIN DEFERRED"
          \/ type[c] = "immediate" /\ kBegginings[type[c]] = "BEGIN IMMEDIATE"
          \/ type[c] = "exclusive" /\ kBegginings[type[c]] = "BEGIN EXCLUSIVE"
      BY DEF kBegginings, Types, transactiontype
    <3> QED
      BY <3>1 DEF begin_lock
  <2>2. CASE Opens(c, begin_lock(c)) /\ (begin_lock(c) # "none" => CanReserve(c))
                                    /\ (begin_lock(c) = "exclusive" => Alone(c))
    <3>1. begin_lock(c) \in Lock \ {"shared"}
      BY <2>1 DEF Lock
    <3> QED
      BY <2>1, <2>2, <3>1 DEF Opens, Lock, Writing, Types, transactiontype
  <2>3. CASE BeginPending(c) /\ CanReserve(c)
    <3> USE DEF Lock
    <3> WITNESS "pending" \in Lock \ {"shared"}
    <3> QED
      BY <2>3 DEF BeginPending, Writing
  <2>4. CASE BeginBusy(c)
    <3> USE DEF Lock
    <3> WITNESS "none" \in Lock \ {"shared"}
    <3> QED
      BY <2>4 DEF BeginBusy, Throws, StopsWaiting, after_scope, class_of, Writing, Types
  <2> QED
    BY <2>1, <2>2, <2>3, <2>4 DEF Begin
<1>3. expired' \in Nat /\ (expired = 0 \/ expired' # 0)
  BY DEF Begin, Opens, BeginPending, BeginBusy, StopsWaiting, Types
<1>4. Types'
  <2>1. lock' \in [Client -> Lock] /\ pc' \in [Client -> Where]
    BY <1>2 DEF Types, Where
  <2>2. err' \in [Client -> [code : Code, at : Place]]
    BY <1>2 DEF Types, Code, Place
  <2> QED
    BY <1>3, <2>1, <2>2 DEF Begin, Types, conf
<1>5. \A d \in Client : Own(d)'
  <2> SUFFICES ASSUME NEW d \in Client PROVE Own(d)'
    OBVIOUS
  <2>1. CASE d # c
    BY <1>2, <1>3, <2>1, OthersKeep DEF Begin, Types
  <2>2. CASE d = c
    <3>1. Current(c)'
      BY <1>1, <1>2 DEF Begin, Current, Latest, Types, Writing, conf
    <3>2. Held(c)'
      BY <1>1, <1>2 DEF Begin, Held, Types, Writing, rest, conf
    <3>3. Promise(c)'
      BY <1>1, <1>2, <1>3 DEF Begin, Own, Promise, Types, conf
    <3> QED
      BY <2>2, <3>1, <3>2, <3>3 DEF Own
  <2> QED
    BY <2>1, <2>2
<1>6. \A d, e \in Client : d # e => Compatible(d, e)'
  <2>1. l # "none" => \A d \in Client \ {c} : lock[d] # "exclusive"
    BY <1>2 DEF CanReserve, Writing, Lock
  <2>2. l = "exclusive" => \A d \in Client \ {c} : lock[d] = "none"
    BY <1>2 DEF Alone
  <2> QED
    BY <1>2, <2>1, <2>2, LocksKeep
<1> QED
  BY <1>4, <1>5, <1>6

\* A call in the scope throws: nothing but c's place and its exception change.
LEMMA RefusedInv ==
  ASSUME Inv, NEW c \in Client, pc[c] = "open", NEW code \in Code \ {"OK", "FULL"},
         NEW place \in Place, Refused(c, code, place), UNCHANGED conf,
         expired' \in Nat, expired = 0 \/ expired' # 0,
         code \in {"BUSY", "BUSY_SNAPSHOT"} => type[c] = "deferred",
         code = "BUSY_SNAPSHOT" => wal,
         code = "BUSY" /\ waits[c] => expired' # 0 \/ place = "upgrade"
  PROVE  Inv'
<1>1. /\ pc' = [pc EXCEPT ![c] = "leaving"]
      /\ err' = [err EXCEPT ![c] = [code |-> code, at |-> place]]
      /\ UNCHANGED <<file, lock, seen, dirty, reading, done>>
  BY DEF Refused, Throws
<1>2. Types'
  <2>1. pc' \in [Client -> Where] /\ err' \in [Client -> [code : Code, at : Place]]
    BY <1>1 DEF Types, Where
  <2> QED
    BY <1>1, <2>1 DEF Types, conf
<1>3. ASSUME NEW d \in Client PROVE Own(d)'
  <2>1. CASE d # c
    BY <1>1, <2>1, OthersKeep DEF Types
  <2>2. CASE d = c
    BY <1>1, <2>2 DEF Own, Current, Held, Promise, OutOfTransaction, Latest, Types, conf
  <2> QED
    BY <2>1, <2>2
<1>4. \A d, e \in Client : d # e => Compatible(d, e)'
  BY <1>1 DEF Compatible
<1> QED
  BY <1>2, <1>3, <1>4

LEMMA ReadInv ==
  ASSUME Inv, NEW c \in Client, Read(c)
  PROVE  Inv'
<1>1. CASE /\ lock[c] # "none" \/ CanShare(c)
           /\ lock' = [lock EXCEPT ![c] = IF @ = "none" THEN "shared" ELSE @]
           /\ seen' = [seen EXCEPT ![c] = file]
           /\ \E open \in {FALSE, keeps} : reading' = [reading EXCEPT ![c] = open]
           /\ UNCHANGED <<file, dirty, pc, err, done, expired>>
  <2>1. Types'
    <3>1. lock' \in [Client -> Lock] /\ seen' \in [Client -> Nat \cup {None}]
      BY <1>1 DEF Types, Lock
    <3>2. reading' \in [Client -> BOOLEAN]
      BY <1>1 DEF Types
    <3> QED
      BY <1>1, <3>1, <3>2 DEF Types, Read, conf
  <2>2. ASSUME NEW d \in Client PROVE Own(d)'
    <3>1. CASE d # c
      BY <1>1, <3>1, OthersKeep DEF Types, Read
    <3>2. CASE d = c
      <4>1. /\ pc[c] = "open" /\ UNCHANGED <<conf, file, pc, err, expired>>
            /\ seen'[c] = file /\ dirty'[c] = None
            /\ lock'[c] = IF lock[c] = "none" THEN "shared" ELSE lock[c]
        BY <1>1 DEF Read, Types
      <4> QED
        BY <3>2, <4>1 DEF Own, Current, Held, Promise, OutOfTransaction, Latest, Writing, conf
    <3> QED
      BY <3>1, <3>2
  <2>3. \A d, e \in Client : d # e => Compatible(d, e)'
    <3>1. lock' = [lock EXCEPT ![c] = IF lock[c] = "none" THEN "shared" ELSE lock[c]]
      BY <1>1 DEF Types
    <3>2. lock[c] # "none" \/ \A d \in Client \ {c} : lock[d] # "exclusive"
      <4>1. CASE wal /\ lock[c] = "none"
        BY <4>1 DEF Own, Current
      <4>2. CASE ~wal
        BY <1>1, <4>2 DEF CanShare
      <4> QED
        BY <4>1, <4>2 DEF Types
    <3> QED
      BY <3>1, <3>2 DEF Types, Compatible, Writing, Lock
  <2> QED
    BY <2>1, <2>2, <2>3
<1>2. CASE lock[c] = "none" /\ StopsWaiting(waits[c]) /\ Refused(c, "BUSY", "read")
  <2>1. type[c] = "deferred" /\ pc[c] = "open"
    BY <1>2 DEF Read, Own, Held, Writing
  <2>2. expired' \in Nat /\ (expired = 0 \/ expired' # 0) /\ (waits[c] => expired' # 0)
    BY <1>2 DEF StopsWaiting, Types
  <2>3. UNCHANGED conf
    BY DEF Read
  <2> QED
    BY <1>2, <2>1, <2>2, <2>3, RefusedInv DEF Code, Place
<1> QED
  BY <1>1, <1>2 DEF Read

LEMMA WriteInv ==
  ASSUME Inv, NEW c \in Client, Write(c)
  PROVE  Inv'
<1>1. pc[c] = "open" /\ dirty[c] = None /\ UNCHANGED conf
  BY DEF Write
<1>2. CASE /\ CanReserve(c) /\ Latest(c) /\ (lock[c] # "none" \/ CanShare(c))
           /\ lock' = [lock EXCEPT ![c] = IF @ \in Writing THEN @ ELSE "reserved"]
           /\ dirty' = [dirty EXCEPT ![c] = (IF seen[c] = None THEN file ELSE seen[c]) + 1]
           /\ UNCHANGED <<file, seen, reading, pc, err, done, expired>>
  <2>1. /\ lock' = [lock EXCEPT ![c] = IF lock[c] \in Writing THEN lock[c] ELSE "reserved"]
        /\ dirty' = [dirty EXCEPT ![c] = file + 1]
    BY <1>2 DEF Types, Latest
  <2>2. Types'
    <3>1. lock' \in [Client -> Lock] /\ dirty' \in [Client -> Nat \cup {None}]
      BY <2>1 DEF Types, Lock
    <3> QED
      BY <1>1, <1>2, <3>1 DEF Types, conf
  <2>3. ASSUME NEW d \in Client PROVE Own(d)'
    <3>1. CASE d # c
      BY <1>1, <1>2, <2>1, <3>1, OthersKeep DEF Types
    <3>2. CASE d = c
      <4>1. /\ lock'[c] = IF lock[c] \in Writing THEN lock[c] ELSE "reserved"
            /\ dirty'[c] = file + 1 /\ seen' = seen /\ file' = file
            /\ pc' = pc /\ err' = err /\ reading' = reading
        BY <1>2, <2>1 DEF Types
      <4>2. Current(c)'
        BY <1>1, <1>2, <4>1 DEF Own, Current, OutOfTransaction, Latest, Writing, conf
      <4>3. Held(c)' /\ Promise(c)'
        BY <1>1, <1>2, <4>1 DEF Own, Held, Promise, Writing, conf
      <4> QED
        BY <3>2, <4>2, <4>3 DEF Own
    <3> QED
      BY <3>1, <3>2
  <2>4. \A d, e \in Client : d # e => Compatible(d, e)'
    <3>1. CASE lock[c] \in Writing
      BY <2>1, <3>1 DEF Types, Compatible
    <3>2. CASE lock[c] \notin Writing
      <4>1. lock' = [lock EXCEPT ![c] = "reserved"]
        BY <2>1, <3>2
      <4>2. \A d \in Client \ {c} : lock[d] # "exclusive"
        BY <1>2 DEF CanReserve, Writing
      <4> QED
        BY <1>2, <4>1, <4>2, LocksKeep DEF Lock
    <3> QED
      BY <3>1, <3>2
  <2> QED
    BY <2>2, <2>3, <2>4
<1>3. CASE /\ ~CanReserve(c)
           /\ StopsWaiting(waits[c] /\ lock[c] = "none")
           /\ Refused(c, "BUSY", IF lock[c] = "none" THEN "write" ELSE "upgrade")
  <2>1. type[c] = "deferred"
    <3>1. PICK d \in Client \ {c} : lock[d] \in Writing
      BY <1>3 DEF CanReserve
    <3> QED
      BY <1>1, <3>1 DEF Own, Held, Compatible
  <2>2. /\ expired' \in Nat /\ (expired = 0 \/ expired' # 0)
        /\ waits[c] /\ lock[c] = "none" => expired' # 0
    BY <1>3 DEF StopsWaiting, Types
  <2> QED
    BY <1>1, <1>3, <2>1, <2>2, RefusedInv DEF Code, Place
<1>4. CASE ~Latest(c) /\ Refused(c, "BUSY_SNAPSHOT", "upgrade") /\ expired' = expired
  <2>1. type[c] = "deferred" /\ wal
    BY <1>1, <1>4 DEF Own, Held, Current, Latest, Types
  <2> QED
    BY <1>1, <1>4, <2>1, RefusedInv DEF Code, Place, Types
<1>5. CASE Refused(c, "CONSTRAINT", "write") /\ expired' = expired
  BY <1>1, <1>5, RefusedInv DEF Code, Place, Types
<1> QED
  BY <1>2, <1>3, <1>4, <1>5 DEF Write

LEMMA ReleaseInv ==
  ASSUME Inv, NEW c \in Client, Release(c)
  PROVE  Inv'
<1>1. /\ reading[c] /\ reading' = [reading EXCEPT ![c] = FALSE]
      /\ lock' = [lock EXCEPT ![c] = IF InTransaction(c) THEN lock[c] ELSE "none"]
      /\ UNCHANGED <<conf, file, seen, dirty, pc, err, done, expired>>
  BY DEF Release, Types
<1>2. Types'
  <2>1. lock' \in [Client -> Lock] /\ reading' \in [Client -> BOOLEAN]
    BY <1>1 DEF Types, Lock
  <2> QED
    BY <1>1, <2>1 DEF Types, conf
<1>3. ASSUME NEW d \in Client PROVE Own(d)'
  <2>1. CASE d # c
    BY <1>1, <2>1, OthersKeep DEF Types
  <2>2. CASE d = c
    <3>1. /\ lock'[c] = IF InTransaction(c) THEN lock[c] ELSE "none"
          /\ reading'[c] = FALSE
      BY <1>1 DEF Types
    <3>2. InTransaction(c) \/ OutOfTransaction(c)
      BY DEF InTransaction, OutOfTransaction, Types, Where
    <3>3. ~(InTransaction(c) /\ OutOfTransaction(c)) /\ pc[c] # "beginning"
      BY <1>1 DEF InTransaction, OutOfTransaction, Own, Held
    <3>4. Current(c)'
      BY <1>1, <3>1, <3>2, <3>3 DEF Own, Current, OutOfTransaction, Latest, Writing, conf
    <3>5. Held(c)'
      BY <1>1, <3>1, <3>3 DEF Own, Held, InTransaction, rest, conf
    <3>6. Promise(c)'
      BY <1>1 DEF Own, Promise, conf
    <3> QED
      BY <2>2, <3>4, <3>5, <3>6 DEF Own
  <2> QED
    BY <2>1, <2>2
<1>4. \A d, e \in Client : d # e => Compatible(d, e)'
  <2>1. lock'[c] \in {lock[c], "none"} /\ \A d \in Client \ {c} : lock'[d] = lock[d]
    BY <1>1 DEF Types
  <2> QED
    BY <2>1 DEF Compatible, Writing
<1> QED
  BY <1>2, <1>3, <1>4

\* What c can commit is one more than what is in the file, and nobody else has read
\* from the file what c replaces, except a snapshot, or is about to write it.
LEMMA CommitIsNext ==
  ASSUME Inv, NEW c \in Client, dirty[c] # None, Alone(c)
  PROVE  /\ dirty[c] = file + 1 /\ dirty[c] \in Nat
         /\ \A d \in Client \ {c} : /\ dirty[d] = None /\ lock[d] \notin Writing
                                    /\ wal \/ seen[d] = None
BY DEF Types, Own, Current, Compatible, Alone

LEMMA CommitDoneInv ==
  ASSUME Inv, NEW c \in Client, dirty[c] # None, CommitDone(c), UNCHANGED conf
  PROVE  Inv'
<1>1. /\ file' = dirty[c]
      /\ lock' = [lock EXCEPT ![c] = rest(c)]
      /\ seen' = [seen EXCEPT ![c] = None]
      /\ dirty' = [dirty EXCEPT ![c] = None]
      /\ pc' = [pc EXCEPT ![c] = "commited"]
      /\ done' = [done EXCEPT ![c] = done[c] + 1]
      /\ UNCHANGED <<reading, err, expired>>
  BY DEF CommitDone
<1>2. /\ dirty[c] = file + 1 /\ dirty[c] \in Nat
      /\ \A d \in Client \ {c} : /\ dirty[d] = None /\ lock[d] \notin Writing
                                 /\ wal \/ seen[d] = None
  BY CommitIsNext DEF CommitDone
<1>3. rest(c) \in {"none", "shared"}
  BY DEF rest
<1>4. Types'
  <2>1. lock' \in [Client -> Lock] /\ pc' \in [Client -> Where]
    BY <1>1, <1>3 DEF Types, Lock, Where
  <2>2. /\ file' \in Nat /\ done' \in [Client -> Nat]
        /\ seen' \in [Client -> Nat \cup {None}] /\ dirty' \in [Client -> Nat \cup {None}]
    BY <1>1, <1>2 DEF Types
  <2> QED
    BY <1>1, <2>1, <2>2 DEF Types, conf
<1>5. ASSUME NEW d \in Client PROVE Own(d)'
  <2>1. CASE d # c
    <3>1. UNCHANGED <<lock[d], seen[d], dirty[d], reading[d], pc[d], err[d]>>
      BY <1>1, <2>1 DEF Types
    <3>2. Current(d)'
      BY <1>2, <2>1, <3>1 DEF Own, Current, OutOfTransaction, conf
    <3>3. Held(d)' /\ Promise(d)'
      BY <1>1, <3>1 DEF Own, Held, Promise, rest, conf
    <3> QED
      BY <3>2, <3>3 DEF Own
  <2>2. CASE d = c
    <3>1. /\ lock'[c] = rest(c) /\ rest(c)' = rest(c) /\ seen'[c] = None
          /\ dirty'[c] = None /\ pc'[c] = "commited" /\ err'[c] = err[c]
      BY <1>1 DEF Types, rest
    <3>2. Current(c)'
      BY <1>3, <3>1 DEF Current, Latest, Writing
    <3>3. Held(c)' /\ Promise(c)'
      BY <1>1, <1>3, <3>1 DEF Own, Held, Promise, rest, Types, conf
    <3> QED
      BY <2>2, <3>2, <3>3 DEF Own
  <2> QED
    BY <2>1, <2>2
<1>6. \A d, e \in Client : d # e => Compatible(d, e)'
  BY <1>1, <1>2, <1>3 DEF Types, Compatible, Writing
<1> QED
  BY <1>4, <1>5, <1>6

LEMMA CommitPendingInv ==
  ASSUME Inv, NEW c \in Client, pc[c] \in {"open", "committing"}, dirty[c] # None,
         CommitPending(c), UNCHANGED conf
  PROVE  Inv'
<1>1. /\ ~wal /\ lock[c] \in Writing
      /\ lock' = [lock EXCEPT ![c] = IF lock[c] = "exclusive" THEN lock[c] ELSE "pending"]
      /\ UNCHANGED <<file, seen, dirty, reading, done>>
  BY DEF CommitPending, Alone, unsure, Own, Current
<1>2. PICK to \in {"committing", "leaving"} :
        /\ pc' = [pc EXCEPT ![c] = to]
        /\ expired' \in Nat /\ (expired = 0 \/ expired' # 0)
        /\ \/ err' = err /\ to = "committing"
           \/ /\ err' = [err EXCEPT ![c] = [code |-> "BUSY", at |-> "commit"]]
              /\ waits[c] => expired' # 0
  BY DEF CommitPending, StopsWaiting, Throws, after_busy_commit, Types
<1>3. lock[c] # "exclusive"
  BY DEF CommitPending, Alone, Compatible
<1>4. lock' = [lock EXCEPT ![c] = "pending"]
  BY <1>1, <1>3
<1>5. type[c] # "exclusive"
  BY <1>1, <1>3 DEF Own, Held
<1>6. Types'
  <2>1. lock' \in [Client -> Lock] /\ pc' \in [Client -> Where]
    BY <1>2, <1>4 DEF Types, Lock, Where
  <2>2. err' \in [Client -> [code : Code, at : Place]]
    BY <1>2 DEF Types, Code, Place
  <2> QED
    BY <1>1, <1>2, <2>1, <2>2 DEF Types, conf
<1>7. ASSUME NEW d \in Client PROVE Own(d)'
  <2>1. CASE d # c
    BY <1>1, <1>2, <1>4, <2>1, OthersKeep DEF Types
  <2>2. CASE d = c
    <3>1. /\ lock'[c] = "pending" /\ pc'[c] = to
          /\ \/ err'[c] = err[c] /\ to = "committing"
             \/ /\ err'[c] = [code |-> "BUSY", at |-> "commit"]
                /\ waits[c] => expired' # 0
      BY <1>2, <1>4 DEF Types
    <3>2. Current(c)'
      BY <1>1, <3>1 DEF Own, Current, OutOfTransaction, Latest, Writing, conf
    <3>3. Held(c)'
      BY <1>1, <1>5, <3>1 DEF Held, Writing, conf
    <3>4. Promise(c)'
      BY <1>2, <1>5, <3>1 DEF Own, Promise, conf
    <3> QED
      BY <2>2, <3>2, <3>3, <3>4 DEF Own
  <2> QED
    BY <2>1, <2>2
<1>8. \A d, e \in Client : d # e => Compatible(d, e)'
  <2>1. \A d \in Client \ {c} : lock[d] \notin Writing
    BY <1>1 DEF Compatible
  <2> QED
    BY <1>4, <2>1, LocksKeep DEF CanReserve, Lock, Writing
<1> QED
  BY <1>6, <1>7, <1>8

\* The engine rolls c's transaction back, and c goes on outside it.
LEMMA RolledBackInv ==
  ASSUME Inv, NEW c \in Client, RollBack(c), NEW to \in {"leaving", "idle", "gone"},
         pc' = [pc EXCEPT ![c] = to],
         \/ err' = err /\ to # "leaving" /\ (to = "gone" => err[c].code \notin {"OK", "BUSY"})
         \/ err' = [err EXCEPT ![c] = [code |-> "FULL", at |-> "commit"]],
         UNCHANGED <<conf, file, reading, done, expired>>
  PROVE  Inv'
<1>1. /\ lock' = [lock EXCEPT ![c] = rest(c)]
      /\ seen' = [seen EXCEPT ![c] = None]
      /\ dirty' = [dirty EXCEPT ![c] = None]
  BY DEF RollBack
<1>2. rest(c) \in {"none", "shared"}
  BY DEF rest
<1>3. Types'
  <2>1. lock' \in [Client -> Lock] /\ pc' \in [Client -> Where]
    BY <1>1, <1>2 DEF Types, Lock, Where
  <2>2. seen' \in [Client -> Nat \cup {None}] /\ dirty' \in [Client -> Nat \cup {None}]
    BY <1>1 DEF Types
  <2>3. err' \in [Client -> [code : Code, at : Place]]
    BY DEF Types, Code, Place
  <2> QED
    BY <2>1, <2>2, <2>3 DEF Types, conf
<1>4. ASSUME NEW d \in Client PROVE Own(d)'
  <2>1. CASE d # c
    BY <1>1, <2>1, OthersKeep DEF Types
  <2>2. CASE d = c
    <3>1. /\ lock'[c] = rest(c) /\ rest(c)' = rest(c) /\ seen'[c] = None
          /\ dirty'[c] = None /\ pc'[c] = to
      BY <1>1 DEF Types, rest
    <3>2. Current(c)'
      BY <1>2, <3>1 DEF Current, Latest, Writing
    <3>3. Held(c)'
      BY <1>2, <3>1 DEF Held, rest, Types
    <3>4. Promise(c)'
      <4>1. \/ err'[c] = err[c] /\ to # "leaving" /\ (to = "gone" => err[c].code \notin {"OK", "BUSY"})
            \/ err'[c] = [code |-> "FULL", at |-> "commit"]
        BY DEF Types
      <4>2. err[c].code \in Code
        BY DEF Types
      <4> QED
        BY <3>1, <4>1, <4>2 DEF Own, Promise, Code, conf
    <3> QED
      BY <2>2, <3>2, <3>3, <3>4 DEF Own
  <2> QED
    BY <2>1, <2>2
<1>5. \A d, e \in Client : d # e => Compatible(d, e)'
  <2>1. lock[c] # "none" \/ rest(c) = "none"
    BY DEF rest, Own, Held
  <2> QED
    BY <1>1, <1>2, <2>1 DEF Types, Compatible, Writing
<1> QED
  BY <1>3, <1>4, <1>5

LEMMA CommitInv ==
  ASSUME Inv, NEW c \in Client, Commit(c)
  PROVE  Inv'
<1>1. pc[c] \in {"open", "committing"} /\ dirty[c] # None /\ UNCHANGED conf
  BY DEF Commit
<1>2. CASE CommitDone(c)
  BY <1>1, <1>2, CommitDoneInv
<1>3. CASE CommitPending(c)
  BY <1>1, <1>3, CommitPendingInv
<1>4. CASE CommitFails(c)
  <2>1. RollBack(c)
    BY <1>4 DEF CommitFails, RollBack
  <2> QED
    BY <1>1, <1>4, <2>1, RolledBackInv DEF CommitFails, Throws
<1> QED
  BY <1>2, <1>3, <1>4 DEF Commit

LEMMA EndScopeInv ==
  ASSUME Inv, NEW c \in Client, EndScope(c)
  PROVE  Inv'
<1>1. PICK to \in {"idle", "gone"} :
        /\ pc' = [pc EXCEPT ![c] = to]
        /\ to = "gone" => pc[c] = "leaving" /\ err[c].code \notin {"OK", "BUSY"}
        /\ UNCHANGED <<conf, file, reading, err, done, expired>>
  BY DEF EndScope, after_scope, class_of, Own, Promise, Types
<1>2. CASE RollBack(c)
  BY <1>1, <1>2, RolledBackInv
<1>3. CASE pc[c] = "commited" /\ Unchanged(c)
  <2>1. Types'
    <3>1. pc' \in [Client -> Where]
      BY <1>1 DEF Types, Where
    <3> QED
      BY <1>1, <1>3, <3>1 DEF Types, Unchanged, conf
  <2>2. ASSUME NEW d \in Client PROVE Own(d)'
    <3>1. CASE d # c
      BY <1>1, <1>3, <3>1, OthersKeep DEF Types, Unchanged
    <3>2. CASE d = c
      BY <1>1, <1>3, <3>2
      DEF Unchanged, Own, Current, Held, Promise, OutOfTransaction, Latest, rest, Types, conf
    <3> QED
      BY <3>1, <3>2
  <2>3. \A d, e \in Client : d # e => Compatible(d, e)'
    BY <1>3 DEF Unchanged, Compatible
  <2> QED
    BY <2>1, <2>2, <2>3
<1> QED
  BY <1>2, <1>3 DEF EndScope, rolls_back

LEMMA NextInv == Inv /\ [Next]_vars => Inv'
<1> SUFFICES ASSUME Inv, [Next]_vars PROVE Inv'
  OBVIOUS
<1>1. CASE UNCHANGED vars
  BY <1>1 DEF vars, conf, Types, Own, Current, Held, Promise, OutOfTransaction, Compatible,
              Latest, rest
<1>2. CASE \E c \in Client : Step(c)
  BY <1>2, BeginInv, ReadInv, WriteInv, ReleaseInv, CommitInv, EndScopeInv DEF Step
<1> QED
  BY <1>1, <1>2 DEF Next, Rest

LEMMA Invariance == Spec => []Inv
BY InitInv, NextInv, PTL DEF Spec

----------------------------------------------------------------------------
\* The types of all variables; two connections never write at the same time.
THEOREM TypeCorrect == Spec => []TypeOK
<1>1. Inv => TypeOK
  BY DEF TypeOK, Types, Own, Current, OutOfTransaction, Compatible
<1> QED
  BY <1>1, Invariance, PTL

\* An immediate or exclusive transaction that has been constructed is not refused a
\* lock in its scope (Transaction.h, transactiontype).
THEOREM TypesKeepTheirPromise == Spec => []TypePromise
<1>1. Inv => TypePromise
  BY DEF TypePromise, Own, Promise
<1> QED
  BY <1>1, Invariance, PTL

\* A connection with a timeout is refused a lock at once only when its transaction
\* reads before it writes (DBConnection.h, the constructors' busy_timeout).
THEOREM OnlyUpgradesDoNotWait == Spec => []BusyMeansTimeout
<1>1. Inv => BusyMeansTimeout
  BY DEF BusyMeansTimeout, Own, Promise
<1> QED
  BY <1>1, Invariance, PTL

\* Nobody who retries busy_exception gives up because of contention, but for a
\* deferred transaction whose snapshot is old (Exception.cpp, throw_error_code).
THEOREM ContentionIsRetriedAlways == Spec => []ContentionIsRetried
<1>1. Inv => ContentionIsRetried
  BY DEF ContentionIsRetried, Own, Promise
<1> QED
  BY <1>1, Invariance, PTL

\* Whatever way a scope is left, its connection keeps no lock but the one of a
\* SELECT that is under way (Transaction.cpp, the destructor).
THEOREM NoLockIsLeftBehind == Spec => []LocksEndWithScope
<1>1. Inv => LocksEndWithScope
  BY DEF LocksEndWithScope, Own, Held
<1> QED
  BY <1>1, Invariance, PTL

\* Who only reads is in a scope, or still has a SELECT, and waits for nobody.
LEMMA ReaderGoesOn ==
  ASSUME Inv, NEW c \in Client, lock[c] = "shared"
  PROVE  ~AtRest(c) /\ ~Blocked(c)
<1>1. pc[c] \in {"idle", "commited", "gone"} => reading[c]
  BY DEF Own, Held, rest
<1>2. pc[c] \notin {"beginning", "committing"}
  BY DEF Own, Held, Writing
<1> QED
  BY <1>1, <1>2 DEF AtRest, Ended, Blocked

\* Who has the right to write waits for readers at most, and those wait for nobody.
LEMMA WriterOrReaderGoesOn ==
  ASSUME Inv, NEW c \in Client, lock[c] \in Writing
  PROVE  \E d \in Client : ~AtRest(d) /\ ~Blocked(d)
<1>1. ~AtRest(c)
  BY DEF Own, Held, rest, Writing, AtRest, Ended
<1>2. CanReserve(c)
  BY DEF Compatible, CanReserve
<1>3. CASE Alone(c)
  BY <1>1, <1>2, <1>3 DEF Blocked, Writing
<1>4. CASE ~Alone(c)
  <2>1. PICK d \in Client \ {c} : lock[d] # "none"
    BY <1>4 DEF Alone
  <2>2. lock[d] = "shared"
    BY <2>1 DEF Compatible, Types, Lock, Writing
  <2> QED
    BY <2>2, ReaderGoesOn
<1> QED
  BY <1>3, <1>4

\* The locks never hold everybody up: of any number of clients, whatever types and
\* timeouts they use and whoever keeps a SELECT, one that has something to do needs
\* nobody else's lock for it (Transaction.cpp; DBConnection.cpp, the busy timeout).
THEOREM NeverDeadlocked == Spec => []NoDeadlock
<1>1. Inv => NoDeadlock
  <2> SUFFICES ASSUME Inv, NEW c \in Client, ~AtRest(c), Blocked(c)
               PROVE  \E d \in Client : ~AtRest(d) /\ ~Blocked(d)
    BY DEF NoDeadlock
  <2>1. PICK d \in Client : lock[d] # "none"
    <3>1. ~CanReserve(c) \/ ~Alone(c)
      BY DEF Blocked
    <3> QED
      BY <3>1 DEF CanReserve, Alone, Writing
  <2>2. lock[d] = "shared" \/ lock[d] \in Writing
    BY <2>1 DEF Types, Lock, Writing
  <2> QED
    BY <2>2, ReaderGoesOn, WriterOrReaderGoesOn
<1> QED
  BY <1>1, Invariance, PTL

\* A step increments the value and tells its client so, or does neither.
LEMMA StepIsCounted ==
  ASSUME Inv, [Next]_vars
  PROVE  [CounterOf!Next]_<<file, done>>
<1>1. CASE UNCHANGED vars
  BY <1>1 DEF vars
<1>2. ASSUME NEW c \in Client, Step(c)
      PROVE  CounterOf!Increment(c) \/ UNCHANGED <<file, done>>
  <2>1. CASE Commit(c)
    <3>1. CASE CommitDone(c)
      BY <2>1, <3>1, CommitIsNext DEF Commit, CommitDone, CounterOf!Increment
    <3>2. CASE CommitPending(c) \/ CommitFails(c)
      BY <3>2 DEF CommitPending, CommitFails, unsure
    <3> QED
      BY <2>1, <3>1, <3>2 DEF Commit
  <2>2. CASE ~Commit(c)
    BY <1>2, <2>2 DEF Step, Begin, Read, Write, Release, EndScope, Refused
  <2> QED
    BY <2>1, <2>2
<1> QED
  BY <1>1, <1>2 DEF Next, Rest, vars, CounterOf!Next

\* No increment is lost, and none happens without its client knowing: the clients
\* and their retries implement the counter of Counter.
THEOREM NoUpdateIsLost == Spec => NoLostUpdate
<1>1. Init => CounterOf!Init
  BY DEF Init, CounterOf!Init
<1> QED
  BY <1>1, StepIsCounted, Invariance, PTL DEF Spec, NoLostUpdate, CounterOf!Spec

=============================================================================
