------------------------------- MODULE Backup -------------------------------
(***************************************************************************)
(* sqlite::backup and sqlite::save (src/src/Backup.h, src/src/Backup.cpp): *)
(* the pages of a source database are copied, a few in each step(), into a *)
(* transaction on the destination, while the program writes to the source  *)
(* between the steps.                                                      *)
(*                                                                         *)
(* The engine's backup object is external.  A step of it that fails leaves *)
(* no error on a connection; sqlite3_backup_finish does, which is why      *)
(* backup::step gives its handle up before it looks for the error.         *)
(*                                                                         *)
(* An operator named X_Y and defined just before X is a plausible mistake  *)
(* in the code X models; no definition uses it, mutation runs put it in    *)
(* the place of X.                                                         *)
(***************************************************************************)
EXTENDS Integers, Sequences

CONSTANTS
  Content,        \* what a page can hold
  MaxPages,       \* bound: pages of a database
  Failure         \* error codes with which the engine may refuse a call

ASSUME BackupAssumption ==
  /\ MaxPages \in Nat \ {0}
  /\ Failure \cap {"none", "OK", "DONE", "destination"} = {}

VARIABLES
  source,         \* the pages of the source database
  destination,    \* the pages of the destination, as committed
  work,           \* the pages in the destination's open transaction
  m_handle,       \* the engine's backup object, NULL, or NoObject
  m_destination,  \* what connection is in the object that it points to: the
                  \* destination or, by its last error code, another one
  err,            \* last error code of the destination's connection
  ret             \* how the last call ended, and the engine's answer to it

vars == <<source, destination, work, m_handle, m_destination, err, ret>>

Database == UNION {[1..k -> Content] : k \in 1..MaxPages}

NoObject == [state |-> "no object"]    \* no sqlite::backup exists
NULL     == [state |-> "null"]         \* one exists and owns nothing

\* An engine's backup object: the next page to copy, and whether it has ended.
Handle == [state : {"copying", "done"}, next : 1..(MaxPages + 1)]
started == [state |-> "copying", next |-> 1]

Thrown == {"exception", "busy_exception"}

Returned(op, out, rc) == ret' = [op |-> op, out |-> out, rc |-> rc]
Alive == ret.out # "null_dereference"

----------------------------------------------------------------------------
(* The engine.                                                             *)

\* Pages up to which a step with argument n copies; a negative n means all.
last_page(h, n) == IF n < 0 \/ h.next - 1 + n > Len(source) THEN Len(source)
                   ELSE h.next - 1 + n

\* The destination's pages after the source's pages h.next..last are copied.
copied(h, last) ==
  [p \in 1..(IF last > Len(work) THEN last ELSE Len(work)) |->
     IF p \in h.next..last THEN source[p] ELSE work[p]]

(***************************************************************************)
(* sqlite3_backup_step: the answers it may give, each with the handle, the *)
(* pages of the open transaction and the committed ones it leaves.  With   *)
(* the last page it cuts the destination to the source's size and commits. *)
(***************************************************************************)
sqlite3_backup_step(h, n) ==
  IF h.state = "done"
  THEN {[rc |-> "DONE", handle |-> h, work |-> work, committed |-> destination]}
  ELSE LET last == last_page(h, n)
           pages == copied(h, last)
           whole == SubSeq(pages, 1, Len(source))
       IN  {IF last < Len(source)
            THEN [rc |-> "OK", work |-> pages, committed |-> destination,
                  handle |-> [h EXCEPT !.next = last + 1]]
            ELSE [rc |-> "DONE", work |-> whole, committed |-> whole,
                  handle |-> [h EXCEPT !.state = "done"]]}
           \cup {[rc |-> c, handle |-> h, work |-> work, committed |-> destination] :
                   c \in Failure}

\* A write to the source restarts a copy or, when the source is a file and its
\* own connection writes, is repeated on the pages already copied.
restarted_Not(h) == h
restarted(h) == [h EXCEPT !.next = 1]

repeated(h, new) ==
  [p \in DOMAIN work |-> IF p < h.next /\ p <= Len(new) THEN new[p] ELSE work[p]]

----------------------------------------------------------------------------
(* The wrapper.                                                            *)

\* throw_error_code: it returns when it reads a success.
class_of(code) == IF code = "BUSY" THEN "busy_exception" ELSE "exception"

\* The error code backup::step reads, when the engine has answered rc: the one
\* sqlite3_backup_finish has just left, if it looks at the destination's connection.
error_read_BeforeFinish(rc) == err
error_read(rc) == IF m_destination = "destination" THEN rc ELSE m_destination

\* What backup::step answers.
answered_NotDone(rc) == IF rc = "DONE" THEN "false" ELSE "true"
answered(rc) == CASE rc = "OK"   -> "true"
                  [] rc = "DONE" -> "false"
                  [] OTHER       -> IF error_read(rc) = "OK" THEN "false"
                                    ELSE class_of(error_read(rc))

\* The handle after an answer other than OK and DONE: given up.
after_refusal_Kept(h) == h
after_refusal(h) == NULL

\* The constructor: a failed initialisation leaves no object.
Construct ==
  /\ Alive
  /\ m_handle = NoObject
  /\ \/ /\ m_handle' = started
        /\ work' = destination
        /\ Returned("construct", "returned", "OK")
        /\ UNCHANGED err
     \/ \E c \in Failure : /\ Returned("construct", class_of(c), c)
                           /\ err' = c
                           /\ UNCHANGED <<m_handle, work>>
  /\ UNCHANGED <<source, destination, m_destination>>

(***************************************************************************)
(* step(n).  Every answer other than OK and DONE destroys the handle, even *)
(* SQLITE_BUSY, after which the engine would let the caller try again.     *)
(***************************************************************************)
Step(n) ==
  /\ Alive
  /\ m_handle # NoObject
  /\ IF m_handle = NULL
     THEN /\ Returned("step", "null_dereference", "none")
          /\ UNCHANGED <<destination, work, m_handle, err>>
     ELSE \E e \in sqlite3_backup_step(m_handle, n) :
            /\ Returned("step", answered(e.rc), e.rc)
            /\ destination' = e.committed
            /\ IF e.rc \in {"OK", "DONE"}
               THEN m_handle' = e.handle /\ work' = e.work /\ err' = err
               ELSE m_handle' = after_refusal(e.handle) /\ work' = destination /\ err' = e.rc
  /\ UNCHANGED <<source, m_destination>>

\* total_page_count() and remaining_page_count() do not look at the handle.
Count ==
  /\ Alive
  /\ m_handle = NULL
  /\ Returned("count", "null_dereference", "none")
  /\ UNCHANGED <<source, destination, work, m_handle, m_destination, err>>

\* The program assigns to the object, or opens another database with it, while a
\* copy of it keeps the destination open.
Reassign ==
  /\ Alive
  /\ m_handle # NoObject
  /\ m_destination' \in Failure \cup {"OK"}
  /\ UNCHANGED <<source, destination, work, m_handle, err, ret>>

\* The destructor: a copy that has not ended is rolled back.
Destroy ==
  /\ Alive
  /\ m_handle # NoObject
  /\ m_handle' = NoObject
  /\ m_destination' = "destination"
  /\ work' = destination
  /\ err' = IF m_handle = NULL THEN err ELSE "OK"
  /\ Returned("destroy", "returned", "none")
  /\ UNCHANGED <<source, destination>>

(***************************************************************************)
(* save(source, filename): a connection to the file and a backup object    *)
(* of its own, one step, whose answer is ignored, and the destruction of   *)
(* both.  It is tried when no other backup writes to that file.            *)
(***************************************************************************)
save_pages_One == 1
save_pages == -1

Save ==
  /\ Alive
  /\ m_handle = NoObject
  /\ \/ \E c \in Failure : Returned("save", class_of(c), c) /\ UNCHANGED destination
     \/ \E e \in sqlite3_backup_step(started, save_pages) :
          /\ Returned("save", IF answered(e.rc) \in Thrown THEN answered(e.rc)
                              ELSE "returned", e.rc)
          /\ destination' = e.committed
  /\ work' = destination'
  /\ UNCHANGED <<source, m_handle, m_destination, err>>

\* The program writes to the source, through its own connection or another.
WriteSource ==
  /\ Alive
  /\ \E new \in Database :
       /\ source' = new
       /\ IF m_handle \in Handle /\ m_handle.state = "copying"
          THEN \/ m_handle' = restarted(m_handle) /\ work' = work
               \/ m_handle' = m_handle /\ work' = repeated(m_handle, new)
          ELSE UNCHANGED <<m_handle, work>>
  /\ UNCHANGED <<destination, m_destination, err, ret>>

Init ==
  /\ source \in Database
  /\ destination \in Database
  /\ work = destination
  /\ m_handle = NoObject
  /\ m_destination = "destination"
  /\ err = "OK"
  /\ ret = [op |-> "none", out |-> "returned", rc |-> "none"]

Next ==
  \/ Construct
  \/ \E n \in -1..MaxPages : Step(n)
  \/ Count
  \/ Reassign
  \/ Destroy
  \/ Save
  \/ WriteSource

Spec == Init /\ [][Next]_vars

----------------------------------------------------------------------------
(* Properties.                                                             *)

\* The types; a call that has thrown leaves no engine's backup object behind,
\* which would keep the destination locked.
TypeOK ==
  /\ source \in Database
  /\ destination \in Database
  /\ work \in Database
  /\ m_handle \in Handle \cup {NULL, NoObject}
  /\ m_destination \in Failure \cup {"OK", "destination"}
  /\ m_handle = NoObject => m_destination = "destination"
  /\ err \in Failure \cup {"OK"}
  /\ ret.out \in {"returned", "true", "false", "null_dereference"} \cup Thrown
  /\ m_handle \in {NULL, NoObject} => work = destination
  /\ ret.out \in Thrown => m_handle \in {NULL, NoObject}

\* A copy interrupted by a failure, by the destructor or by writes to the source
\* leaves the destination as it was; one that ends leaves the source as it is at
\* its end (Backup.cpp, step, save and the deleter of m_handle).
CopyOf == INSTANCE Copy WITH Database <- Database, source <- source, destination <- destination
CopiesWhole == CopyOf!Spec

\* A step that answers "no more pages" for the first time has made the
\* destination equal to the source: no failure is taken for the end of the copy,
\* unless the destination's object has been given another connection, which has
\* no error (Backup.cpp, step).
DoneMeansCopied ==
  [][ret'.op = "step" /\ ret'.out = "false" /\ m_handle # m_handle'
       => destination' = source \/ m_destination = "OK"]_vars

\* As long as the destination's object is the destination, step() and save() throw
\* exactly when the engine has refused, and only SQLITE_BUSY as busy_exception
\* (Backup.cpp, step; Exception.cpp).
FailureIsRaised ==
  m_destination = "destination" =>
  /\ ret.op \in {"step", "save"} /\ ret.rc \in Failure => ret.out = class_of(ret.rc)
  /\ ret.op \in {"step", "save"} /\ ret.out \in Thrown => ret.rc \in Failure

\* When save() returns, the file holds the source (Backup.cpp, save).
SaveCopies ==
  [][Save /\ ret'.out = "returned" => destination' = source]_vars

\* What Backup.h says of step(): an error is reported as an exception.
StepReportsErrors == ret.op = "step" => ret.out # "null_dereference"
=============================================================================
