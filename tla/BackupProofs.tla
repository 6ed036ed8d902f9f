---------------------------- MODULE BackupProofs ----------------------------
(***************************************************************************)
(* Theorems about Backup, for databases of any size, any contents and any  *)
(* error codes: it implements Copy, and the end of a copy and its failures *)
(* are told apart.                                                         *)
(*                                                                         *)
(* Progress is what makes the copy whole although the source changes while *)
(* it is made: the pages before the next one are those of the source.      *)
(***************************************************************************)
EXTENDS Backup, SequenceTheorems, TLAPS

\* The pages that h has copied into pages are the source's.
Progress(h, pages) ==
  h.state = "copying" =>
    /\ h.next - 1 <= Len(pages)
    /\ \A p \in 1..(h.next - 1) : p <= Len(source) => pages[p] = source[p]

Copying == m_handle \in Handle => Progress(m_handle, work)

\* A backup that has said that there are no more pages copies none.
Ended == ret.op = "step" /\ ret.out = "false" => m_handle = NULL \/ m_handle.state = "done"

Inv == TypeOK /\ Copying /\ Ended

----------------------------------------------------------------------------
(* Databases and handles.                                                  *)

LEMMA DatabaseSeq ==
  ASSUME NEW d \in Database
  PROVE  /\ d \in Seq(Content) /\ Len(d) \in 1..MaxPages
         /\ d \in [1..Len(d) -> Content]
<1>1. PICK k \in 1..MaxPages : d \in [1..k -> Content]
  BY DEF Database
<1>2. k \in Nat
  BY <1>1, BackupAssumption
<1>3. d \in Seq(Content)
  BY <1>1, <1>2, SeqDef
<1>4. Len(d) = k
  BY <1>1, <1>2, <1>3, LenProperties
<1> QED
  BY <1>1, <1>3, <1>4

LEMMA SeqDatabase ==
  ASSUME NEW k \in 1..MaxPages, NEW d \in [1..k -> Content]
  PROVE  d \in Database /\ d \in Seq(Content) /\ Len(d) = k
<1>1. k \in Nat
  BY BackupAssumption
<1>2. d \in Database
  BY DEF Database
<1>3. d \in Seq(Content)
  BY <1>1, SeqDef
<1> QED
  BY <1>1, <1>2, <1>3, LenProperties

LEMMA Handles ==
  /\ NULL \notin Handle /\ NoObject \notin Handle /\ NULL # NoObject
  /\ started \in Handle
<1>1. NULL.state = "null" /\ NoObject.state = "no object"
  BY DEF NULL, NoObject
<1>2. \A h \in Handle : h.state \in {"copying", "done"}
  BY DEF Handle
<1>3. started \in Handle
  BY BackupAssumption DEF Handle, started
<1> QED
  BY <1>1, <1>2, <1>3

\* What a step copies, for the pages of source and work.
LEMMA CopiedPages ==
  ASSUME source \in Database, work \in Database, NEW h \in Handle, h.state = "copying",
         Progress(h, work), NEW last \in 0..Len(source), last >= h.next - 1 \/ last = Len(source)
  PROVE  /\ copied(h, last) \in Database
         /\ last <= Len(copied(h, last))
         /\ \A p \in 1..last : copied(h, last)[p] = source[p]
<1> DEFINE S == Len(source)
           W == Len(work)
           k == IF last > W THEN last ELSE W
<1>1. /\ S \in 1..MaxPages /\ source \in [1..S -> Content]
      /\ W \in 1..MaxPages /\ work \in [1..W -> Content]
      /\ last \in 0..S /\ h.next - 1 <= W /\ (last >= h.next - 1 \/ last = S)
      /\ \A p \in 1..(h.next - 1) : p <= S => work[p] = source[p]
  BY DatabaseSeq DEF Progress
<1>2. h.next \in 1..(MaxPages + 1) /\ MaxPages \in Nat
  BY BackupAssumption DEF Handle
<1> HIDE DEF S, W
<1>3. k \in 1..MaxPages /\ last <= k /\ W <= k /\ k \in Nat
  BY <1>1, <1>2
<1>4. copied(h, last) = [p \in 1..k |-> IF p \in h.next..last THEN source[p] ELSE work[p]]
  BY DEF copied, W
<1>5. ASSUME NEW p \in 1..k
      PROVE  (IF p \in h.next..last THEN source[p] ELSE work[p]) \in Content
  <2>1. CASE p \in h.next..last
    BY <1>1, <1>2, <2>1
  <2>2. CASE p \notin h.next..last
    <3>1. p <= W
      <4>1. CASE last > W
        <5>1. p < h.next
          BY <1>1, <1>2, <1>3, <2>2, <4>1
        <5> QED
          BY <1>1, <1>2, <1>3, <5>1
      <4>2. CASE ~(last > W)
        BY <1>1, <1>3, <4>2
      <4> QED
        BY <4>1, <4>2
    <3> QED
      BY <1>1, <1>3, <2>2, <3>1
  <2> QED
    BY <2>1, <2>2
<1>6. copied(h, last) \in [1..k -> Content]
  BY <1>4, <1>5
<1>7. copied(h, last) \in Database /\ Len(copied(h, last)) = k
  BY <1>3, <1>6, SeqDatabase
<1>8. ASSUME NEW p \in 1..last PROVE copied(h, last)[p] = source[p]
  <2>1. p \in 1..k /\ p <= S
    BY <1>1, <1>2, <1>3
  <2>2. CASE p \in h.next..last
    BY <1>4, <2>1, <2>2
  <2>3. CASE p \notin h.next..last
    <3>1. p \in 1..(h.next - 1)
      BY <1>2, <2>3
    <3> QED
      BY <1>1, <1>4, <2>1, <2>3, <3>1
  <2> QED
    BY <2>2, <2>3
<1> QED
  BY <1>3, <1>7, <1>8

LEMMA Whole ==
  ASSUME source \in Database, NEW pages \in Database, Len(source) <= Len(pages),
         \A p \in 1..Len(source) : pages[p] = source[p]
  PROVE  SubSeq(pages, 1, Len(source)) = source
<1>1. /\ source \in Seq(Content) /\ Len(source) \in Nat /\ source = [p \in 1..Len(source) |-> source[p]]
      /\ pages \in Seq(Content)
  BY DatabaseSeq, BackupAssumption
<1>2. SubSeq(pages, 1, Len(source)) = [p \in 1..Len(source) |-> pages[p]]
  BY <1>1 DEF SubSeq
<1> QED
  BY <1>1, <1>2

LEMMA LastPage ==
  ASSUME source \in Database, NEW h \in Handle, NEW n \in -1..MaxPages
  PROVE  /\ last_page(h, n) \in 0..Len(source)
         /\ last_page(h, n) >= h.next - 1 \/ last_page(h, n) = Len(source)
         /\ n < 0 => last_page(h, n) = Len(source)
<1>1. Len(source) \in 1..MaxPages /\ h.next \in 1..(MaxPages + 1) /\ MaxPages \in Nat
  BY DatabaseSeq, BackupAssumption DEF Handle
<1> QED
  BY <1>1 DEF last_page

\* Every answer of the engine to a step.
LEMMA EngineStep ==
  ASSUME source \in Database, work \in Database, destination \in Database,
         NEW h \in Handle, Progress(h, work), NEW n \in -1..MaxPages,
         NEW e \in sqlite3_backup_step(h, n)
  PROVE  /\ e.handle \in Handle /\ e.work \in Database
         /\ \/ /\ e.rc = "OK" /\ n >= 0 /\ e.committed = destination
               /\ Progress(e.handle, e.work) /\ e.handle.state = "copying"
            \/ /\ e.rc = "DONE" /\ e.handle.state = "done"
               /\ h.state = "copying" => e.committed = source
               /\ h.state = "done" => e.committed = destination /\ e.handle = h
            \/ e.rc \in Failure /\ e.committed = destination
<1>1. CASE h.state = "done"
  BY <1>1 DEF sqlite3_backup_step
<1>2. CASE h.state = "copying"
  <2> DEFINE last == last_page(h, n)
             pages == copied(h, last)
             whole == SubSeq(pages, 1, Len(source))
  <2>1. /\ last \in 0..Len(source) /\ (last >= h.next - 1 \/ last = Len(source))
        /\ n < 0 => last = Len(source)
    BY LastPage
  <2>2. pages \in Database /\ last <= Len(pages) /\ \A p \in 1..last : pages[p] = source[p]
    BY <1>2, <2>1, CopiedPages
  <2>3. Len(source) \in 1..MaxPages /\ MaxPages \in Nat /\ Len(pages) \in 1..MaxPages
    BY <2>2, DatabaseSeq, BackupAssumption
  <2>4. \/ /\ last < Len(source)
           /\ e = [rc |-> "OK", work |-> pages, committed |-> destination,
                   handle |-> [h EXCEPT !.next = last + 1]]
        \/ /\ ~(last < Len(source))
           /\ e = [rc |-> "DONE", work |-> whole, committed |-> whole,
                   handle |-> [h EXCEPT !.state = "done"]]
        \/ \E c \in Failure :
             e = [rc |-> c, handle |-> h, work |-> work, committed |-> destination]
    BY <1>2 DEF sqlite3_backup_step
  <2> HIDE DEF last, pages
  <2>5. CASE /\ last < Len(source)
             /\ e = [rc |-> "OK", work |-> pages, committed |-> destination,
                     handle |-> [h EXCEPT !.next = last + 1]]
    <3>1. last + 1 \in 1..(MaxPages + 1)
      BY <2>1, <2>3, <2>5
    <3>2. e.handle \in Handle /\ e.handle.next = last + 1 /\ e.handle.state = "copying"
      BY <1>2, <2>5, <3>1 DEF Handle
    <3>3. n >= 0
      BY <2>1, <2>3, <2>5
    <3>4. e.handle.next - 1 = last /\ e.work = pages /\ last \in Nat
      BY <2>1, <2>3, <2>5, <3>2
    <3>5. Progress(e.handle, e.work)
      BY <2>2, <3>4 DEF Progress
    <3> QED
      BY <2>2, <2>5, <3>2, <3>3, <3>5
  <2>6. CASE /\ ~(last < Len(source))
             /\ e = [rc |-> "DONE", work |-> whole, committed |-> whole,
                     handle |-> [h EXCEPT !.state = "done"]]
    <3>1. last = Len(source)
      BY <2>1, <2>3, <2>6
    <3>2. whole = source
      BY <2>2, <3>1, Whole
    <3>3. e.handle \in Handle /\ e.handle.state = "done"
      BY <2>6 DEF Handle
    <3> QED
      BY <1>2, <2>6, <3>2, <3>3
  <2>7. CASE \E c \in Failure :
               e = [rc |-> c, handle |-> h, work |-> work, committed |-> destination]
    BY <2>7
  <2> QED
    BY <2>4, <2>5, <2>6, <2>7
<1> QED
  BY <1>1, <1>2 DEF Handle

----------------------------------------------------------------------------
(* Steps.                                                                  *)

LEMMA Class == \A c : class_of(c) \in Thrown
BY DEF class_of, Thrown

LEMMA Answers ==
  ASSUME TypeOK, NEW rc
  PROVE  /\ answered(rc) \in {"true", "false"} \cup Thrown
         /\ rc = "OK" => answered(rc) = "true"
         /\ rc = "DONE" => answered(rc) = "false"
         /\ rc \in Failure =>
              IF m_destination = "destination" THEN answered(rc) = class_of(rc)
              ELSE IF m_destination = "OK" THEN answered(rc) = "false"
              ELSE answered(rc) = class_of(m_destination)
<1>1. rc \in Failure => rc # "OK" /\ rc # "DONE" /\ rc # "destination"
  BY BackupAssumption
<1> QED
  BY <1>1, Class DEF answered, error_read, TypeOK

\* A step of the backup object on its engine's handle.
LEMMA StepAnswer ==
  ASSUME Inv, NEW n \in -1..MaxPages, Step(n), m_handle # NULL
  PROVE  \E rc :
           /\ ret' = [op |-> "step", out |-> answered(rc), rc |-> rc]
           /\ UNCHANGED <<source, m_destination>>
           /\ work' \in Database
           /\ \/ /\ rc = "OK" /\ m_handle' \in Handle /\ m_handle'.state = "copying"
                 /\ Progress(m_handle', work') /\ destination' = destination /\ err' = err
              \/ /\ rc = "DONE" /\ m_handle' \in Handle /\ m_handle'.state = "done"
                 /\ err' = err
                 /\ destination' = source \/ (destination' = destination /\ m_handle' = m_handle)
              \/ /\ rc \in Failure /\ m_handle' = NULL /\ destination' = destination
                 /\ work' = destination /\ err' = rc
<1>1. m_handle \in Handle /\ Progress(m_handle, work)
      /\ source \in Database /\ work \in Database /\ destination \in Database
  BY Handles DEF Inv, TypeOK, Copying, Step
<1>2. PICK e \in sqlite3_backup_step(m_handle, n) :
        /\ ret' = [op |-> "step", out |-> answered(e.rc), rc |-> e.rc]
        /\ destination' = e.committed
        /\ IF e.rc \in {"OK", "DONE"}
           THEN m_handle' = e.handle /\ work' = e.work /\ err' = err
           ELSE m_handle' = after_refusal(e.handle) /\ work' = destination /\ err' = e.rc
  BY DEF Step, Returned
<1>3. /\ e.handle \in Handle /\ e.work \in Database
      /\ \/ /\ e.rc = "OK" /\ n >= 0 /\ e.committed = destination
            /\ Progress(e.handle, e.work) /\ e.handle.state = "copying"
         \/ /\ e.rc = "DONE" /\ e.handle.state = "done"
            /\ m_handle.state = "copying" => e.committed = source
            /\ m_handle.state = "done" => e.committed = destination /\ e.handle = m_handle
         \/ e.rc \in Failure /\ e.committed = destination
  BY <1>1, EngineStep
<1>4. m_handle.state \in {"copying", "done"}
  BY <1>1 DEF Handle
<1>5. e.rc \in Failure => e.rc \notin {"OK", "DONE"}
  BY BackupAssumption
<1>6. UNCHANGED <<source, m_destination>>
  BY DEF Step
<1> QED
  BY <1>1, <1>2, <1>3, <1>4, <1>5, <1>6 DEF after_refusal

LEMMA StepInv ==
  ASSUME Inv, NEW n \in -1..MaxPages, Step(n)
  PROVE  Inv'
<1>1. UNCHANGED <<source, m_destination>> /\ m_handle # NoObject
  BY DEF Step
<1>2. CASE m_handle = NULL
  <2>1. /\ UNCHANGED <<source, destination, work, m_handle, m_destination, err>>
        /\ ret' = [op |-> "step", out |-> "null_dereference", rc |-> "none"]
    BY <1>2 DEF Step, Returned
  <2>2. TypeOK' /\ Ended'
    BY <1>2, <2>1 DEF Inv, TypeOK, Ended, Thrown
  <2>3. Copying'
    BY <1>2, <2>1, Handles DEF Copying
  <2> QED
    BY <2>2, <2>3 DEF Inv
<1>3. CASE m_handle # NULL
  <2>1. PICK rc :
           /\ ret' = [op |-> "step", out |-> answered(rc), rc |-> rc]
           /\ work' \in Database
           /\ \/ /\ rc = "OK" /\ m_handle' \in Handle /\ m_handle'.state = "copying"
                 /\ Progress(m_handle', work') /\ destination' = destination /\ err' = err
              \/ /\ rc = "DONE" /\ m_handle' \in Handle /\ m_handle'.state = "done"
                 /\ err' = err
                 /\ destination' = source \/ (destination' = destination /\ m_handle' = m_handle)
              \/ /\ rc \in Failure /\ m_handle' = NULL /\ destination' = destination
                 /\ work' = destination /\ err' = rc
    BY <1>3, StepAnswer
  <2>2. /\ answered(rc) \in {"true", "false"} \cup Thrown
        /\ rc = "OK" => answered(rc) = "true"
        /\ rc = "DONE" => answered(rc) = "false"
    BY Answers DEF Inv
  <2>3. m_handle' \in Handle => m_handle' # NULL /\ m_handle' # NoObject
    BY Handles
  <2>4. TypeOK'
    BY <1>1, <2>1, <2>2, <2>3, Handles DEF Inv, TypeOK, Thrown
  <2>5. Copying'
    BY <1>1, <2>1, Handles DEF Copying, Progress
  <2>6. Ended'
    BY <2>1, <2>2 DEF Ended
  <2> QED
    BY <2>4, <2>5, <2>6 DEF Inv
<1> QED
  BY <1>2, <1>3

LEMMA ConstructInv ==
  ASSUME Inv, Construct
  PROVE  Inv'
<1>1. /\ UNCHANGED <<source, destination, m_destination>> /\ m_handle = NoObject
      /\ ret'.op = "construct"
      /\ \/ /\ m_handle' = started /\ work' = destination /\ err' = err
            /\ ret' = [op |-> "construct", out |-> "returned", rc |-> "OK"]
         \/ \E c \in Failure : /\ ret' = [op |-> "construct", out |-> class_of(c), rc |-> c]
                               /\ UNCHANGED <<m_handle, work>> /\ err' = c
  BY DEF Construct, Returned
<1>2. TypeOK'
  BY <1>1, Handles, Class DEF Inv, TypeOK, Thrown
<1>3. Len(destination) \in Nat
  BY DatabaseSeq, BackupAssumption DEF Inv, TypeOK
<1>4. Copying'
  <2>1. CASE m_handle' = started /\ work' = destination
    BY <1>3, <2>1 DEF Copying, Progress, started
  <2>2. CASE UNCHANGED m_handle
    BY <1>1, <2>2, Handles DEF Copying
  <2> QED
    BY <1>1, <2>1, <2>2
<1> QED
  BY <1>1, <1>2, <1>4 DEF Inv, Ended

LEMMA WriteInv ==
  ASSUME Inv, WriteSource
  PROVE  Inv'
<1>1. PICK new \in Database :
        /\ source' = new
        /\ IF m_handle \in Handle /\ m_handle.state = "copying"
           THEN \/ m_handle' = restarted(m_handle) /\ work' = work
                \/ m_handle' = m_handle /\ work' = repeated(m_handle, new)
           ELSE UNCHANGED <<m_handle, work>>
  BY DEF WriteSource
<1>2. UNCHANGED <<destination, m_destination, err, ret>>
  BY DEF WriteSource
<1>3. CASE ~(m_handle \in Handle /\ m_handle.state = "copying")
  <2>1. UNCHANGED <<m_handle, work>>
    BY <1>1, <1>3
  <2>2. TypeOK' /\ Ended'
    BY <1>1, <1>2, <2>1 DEF Inv, TypeOK, Ended
  <2>3. Copying'
    BY <1>3, <2>1 DEF Copying, Progress, Handle
  <2> QED
    BY <2>2, <2>3 DEF Inv
<1>4. CASE m_handle \in Handle /\ m_handle.state = "copying"
  <2>1. /\ work \in Database /\ Len(work) \in 1..MaxPages /\ work \in [1..Len(work) -> Content]
        /\ Len(new) \in 1..MaxPages /\ new \in [1..Len(new) -> Content]
        /\ MaxPages \in Nat /\ m_handle.next \in 1..(MaxPages + 1)
        /\ m_handle.next - 1 <= Len(work)
    BY <1>4, DatabaseSeq, BackupAssumption DEF Inv, TypeOK, Handle, Copying, Progress
  <2>2. CASE m_handle' = restarted(m_handle) /\ work' = work
    <3>1. m_handle' \in Handle /\ m_handle'.next = 1 /\ m_handle'.state = "copying"
      BY <1>4, <2>1, <2>2 DEF restarted, Handle
    <3>2. Copying'
      BY <2>1, <2>2, <3>1 DEF Copying, Progress
    <3>3. m_handle \notin {NULL, NoObject} /\ m_handle' \notin {NULL, NoObject}
      BY <1>4, <3>1, Handles
    <3>4. TypeOK'
      BY <1>1, <1>2, <2>2, <3>1, <3>3 DEF Inv, TypeOK
    <3>5. Ended'
      BY <1>2, <1>4, <3>3 DEF Inv, Ended
    <3> QED
      BY <3>2, <3>4, <3>5 DEF Inv
  <2>3. CASE m_handle' = m_handle /\ work' = repeated(m_handle, new)
    <3>1. DOMAIN work = 1..Len(work)
      BY <2>1
    <3>2. work' = [p \in 1..Len(work) |->
                     IF p < m_handle.next /\ p <= Len(new) THEN new[p] ELSE work[p]]
      BY <2>3, <3>1 DEF repeated
    <3>3. work' \in [1..Len(work) -> Content]
      BY <2>1, <3>2
    <3>4. work' \in Database /\ Len(work') = Len(work)
      BY <2>1, <3>3, SeqDatabase
    <3>5. Copying'
      BY <1>1, <2>1, <2>3, <3>2, <3>4 DEF Copying, Progress
    <3>6. m_handle \notin {NULL, NoObject}
      BY <1>4, Handles
    <3>7. TypeOK' /\ Ended'
      BY <1>1, <1>2, <2>3, <3>4, <3>6 DEF Inv, TypeOK, Ended
    <3> QED
      BY <3>5, <3>7 DEF Inv
  <2> QED
    BY <1>1, <1>4, <2>2, <2>3
<1> QED
  BY <1>3, <1>4

\* Without an object every answer of the step of save() is an end or a failure.
LEMMA SaveAnswer ==
  ASSUME Inv, Save
  PROVE  /\ UNCHANGED <<source, m_handle, m_destination, err>>
         /\ m_handle = NoObject /\ m_destination = "destination"
         /\ destination' \in {source, destination} /\ work' = destination'
         /\ \/ \E c \in Failure : ret' = [op |-> "save", out |-> class_of(c), rc |-> c]
            \/ ret' = [op |-> "save", out |-> "returned", rc |-> "DONE"] /\ destination' = source
<1>1. /\ UNCHANGED <<source, m_handle, m_destination, err>> /\ work' = destination'
      /\ m_handle = NoObject /\ m_destination = "destination"
  BY DEF Save, Inv, TypeOK
<1>2. CASE \E c \in Failure : Returned("save", class_of(c), c) /\ UNCHANGED destination
  BY <1>1, <1>2 DEF Returned
<1>3. ASSUME NEW e \in sqlite3_backup_step(started, save_pages),
             Returned("save", IF answered(e.rc) \in Thrown THEN answered(e.rc) ELSE "returned", e.rc),
             destination' = e.committed
      PROVE  /\ destination' \in {source, destination}
             /\ \/ \E c \in Failure : ret' = [op |-> "save", out |-> class_of(c), rc |-> c]
                \/ /\ ret' = [op |-> "save", out |-> "returned", rc |-> "DONE"]
                   /\ destination' = source
  <2>1. work \in Database /\ source \in Database /\ destination \in Database /\ Len(work) \in Nat
    BY DatabaseSeq, BackupAssumption DEF Inv, TypeOK
  <2>2. started \in Handle /\ Progress(started, work) /\ started.state = "copying"
    BY <2>1, Handles DEF Progress, started
  <2>3. save_pages \in -1..MaxPages /\ ~(save_pages >= 0)
    BY BackupAssumption DEF save_pages
  <2>4. \/ e.rc = "DONE" /\ e.committed = source
        \/ e.rc \in Failure /\ e.committed = destination
    BY <2>1, <2>2, <2>3, EngineStep
  <2>5. /\ e.rc = "DONE" => answered(e.rc) \notin Thrown
        /\ e.rc \in Failure => answered(e.rc) = class_of(e.rc) /\ answered(e.rc) \in Thrown
    BY <1>1, Answers, Class DEF Inv, Thrown
  <2> QED
    BY <1>3, <2>4, <2>5 DEF Returned
<1> QED
  BY <1>1, <1>2, <1>3 DEF Save

LEMMA SaveInv ==
  ASSUME Inv, Save
  PROVE  Inv'
<1>1. /\ UNCHANGED <<source, m_handle, m_destination, err>>
      /\ m_handle = NoObject /\ destination' \in {source, destination} /\ work' = destination'
      /\ ret'.op = "save" /\ ret'.out \in {"returned"} \cup Thrown
  BY SaveAnswer, Class
<1>2. TypeOK'
  BY <1>1 DEF Inv, TypeOK
<1>3. Copying' /\ Ended'
  BY <1>1, Handles DEF Copying, Ended
<1> QED
  BY <1>2, <1>3 DEF Inv

\* The other steps.
LEMMA RestInv ==
  ASSUME Inv, Count \/ Reassign \/ Destroy
  PROVE  Inv'
<1>1. CASE Count
  <2>1. m_handle = NULL /\ UNCHANGED <<source, destination, work, m_handle, m_destination, err>>
        /\ ret' = [op |-> "count", out |-> "null_dereference", rc |-> "none"]
    BY <1>1 DEF Count, Returned
  <2> QED
    BY <2>1, Handles DEF Inv, TypeOK, Copying, Ended, Thrown
<1>2. CASE Reassign
  <2>1. UNCHANGED <<source, destination, work, m_handle, err, ret>> /\ m_handle # NoObject
        /\ m_destination' \in Failure \cup {"OK"}
    BY <1>2 DEF Reassign
  <2> QED
    BY <2>1 DEF Inv, TypeOK, Copying, Progress, Ended
<1>3. CASE Destroy
  <2>1. m_handle' = NoObject /\ m_destination' = "destination" /\ work' = destination
        /\ UNCHANGED <<source, destination>> /\ err' \in {err, "OK"}
        /\ ret' = [op |-> "destroy", out |-> "returned", rc |-> "none"]
    BY <1>3 DEF Destroy, Returned
  <2>2. TypeOK'
    BY <2>1 DEF Inv, TypeOK, Thrown
  <2> QED
    BY <2>1, <2>2, Handles DEF Inv, Copying, Ended
<1> QED
  BY <1>1, <1>2, <1>3

LEMMA InitInv == Init => Inv
BY Handles, BackupAssumption DEF Init, Inv, TypeOK, Copying, Ended

LEMMA NextInv == Inv /\ [Next]_vars => Inv'
<1> SUFFICES ASSUME Inv, [Next]_vars
             PROVE  Inv'
  OBVIOUS
<1>1. CASE UNCHANGED vars
  BY <1>1 DEF vars, Inv, TypeOK, Copying, Progress, Ended
<1>2. CASE \E n \in -1..MaxPages : Step(n)
  BY <1>2, StepInv
<1>3. CASE Construct \/ Save \/ WriteSource
  BY <1>3, ConstructInv, SaveInv, WriteInv
<1>4. CASE Count \/ Reassign \/ Destroy
  BY <1>4, RestInv
<1> QED
  BY <1>1, <1>2, <1>3, <1>4 DEF Next

LEMMA Invariance == Spec => []Inv
BY InitInv, NextInv, PTL DEF Spec

----------------------------------------------------------------------------
\* An object that exists or has thrown is what its handle says, and a call that
\* has thrown has given the engine's object up (Backup.cpp).
THEOREM TypeCorrect == Spec => []TypeOK
<1>1. Inv => TypeOK
  BY DEF Inv
<1> QED
  BY <1>1, Invariance, PTL

\* Whatever the engine refuses and whenever the source is written, the destination
\* only ever becomes, at once, the whole source of that moment (Backup.cpp).
THEOREM CopiesAreWhole == Spec => CopiesWhole
<1>1. Init => CopyOf!Init
  BY DEF Init, CopyOf!Init
<1>2. Inv /\ [Next]_vars => [CopyOf!Next]_<<source, destination>>
  <2> SUFFICES ASSUME Inv, [Next]_vars
               PROVE  CopyOf!Next \/ UNCHANGED <<source, destination>>
    OBVIOUS
  <2>1. CASE UNCHANGED vars
    BY <2>1 DEF vars
  <2>2. ASSUME NEW n \in -1..MaxPages, Step(n)
        PROVE  CopyOf!Next \/ UNCHANGED <<source, destination>>
    <3>1. CASE m_handle = NULL
      BY <2>2, <3>1 DEF Step
    <3>2. CASE m_handle # NULL
      <4>1. UNCHANGED source /\ destination' \in {source, destination}
        BY <2>2, <3>2, StepAnswer
      <4> QED
        BY <4>1 DEF CopyOf!Next, CopyOf!CopyAll
    <3> QED
      BY <3>1, <3>2
  <2>3. CASE Save
    BY <2>3, SaveAnswer DEF CopyOf!Next, CopyOf!CopyAll
  <2>4. CASE WriteSource
    BY <2>4 DEF WriteSource, CopyOf!Next, CopyOf!Write
  <2>5. CASE Construct \/ Count \/ Reassign \/ Destroy
    BY <2>5 DEF Construct, Count, Reassign, Destroy
  <2> QED
    BY <2>1, <2>2, <2>3, <2>4, <2>5 DEF Next
<1> QED
  BY <1>1, <1>2, Invariance, PTL DEF Spec, CopiesWhole, CopyOf!Spec

\* As long as it looks at the right connection, an object never takes a failure
\* for the end of the copy, nor the end for a failure (Backup.cpp, step).
THEOREM FailuresAreRaised == Spec => []FailureIsRaised
<1>1. Init => FailureIsRaised
  BY DEF Init, FailureIsRaised
<1>2. Inv /\ FailureIsRaised /\ [Next]_vars => FailureIsRaised'
  <2> SUFFICES ASSUME Inv, FailureIsRaised, [Next]_vars
               PROVE  FailureIsRaised'
    OBVIOUS
  <2>1. CASE UNCHANGED vars
    BY <2>1 DEF vars, FailureIsRaised
  <2>2. ASSUME NEW n \in -1..MaxPages, Step(n)
        PROVE  FailureIsRaised'
    <3>1. CASE m_handle = NULL
      <4>1. ret' = [op |-> "step", out |-> "null_dereference", rc |-> "none"]
        BY <2>2, <3>1 DEF Step, Returned
      <4> QED
        BY <4>1, BackupAssumption DEF FailureIsRaised, Thrown
    <3>2. CASE m_handle # NULL
      <4>1. PICK rc : /\ ret' = [op |-> "step", out |-> answered(rc), rc |-> rc]
                      /\ UNCHANGED m_destination
                      /\ rc = "OK" \/ rc = "DONE" \/ rc \in Failure
        BY <2>2, <3>2, StepAnswer
      <4>2. /\ rc = "OK" => answered(rc) = "true"
            /\ rc = "DONE" => answered(rc) = "false"
            /\ rc \in Failure /\ m_destination = "destination" => answered(rc) = class_of(rc)
        BY Answers DEF Inv
      <4> QED
        BY <4>1, <4>2, BackupAssumption DEF FailureIsRaised, Thrown
    <3> QED
      BY <3>1, <3>2
  <2>3. CASE Save
    BY <2>3, SaveAnswer, BackupAssumption DEF FailureIsRaised, Thrown
  <2>4. CASE Construct \/ Count \/ Destroy
    BY <2>4 DEF Construct, Count, Destroy, Returned, FailureIsRaised
  <2>5. CASE Reassign
    <3>1. m_destination' # "destination"
      BY <2>5, BackupAssumption DEF Reassign
    <3> QED
      BY <3>1 DEF FailureIsRaised
  <2>6. CASE WriteSource
    BY <2>6 DEF WriteSource, FailureIsRaised
  <2> QED
    BY <2>1, <2>2, <2>3, <2>4, <2>5, <2>6 DEF Next
<1> QED
  BY <1>1, <1>2, Invariance, PTL DEF Spec

\* The first "no more pages" means that the destination is the source, unless the
\* destination's object has been given another connection (Backup.cpp, step).
THEOREM DoneIsCopied == Spec => DoneMeansCopied
<1>1. Inv /\ [Next]_vars =>
        [ret'.op = "step" /\ ret'.out = "false" /\ m_handle # m_handle'
           => destination' = source \/ m_destination = "OK"]_vars
  <2> SUFFICES ASSUME Inv, [Next]_vars, ~UNCHANGED vars, m_handle # m_handle',
                      ret'.op = "step", ret'.out = "false"
               PROVE  destination' = source \/ m_destination = "OK"
    OBVIOUS
  <2>1. ASSUME NEW n \in -1..MaxPages, Step(n)
        PROVE  destination' = source \/ m_destination = "OK"
    <3>1. m_handle # NULL
      BY <2>1 DEF Step
    <3>2. PICK rc :
            /\ ret' = [op |-> "step", out |-> answered(rc), rc |-> rc]
            /\ \/ rc = "OK"
               \/ rc = "DONE" /\ (destination' = source \/ m_handle' = m_handle)
               \/ rc \in Failure
      BY <2>1, <3>1, StepAnswer
    <3>3. /\ rc = "OK" => answered(rc) = "true"
          /\ rc \in Failure /\ m_destination # "OK" => answered(rc) \in Thrown
      BY Answers, Class DEF Inv
    <3> QED
      BY <3>2, <3>3 DEF Thrown
  <2>2. CASE WriteSource
    <3>1. UNCHANGED ret
      BY <2>2 DEF WriteSource
    <3>2. m_handle = NULL \/ m_handle.state = "done"
      BY <3>1 DEF Inv, Ended
    <3>3. m_handle' = m_handle
      BY <2>2, <3>2, Handles DEF WriteSource
    <3> QED
      BY <3>3
  <2>3. CASE Construct \/ Count \/ Reassign \/ Destroy \/ Save
    BY <2>3 DEF Construct, Count, Reassign, Destroy, Save, Returned
  <2> QED
    BY <2>1, <2>2, <2>3 DEF Next
<1> QED
  BY <1>1, Invariance, PTL DEF Spec, DoneMeansCopied

\* save() returns only with the whole source in the file (Backup.cpp, save).
THEOREM SavesAreComplete == Spec => SaveCopies
<1>1. Inv /\ [Next]_vars => [Save /\ ret'.out = "returned" => destination' = source]_vars
  <2> SUFFICES ASSUME Inv, Save, ret'.out = "returned"
               PROVE  destination' = source
    OBVIOUS
  <2> QED
    BY SaveAnswer, Class DEF Thrown
<1> QED
  BY <1>1, Invariance, PTL DEF Spec, SaveCopies
=============================================================================
