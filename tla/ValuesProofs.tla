---------------------------- MODULE ValuesProofs ----------------------------
(***************************************************************************)
(* Theorems about Values, for any number of objects and any lengths: each  *)
(* duplicate has one owner, contents survive, blobs are whole, and only    *)
(* moved-from objects break.                                               *)
(*                                                                         *)
(* These properties are inductive together with the types; Whole says what *)
(* a blob object is, Holds what a value object owns.                       *)
(***************************************************************************)
EXTENDS Values, TLAPS

\* Only a BLOB loses its bytes to a conversion, in the row as in a duplicate.
RowLoses == row # None /\ row.lost => row.of.type = "blob"

Inv == TypeOK /\ OneOwner /\ ContentSurvives /\ BlobIsWhole /\ OnlyMovedFromBreaks /\ RowLoses

\* Every owned duplicate is there.
LEMMA Owned ==
  ASSUME TypeOK, OneOwner, NEW v \in Value, handle[v] # None
  PROVE  handle[v] \in Id /\ heap[handle[v]] \in Cell /\ heap[handle[v]] # None
BY DEF TypeOK, OneOwner

\* A conversion keeps what the cell is of, and loses nothing but of a BLOB.
LEMMA TextIn ==
  ASSUME NEW m \in Cell, NEW e \in Encoding
  PROVE  /\ text_in(m, e) \in Cell
         /\ text_in(m, e).of = m.of
         /\ text_in(m, e).lost => m.lost \/ m.of.type = "blob"
BY DEF text_in, Cell, Encoding

LEMMA BlobOf ==
  ASSUME NEW m \in Cell
  PROVE  /\ blob_of(m) \in Cell
         /\ blob_of(m).of = m.of
         /\ blob_of(m).lost => m.lost \/ m.of.type = "blob"
<1>1. CASE m.of.type = "integer" /\ m.rep = "none"
  BY <1>1, TextIn DEF blob_of, Encoding
<1>2. CASE ~(m.of.type = "integer" /\ m.rep = "none")
  BY <1>2 DEF blob_of, Cell
<1> QED
  BY <1>1, <1>2

LEMMA BytesOf ==
  ASSUME NEW m \in Cell
  PROVE  /\ bytes_of(m) \in Cell
         /\ bytes_of(m).of = m.of
         /\ bytes_of(m).lost => m.lost \/ m.of.type = "blob"
BY TextIn DEF bytes_of, Encoding

LEMMA Converted ==
  ASSUME NEW m \in Cell, NEW how \in Conversion
  PROVE  /\ converted(m, how) \in Cell
         /\ converted(m, how).of = m.of
         /\ converted(m, how).lost => m.lost \/ m.of.type = "blob"
<1>1. /\ blob_cell(m) \in Cell
      /\ blob_cell(m).of = m.of
      /\ blob_cell(m).lost => m.lost \/ m.of.type = "blob"
  BY BlobOf, BytesOf DEF blob_cell
<1> QED
  BY <1>1, TextIn, BytesOf DEF converted, Encoding

\* The data and the length that get_blob asks for belong together.
LEMMA Made ==
  ASSUME NEW m \in Cell
  PROVE  /\ made(m) \in [data : Nat \cup {None}, size : Nat]
         /\ IF made(m).data # None THEN made(m).size = made(m).data ELSE made(m).size = 0
<1>1. blob_of(m) \in Cell /\ blob_cell(m) \in Cell
  BY BlobOf, BytesOf DEF blob_cell
<1>2. Size(blob_of(m)) = Size(blob_cell(m))
  BY DEF blob_cell, bytes_of, blob_of, text_in, Size, Cell, Encoding
<1>3. Size(blob_of(m)) \in Nat /\ (m.of.n = 0 => Size(blob_of(m)) = 0)
  BY <1>1, BlobOf DEF Size, Cell, Content
<1> QED
  BY <1>2, <1>3, ValuesAssumption DEF made

LEMMA FreshCell ==
  ASSUME TypeOK, NEW c \in Content
  PROVE  Fresh(c) \in Cell /\ Fresh(c).of = c /\ ~Fresh(c).lost
BY DEF Fresh, Cell, TypeOK, Encoding

LEMMA ColumnCell ==
  ASSUME TypeOK, NEW i
  PROVE  /\ column(i) \in Cell /\ column(i) # None /\ column(i).of \in Content
         /\ RowLoses /\ column(i).lost => column(i).of.type = "blob"
<1>1. Fresh(null) \in Cell /\ ~Fresh(null).lost
  BY FreshCell DEF null, Content, datatype
<1>2. column(i) \in Cell
  BY <1>1 DEF column, TypeOK
<1>3. RowLoses /\ column(i).lost => column(i).of.type = "blob"
  BY <1>1 DEF column, RowLoses
<1> QED
  BY <1>2, <1>3, ValuesAssumption DEF Cell

----------------------------------------------------------------------------
(* Steps.                                                                  *)

\* The source of the data: no object is touched.
LEMMA SourceInv ==
  ASSUME Inv, stopped = "no",
         \/ BindNumber \/ ClearBindings \/ ChangeBuffer \/ Insert \/ Prepare \/ Fetch
         \/ GetMissing
         \/ \E type \in bindtype : BindBytes(type) \/ \E e \in Encoding : BindText(type, e)
         \/ \E b \in Blob : BindBlob(b)
  PROVE  Inv'
<1> DEFINE Bound == [of : Content, type : bindtype, data : BOOLEAN]
           Same == UNCHANGED <<handle, heap, taken, blob, moved, enc, names>>
           Read == /\ row' \in Cell \cup {None} /\ disturbed' \in BOOLEAN
                   /\ RowLoses' /\ stopped' \in {"no", "terminated"}
           Fill == /\ buffer' \in Length \cup {None} /\ param' \in Bound \cup {None}
                   /\ (param' # None => buffer' \in Length) /\ stored' \in Content
<1>1. ASSUME NEW c \in Content, NEW type \in bindtype, NEW data \in BOOLEAN, bound(c, type, data)
      PROVE  Same /\ Read /\ Fill
  BY <1>1 DEF bound, Inv, TypeOK, RowLoses, reading, values
<1>2. null \in Content /\ [type |-> "integer", n |-> 1] \in Content /\ "transiently" \in bindtype
  BY DEF null, Content, datatype, bindtype
<1>3. ASSUME BindNumber PROVE Same /\ Read /\ Fill
  BY <1>1, <1>2, <1>3 DEF BindNumber
<1>4. ASSUME ClearBindings PROVE Same /\ Read /\ Fill
  BY <1>1, <1>2, <1>4 DEF ClearBindings
<1>5. ASSUME NEW type \in bindtype, BindBytes(type) \/ \E e \in Encoding : BindText(type, e)
      PROVE  Same /\ Read /\ Fill
  <2>1. buffer \in Nat
    BY <1>5, ValuesAssumption DEF BindText, BindBytes, bound, Inv, TypeOK
  <2>2. [type |-> "text", n |-> buffer] \in Content /\ [type |-> "blob", n |-> buffer] \in Content
    BY <2>1 DEF Content, datatype
  <2> QED
    BY <1>1, <1>2, <1>5, <2>2 DEF BindText, BindBytes
<1>6. ASSUME NEW b \in Blob, BindBlob(b) PROVE Same /\ Read /\ Fill
  <2>1. blob[b].size \in Nat
    BY DEF Inv, TypeOK
  <2>2. [type |-> "blob", n |-> blob[b].size] \in Content
    BY <2>1 DEF Content, datatype
  <2> QED
    BY <1>1, <1>2, <1>6, <2>2 DEF BindBlob
<1>7. ASSUME ChangeBuffer PROVE Same /\ Read /\ Fill
  BY <1>7 DEF ChangeBuffer, Inv, TypeOK, RowLoses, reading, values
<1>8. ASSUME Insert PROVE Same /\ Read /\ Fill
  <2>1. content(param) \in Content
    <3>1. param \in Bound /\ buffer \in Nat
      BY <1>8, ValuesAssumption DEF Insert, Inv, TypeOK
    <3>2. [param.of EXCEPT !.n = buffer] \in Content
      BY <3>1 DEF Content
    <3> QED
      BY <1>2, <3>1, <3>2 DEF content
  <2> QED
    BY <1>8, <2>1 DEF Insert, Inv, TypeOK, RowLoses, reading, values
<1>9. ASSUME Prepare PROVE Same /\ Read /\ Fill
  BY <1>9 DEF Prepare, Inv, TypeOK, RowLoses, reading, values
<1>10. ASSUME Fetch PROVE Same /\ Read /\ Fill
  <2>1. Fresh(stored) \in Cell /\ ~Fresh(stored).lost
    BY FreshCell DEF Inv, TypeOK
  <2> QED
    BY <1>10, <2>1 DEF Fetch, Inv, TypeOK, RowLoses, filling, values
<1>11. ASSUME GetMissing PROVE Same /\ Read /\ Fill
  BY <1>11 DEF GetMissing, Inv, TypeOK, RowLoses, filling, reading, values
<1>12. Same /\ Read /\ Fill
  BY <1>3, <1>4, <1>5, <1>6, <1>7, <1>8, <1>9, <1>10, <1>11
<1>13. TypeOK'
  BY <1>12 DEF Inv, TypeOK
<1>14. OneOwner' /\ ContentSurvives' /\ BlobIsWhole'
  BY <1>12 DEF Inv, OneOwner, ContentSurvives, BlobIsWhole, type_of
<1>15. OnlyMovedFromBreaks'
  BY <1>12 DEF OnlyMovedFromBreaks
<1> QED
  BY <1>12, <1>13, <1>14, <1>15 DEF Inv

\* What the result of a conversion leaves of the blob objects.
LEMMA ResultsInv ==
  ASSUME Inv, NEW m \in Cell, NEW how \in Conversion, NEW b \in Blob, results(m, how, b)
  PROVE  /\ blob' \in [Blob -> [data : Nat \cup {None}, size : Nat]]
         /\ moved' \subseteq Value \cup Blob
         /\ \A c \in Blob \cap moved' : blob'[c].data = None
         /\ \A v \in Value : v \in moved' <=> v \in moved
         /\ BlobIsWhole'
<1>1. CASE how = "blob"
  BY <1>1, Made, ValuesAssumption DEF results, Inv, TypeOK, BlobIsWhole
<1>2. CASE how # "blob"
  BY <1>2 DEF results, Inv, TypeOK, BlobIsWhole
<1> QED
  BY <1>1, <1>2

LEMMA GetInv ==
  ASSUME Inv, stopped = "no", NEW i, NEW how \in Conversion, NEW b \in Blob, Get(i, how, b)
  PROVE  Inv'
<1>1. column(i) \in Cell /\ results(column(i), how, b)
  BY ColumnCell DEF Get, Inv
<1>2. /\ blob' \in [Blob -> [data : Nat \cup {None}, size : Nat]]
      /\ moved' \subseteq Value \cup Blob
      /\ \A c \in Blob \cap moved' : blob'[c].data = None
      /\ \A v \in Value : v \in moved' <=> v \in moved
      /\ BlobIsWhole'
  BY <1>1, ResultsInv
<1>3. row' \in Cell \cup {None} /\ RowLoses'
  <2>1. CASE row = None \/ i # 1
    BY <2>1 DEF Get, Inv, TypeOK, RowLoses
  <2>2. CASE row # None /\ i = 1
    <3>1. row \in Cell /\ row' = converted(row, how)
      BY <2>2 DEF Get, Inv, TypeOK
    <3> QED
      BY <2>2, <3>1, Converted DEF Inv, RowLoses
  <2> QED
    BY <2>1, <2>2
<1>4. disturbed' \in BOOLEAN
  BY DEF Get, Inv, TypeOK, disturbs
<1>5. UNCHANGED <<enc, names, buffer, param, stored, handle, heap, taken, stopped>>
  BY DEF Get, filling, values
<1>6. TypeOK'
  BY <1>2, <1>3, <1>4, <1>5 DEF Inv, TypeOK
<1>7. OneOwner' /\ ContentSurvives' /\ OnlyMovedFromBreaks'
  BY <1>5 DEF Inv, OneOwner, ContentSurvives, OnlyMovedFromBreaks, type_of
<1> QED
  BY <1>2, <1>3, <1>6, <1>7 DEF Inv

----------------------------------------------------------------------------
(* value.                                                                  *)

\* v owns a new duplicate of m; every other object keeps its own.
LEMMA Holds ==
  ASSUME TypeOK, OneOwner, NEW v \in Value, NEW m \in Cell \cup {None}, NEW of,
         holds(v, m, of)
  PROVE  /\ handle' \in [Value -> Id \cup {None}]
         /\ heap' \in [Id -> Cell \cup {None}]
         /\ OneOwner'
         /\ taken' = [taken EXCEPT ![v] = of]
         /\ IF m = None THEN handle'[v] = None
            ELSE handle'[v] # None /\ heap'[handle'[v]] = m
         /\ \A w \in Value \ {v} :
              handle'[w] = handle[w] /\ (handle[w] # None => heap'[handle[w]] = heap[handle[w]])
<1>1. PICK new \in Id \cup {None} :
        /\ IF m = None THEN new = None ELSE new # None /\ heap[new] = None
        /\ handle' = [handle EXCEPT ![v] = new]
        /\ heap' = [i \in Id |-> IF i = new THEN m ELSE IF i = handle[v] THEN None ELSE heap[i]]
  BY DEF holds
<1>2. handle' \in [Value -> Id \cup {None}] /\ handle'[v] = new
      /\ \A w \in Value \ {v} : handle'[w] = handle[w]
  BY <1>1 DEF TypeOK
<1>3. heap' \in [Id -> Cell \cup {None}]
  BY <1>1 DEF TypeOK
<1>4. \A w \in Value : handle[w] # None => handle[w] \in Id /\ handle[w] # new
  BY <1>1, Owned
<1>5. \A w \in Value \ {v} : handle[w] # None => handle[w] # handle[v]
  BY DEF OneOwner
<1>6. \A w \in Value \ {v} : handle[w] # None => heap'[handle[w]] = heap[handle[w]]
  BY <1>1, <1>4, <1>5
<1>7. IF m = None THEN handle'[v] = None ELSE handle'[v] # None /\ heap'[handle'[v]] = m
  BY <1>1, <1>2
<1>8. OneOwner'
  <2>1. \A u, w \in Value : handle'[u] # None /\ handle'[u] = handle'[w] => u = w
    BY <1>2, <1>4 DEF OneOwner
  <2>2. ASSUME NEW i \in Id PROVE heap'[i] # None <=> \E w \in Value : handle'[w] = i
    <3>1. None \notin Id
      BY ValuesAssumption
    <3>2. CASE i = new
      BY <1>1, <1>2, <3>1, <3>2
    <3>3. CASE i # new /\ i = handle[v]
      BY <1>1, <1>2, <1>5, <3>1, <3>3
    <3>4. CASE i # new /\ i # handle[v]
      BY <1>1, <1>2, <3>4 DEF OneOwner
    <3> QED
      BY <3>2, <3>3, <3>4
  <2> QED
    BY <2>1, <2>2 DEF OneOwner
<1> QED
  BY <1>2, <1>3, <1>6, <1>7, <1>8 DEF holds

\* An object that holds the duplicate of a cell of which c is the content.
LEMMA HoldsInv ==
  ASSUME Inv, stopped = "no", NEW v \in Value, NEW m \in Cell \cup {None},
         NEW c \in Content \cup {None}, holds(v, m, c),
         m # None => m.of = c /\ (m.lost => c.type = "blob"),
         moved' \subseteq Value \cup Blob,
         \A w \in (Value \cup Blob) \ {v} : w \in moved' <=> w \in moved,
         v \in moved' => m = None,
         UNCHANGED <<enc, names, filling, reading, blob, stopped>>
  PROVE  Inv'
<1>1. /\ handle' \in [Value -> Id \cup {None}]
      /\ heap' \in [Id -> Cell \cup {None}]
      /\ OneOwner'
      /\ taken' = [taken EXCEPT ![v] = c]
      /\ IF m = None THEN handle'[v] = None
         ELSE handle'[v] # None /\ heap'[handle'[v]] = m
      /\ \A w \in Value \ {v} :
           handle'[w] = handle[w] /\ (handle[w] # None => heap'[handle[w]] = heap[handle[w]])
  BY Holds DEF Inv
<1>2. taken' \in [Value -> Content \cup {None}] /\ taken'[v] = c
      /\ \A w \in Value \ {v} : taken'[w] = taken[w]
  BY <1>1 DEF Inv, TypeOK
<1>3. \A b \in Blob : b \in moved' <=> b \in moved
  BY ValuesAssumption
<1>4. \A w \in Value \cap moved' : handle'[w] = None
  BY <1>1 DEF Inv, TypeOK
<1>5. UNCHANGED <<enc, names, buffer, param, stored, row, disturbed, blob, stopped>>
  BY DEF filling, reading
<1>6. \A b \in Blob \cap moved' : blob'[b].data = None
  BY <1>3, <1>5 DEF Inv, TypeOK
<1>7. TypeOK'
  BY <1>1, <1>2, <1>4, <1>5, <1>6 DEF Inv, TypeOK
<1>8. ContentSurvives'
  <2>1. ASSUME NEW w \in Value, handle'[w] # None
        PROVE  /\ heap'[handle'[w]].of = taken'[w]
               /\ heap'[handle'[w]].lost => taken'[w].type = "blob"
    <3>1. CASE w = v
      BY <1>1, <1>2, <2>1, <3>1
    <3>2. CASE w # v
      BY <1>1, <1>2, <2>1, <3>2 DEF Inv, ContentSurvives
    <3> QED
      BY <3>1, <3>2
  <2> QED
    BY <2>1 DEF ContentSurvives, type_of
<1>9. BlobIsWhole' /\ OnlyMovedFromBreaks' /\ RowLoses'
  BY <1>3, <1>5 DEF Inv, BlobIsWhole, OnlyMovedFromBreaks, RowLoses
<1> QED
  BY <1>1, <1>7, <1>8, <1>9 DEF Inv

LEMMA GetValueInv ==
  ASSUME Inv, stopped = "no", NEW i, NEW v \in Value, GetValue(i, v)
  PROVE  Inv'
<1>1. /\ column(i) \in Cell /\ column(i) # None /\ column(i).of \in Content
      /\ column(i).lost => column(i).of.type = "blob"
  BY ColumnCell DEF Inv
<1>2. holds(v, column(i), column(i).of) /\ moved' = moved \ {v} /\ moved \subseteq Value \cup Blob
  BY DEF GetValue, Inv, TypeOK
<1>3. UNCHANGED <<enc, names, filling, reading, blob, stopped>>
  BY DEF GetValue
<1> QED
  BY <1>1, <1>2, <1>3, HoldsInv

\* What a living object owns, and what it is of.
LEMMA DupCell ==
  ASSUME Inv, NEW v \in Value
  PROVE  /\ dup(v) \in Cell \cup {None} /\ taken[v] \in Content \cup {None}
         /\ dup(v) # None => dup(v).of = taken[v] /\ (dup(v).lost => taken[v].type = "blob")
         /\ v \in moved => dup(v) = None
BY Owned DEF dup, Inv, TypeOK, ContentSurvives

LEMMA CopyValueInv ==
  ASSUME Inv, stopped = "no", NEW v \in Value, NEW w \in Value, CopyValue(v, w)
  PROVE  Inv'
<1>1. UNCHANGED <<enc, names, filling, reading, blob, stopped>> /\ moved' = moved_from(v, w)
      /\ moved \subseteq Value \cup Blob
  BY DEF CopyValue, Inv, TypeOK
<1>2. CASE assigns(v, w) \/ ~Alive(w)
  <2>1. v # w
    BY <1>2 DEF assigns, CopyValue
  <2>2. holds(w, dup(v), taken[v])
    BY <1>2 DEF CopyValue
  <2>3. /\ moved' \subseteq Value \cup Blob
        /\ \A u \in (Value \cup Blob) \ {w} : u \in moved' <=> u \in moved
        /\ w \in moved' => v \in moved
    BY <1>1 DEF moved_from
  <2> QED
    BY <1>1, <2>2, <2>3, DupCell, HoldsInv
<1>3. CASE v = w /\ ~(assigns(v, w) \/ ~Alive(w))
  <2>1. UNCHANGED <<handle, heap, taken, moved>>
    BY <1>1, <1>3 DEF CopyValue, moved_from, Inv, TypeOK
  <2> QED
    BY <1>1, <2>1 DEF Inv, TypeOK, OneOwner, ContentSurvives, BlobIsWhole, OnlyMovedFromBreaks,
       RowLoses, type_of, filling, reading
<1> QED
  BY <1>2, <1>3 DEF assigns

LEMMA MoveValueInv ==
  ASSUME Inv, stopped = "no", NEW v \in Value, NEW w \in Value, MoveValue(v, w)
  PROVE  Inv'
<1>1. v # w /\ UNCHANGED <<enc, names, buffer, param, stored, row, disturbed, blob, stopped>>
  BY DEF MoveValue, filling, reading
<1>2. /\ handle' \in [Value -> Id \cup {None}]
      /\ handle'[w] = handle[v] /\ handle'[v] = None
      /\ \A u \in Value \ {v, w} : handle'[u] = handle[u]
  BY <1>1 DEF MoveValue, Inv, TypeOK, left
<1>3. /\ taken' \in [Value -> Content \cup {None}]
      /\ taken'[w] = taken[v] /\ \A u \in Value \ {v, w} : taken'[u] = taken[u]
  BY <1>1 DEF MoveValue, Inv, TypeOK
<1>4. heap' = [i \in Id |-> IF i = handle[w] THEN None ELSE heap[i]]
  BY DEF MoveValue
<1>5. heap' \in [Id -> Cell \cup {None}]
  BY <1>4 DEF Inv, TypeOK
<1>6. \A u \in Value \ {w} : handle[u] # None
        => handle[u] \in Id /\ handle[u] # handle[w] /\ heap'[handle[u]] = heap[handle[u]]
  BY <1>4 DEF Inv, TypeOK, OneOwner
<1>7. /\ moved' \subseteq Value \cup Blob
      /\ \A u \in (Value \cup Blob) \ {v, w} : u \in moved' <=> u \in moved
      /\ w \in moved' => v \in moved
  BY <1>1 DEF MoveValue, moved_from, Inv, TypeOK
<1>8. \A u \in Value \cap moved' : handle'[u] = None
  BY <1>2, <1>7 DEF Inv, TypeOK
<1>9. \A b \in Blob : b \in moved' <=> b \in moved
  BY <1>7, ValuesAssumption
<1>10. \A b \in Blob \cap moved' : blob'[b].data = None
  BY <1>1, <1>9 DEF Inv, TypeOK
<1>11. TypeOK'
  BY <1>1, <1>2, <1>3, <1>5, <1>7, <1>8, <1>10 DEF Inv, TypeOK
<1>12. OneOwner'
  <2>1. \A u, x \in Value : handle'[u] # None /\ handle'[u] = handle'[x] => u = x
    BY <1>2, <1>6 DEF Inv, OneOwner
  <2>2. ASSUME NEW i \in Id PROVE heap'[i] # None <=> \E u \in Value : handle'[u] = i
    <3>1. i # None
      BY ValuesAssumption
    <3>2. CASE i = handle[w]
      BY <1>2, <1>4, <1>6, <3>1, <3>2
    <3>3. CASE i # handle[w]
      <4>1. heap'[i] = heap[i]
        BY <1>4, <3>3
      <4>2. (\E u \in Value : handle[u] = i) <=> (\E u \in Value : handle'[u] = i)
        BY <1>1, <1>2, <3>1, <3>3
      <4> QED
        BY <4>1, <4>2 DEF Inv, OneOwner
    <3> QED
      BY <3>2, <3>3
  <2> QED
    BY <2>1, <2>2 DEF OneOwner
<1>13. ContentSurvives'
  <2>1. ASSUME NEW u \in Value, handle'[u] # None
        PROVE  /\ heap'[handle'[u]].of = taken'[u]
               /\ heap'[handle'[u]].lost => taken'[u].type = "blob"
    <3>1. CASE u = w
      BY <1>1, <1>2, <1>3, <1>6, <2>1, <3>1 DEF Inv, ContentSurvives
    <3>2. CASE u # w
      BY <1>2, <1>3, <1>6, <2>1, <3>2 DEF Inv, ContentSurvives
    <3> QED
      BY <3>1, <3>2
  <2> QED
    BY <2>1 DEF ContentSurvives, type_of
<1>14. BlobIsWhole' /\ OnlyMovedFromBreaks' /\ RowLoses'
  BY <1>1, <1>9 DEF Inv, BlobIsWhole, OnlyMovedFromBreaks, RowLoses
<1> QED
  BY <1>11, <1>12, <1>13, <1>14 DEF Inv

LEMMA DestroyValueInv ==
  ASSUME Inv, stopped = "no", NEW v \in Value, DestroyValue(v)
  PROVE  Inv'
<1>1. holds(v, None, None) /\ moved' = moved \ {v} /\ moved \subseteq Value \cup Blob
  BY DEF DestroyValue, Inv, TypeOK
<1>2. UNCHANGED <<enc, names, filling, reading, blob, stopped>>
  BY DEF DestroyValue
<1> QED
  BY <1>1, <1>2, HoldsInv

\* A conversion changes the duplicate in place.
LEMMA AsInv ==
  ASSUME Inv, stopped = "no", NEW v \in Value, NEW how \in Conversion, NEW b \in Blob,
         As(v, how, b)
  PROVE  Inv'
<1>1. UNCHANGED <<enc, names, buffer, param, stored, row, disturbed, handle, taken>>
  BY DEF As, filling, reading
<1>2. CASE handle[v] = None
  <2>1. v \in moved /\ stopped' = "undefined" /\ UNCHANGED <<heap, blob, moved>>
    BY <1>2 DEF As, Alive
  <2> QED
    BY <1>1, <2>1 DEF Inv, TypeOK, OneOwner, ContentSurvives, BlobIsWhole, OnlyMovedFromBreaks,
       RowLoses, type_of
<1>3. CASE handle[v] # None
  <2> DEFINE m == heap[handle[v]]
             n == converted(m, how)
  <2>1. handle[v] \in Id /\ m \in Cell /\ m # None
    BY <1>3, Owned DEF Inv
  <2>2. n \in Cell /\ n.of = m.of /\ (n.lost => m.lost \/ m.of.type = "blob")
    BY <2>1, Converted
  <2>3. heap' = [heap EXCEPT ![handle[v]] = n] /\ results(m, how, b) /\ stopped' = stopped
    BY <1>3 DEF As
  <2>4. /\ blob' \in [Blob -> [data : Nat \cup {None}, size : Nat]]
        /\ moved' \subseteq Value \cup Blob
        /\ \A c \in Blob \cap moved' : blob'[c].data = None
        /\ \A u \in Value : u \in moved' <=> u \in moved
        /\ BlobIsWhole'
    BY <2>1, <2>3, ResultsInv
  <2> HIDE DEF m, n
  <2>5. heap' \in [Id -> Cell \cup {None}] /\ n # None
    BY <2>1, <2>2, <2>3, ValuesAssumption DEF Inv, TypeOK
  <2>6. TypeOK'
    BY <1>1, <2>3, <2>4, <2>5 DEF Inv, TypeOK
  <2>7. /\ heap'[handle[v]] = n
        /\ \A i \in Id \ {handle[v]} : heap'[i] = heap[i]
    BY <2>1, <2>3 DEF Inv, TypeOK
  <2>8. OneOwner'
    BY <1>1, <2>1, <2>5, <2>7 DEF Inv, OneOwner, m
  <2>9. ContentSurvives'
    <3>1. ASSUME NEW u \in Value, handle'[u] # None
          PROVE  /\ heap'[handle'[u]].of = taken'[u]
                 /\ heap'[handle'[u]].lost => taken'[u].type = "blob"
      <4>1. handle[u] \in Id /\ heap[handle[u]].of = taken[u]
            /\ (heap[handle[u]].lost => taken[u].type = "blob")
        BY <1>1, <3>1, Owned DEF Inv, ContentSurvives
      <4>2. CASE handle[u] = handle[v]
        BY <1>1, <2>2, <2>7, <4>1, <4>2 DEF m
      <4>3. CASE handle[u] # handle[v]
        BY <1>1, <2>7, <4>1, <4>3
      <4> QED
        BY <4>2, <4>3
    <3> QED
      BY <3>1 DEF ContentSurvives, type_of
  <2>10. OnlyMovedFromBreaks' /\ RowLoses'
    BY <1>1, <2>3 DEF Inv, OnlyMovedFromBreaks, RowLoses
  <2> QED
    BY <2>4, <2>6, <2>8, <2>9, <2>10 DEF Inv
<1> QED
  BY <1>2, <1>3

----------------------------------------------------------------------------
(* blob.                                                                   *)

\* A step of blob objects alone.
LEMMA BlobStep ==
  ASSUME Inv, UNCHANGED <<enc, names, filling, reading, values>>,
         blob' \in [Blob -> [data : Nat \cup {None}, size : Nat]],
         moved' \subseteq Value \cup Blob,
         \A v \in Value : v \in moved' <=> v \in moved,
         \A b \in Blob \cap moved' : blob'[b].data = None,
         BlobIsWhole', OnlyMovedFromBreaks',
         stopped' \in {"no", "terminated", "aborted", "undefined"}
  PROVE  Inv'
<1>1. UNCHANGED <<enc, names, buffer, param, stored, row, disturbed, handle, heap, taken>>
  BY DEF filling, reading, values
<1>2. \A v \in Value \cap moved' : handle'[v] = None
  BY <1>1 DEF Inv, TypeOK
<1>3. TypeOK'
  BY <1>1, <1>2 DEF Inv, TypeOK
<1>4. OneOwner' /\ ContentSurvives' /\ RowLoses'
  BY <1>1 DEF Inv, OneOwner, ContentSurvives, RowLoses, type_of
<1> QED
  BY <1>3, <1>4 DEF Inv

LEMMA MakeBlobInv ==
  ASSUME Inv, stopped = "no", NEW b \in Blob, MakeBlob(b)
  PROVE  Inv'
<1>1. PICK size \in Length, pointer \in BOOLEAN :
        IF pointer <=> size > 0
        THEN /\ blob' = [blob EXCEPT ![b] = [data |-> IF pointer THEN size ELSE None,
                                            size |-> size]]
             /\ moved' = moved \ {b}
             /\ UNCHANGED stopped
        ELSE stopped' = "aborted" /\ UNCHANGED <<blob, moved>>
  BY DEF MakeBlob
<1>2. UNCHANGED <<enc, names, filling, reading, values>>
  BY DEF MakeBlob
<1>3. size \in Nat /\ size # None /\ \A v \in Value : v # b
  BY ValuesAssumption
<1>4. CASE ~(pointer <=> size > 0)
  <2>1. stopped' = "aborted" /\ UNCHANGED <<blob, moved>>
    BY <1>1, <1>4
  <2>2. BlobIsWhole' /\ OnlyMovedFromBreaks'
    BY <2>1 DEF Inv, BlobIsWhole, OnlyMovedFromBreaks
  <2> QED
    BY <1>2, <2>1, <2>2, BlobStep DEF Inv, TypeOK
<1>5. CASE pointer <=> size > 0
  <2> DEFINE made_blob == [data |-> IF pointer THEN size ELSE None, size |-> size]
  <2>1. blob' = [blob EXCEPT ![b] = made_blob] /\ moved' = moved \ {b} /\ stopped' = "no"
    BY <1>1, <1>5
  <2>2. /\ blob' \in [Blob -> [data : Nat \cup {None}, size : Nat]]
        /\ blob'[b] = made_blob /\ \A c \in Blob \ {b} : blob'[c] = blob[c]
    BY <1>3, <2>1 DEF Inv, TypeOK
  <2>3. /\ moved' \subseteq Value \cup Blob /\ \A v \in Value : v \in moved' <=> v \in moved
        /\ \A c \in Blob \cap moved' : blob'[c].data = None
    BY <1>3, <2>1, <2>2 DEF Inv, TypeOK
  <2>4. BlobIsWhole' /\ OnlyMovedFromBreaks'
    BY <1>3, <1>5, <2>1, <2>2 DEF Inv, BlobIsWhole, OnlyMovedFromBreaks
  <2> QED
    BY <1>2, <2>1, <2>2, <2>3, <2>4, BlobStep
<1> QED
  BY <1>4, <1>5

LEMMA CopyBlobInv ==
  ASSUME Inv, stopped = "no", NEW b \in Blob, NEW c \in Blob, CopyBlob(b, c)
  PROVE  Inv'
<1>1. b # c /\ UNCHANGED <<enc, names, filling, reading, values>>
  BY DEF CopyBlob
<1>2. CASE breaks(b)
  <2>1. stopped' = "undefined" /\ UNCHANGED <<blob, moved>> /\ b \in moved
    BY <1>2 DEF CopyBlob, breaks, Inv, BlobIsWhole, TypeOK
  <2>2. BlobIsWhole' /\ OnlyMovedFromBreaks'
    BY <2>1 DEF Inv, BlobIsWhole, OnlyMovedFromBreaks
  <2> QED
    BY <1>1, <2>1, <2>2, BlobStep DEF Inv, TypeOK
<1>3. CASE ~breaks(b)
  <2>1. blob' = [blob EXCEPT ![c] = blob[b]] /\ moved' = moved_from(b, c) /\ stopped' = "no"
    BY <1>3 DEF CopyBlob
  <2>2. /\ blob' \in [Blob -> [data : Nat \cup {None}, size : Nat]]
        /\ blob'[c] = blob[b] /\ \A d \in Blob \ {c} : blob'[d] = blob[d]
    BY <2>1 DEF Inv, TypeOK
  <2>3. /\ moved' \subseteq Value \cup Blob
        /\ \A u \in (Value \cup Blob) \ {c} : u \in moved' <=> u \in moved
        /\ c \in moved' <=> b \in moved
    BY <2>1 DEF moved_from, Inv, TypeOK
  <2>4. /\ \A v \in Value : v \in moved' <=> v \in moved
        /\ \A d \in Blob \cap moved' : blob'[d].data = None
    BY <2>2, <2>3, ValuesAssumption DEF Inv, TypeOK
  <2>5. BlobIsWhole' /\ OnlyMovedFromBreaks'
    BY <1>1, <2>1, <2>2, <2>3 DEF Inv, BlobIsWhole, OnlyMovedFromBreaks
  <2> QED
    BY <1>1, <2>1, <2>2, <2>3, <2>4, <2>5, BlobStep
<1> QED
  BY <1>2, <1>3

LEMMA MoveBlobInv ==
  ASSUME Inv, stopped = "no", NEW b \in Blob, NEW c \in Blob, MoveBlob(b, c)
  PROVE  Inv'
<1>1. b # c /\ UNCHANGED <<enc, names, filling, reading, values>> /\ stopped' = "no"
  BY DEF MoveBlob
<1>2. blob[b] \in [data : Nat \cup {None}, size : Nat]
  BY DEF Inv, TypeOK
<1>3. /\ blob' \in [Blob -> [data : Nat \cup {None}, size : Nat]]
      /\ blob'[c].data = blob[b].data /\ blob'[c].size = blob[b].size
      /\ blob'[b].data = None /\ blob'[b].size = blob[b].size
      /\ \A d \in Blob \ {b, c} : blob'[d] = blob[d]
  BY <1>1, <1>2 DEF MoveBlob, moved_size, Inv, TypeOK
<1>4. /\ moved' \subseteq Value \cup Blob
      /\ \A u \in (Value \cup Blob) \ {b, c} : u \in moved' <=> u \in moved
      /\ b \in moved' /\ (c \in moved' <=> b \in moved)
  BY <1>1 DEF MoveBlob, moved_from, Inv, TypeOK
<1>5. /\ \A v \in Value : v \in moved' <=> v \in moved
      /\ \A d \in Blob \cap moved' : blob'[d].data = None
  BY <1>3, <1>4, ValuesAssumption DEF Inv, TypeOK
<1>6. BlobIsWhole' /\ OnlyMovedFromBreaks'
  BY <1>1, <1>3, <1>4 DEF Inv, BlobIsWhole, OnlyMovedFromBreaks
<1> QED
  BY <1>1, <1>3, <1>4, <1>5, <1>6, BlobStep

----------------------------------------------------------------------------
(* The theorems.                                                           *)

LEMMA InitInv ==
  ASSUME Init
  PROVE  Inv
<1>1. null \in Content /\ None \notin Id /\ \A i \in Id : None # i
  BY ValuesAssumption DEF null, Content, datatype
<1>2. TypeOK
  BY <1>1 DEF Init, TypeOK, bindtype
<1> QED
  BY <1>1, <1>2
  DEF Init, Inv, OneOwner, ContentSurvives, BlobIsWhole, OnlyMovedFromBreaks, RowLoses

LEMMA NextInv ==
  ASSUME Inv, [Next]_vars
  PROVE  Inv'
<1>1. CASE UNCHANGED vars
  BY <1>1 DEF vars, filling, reading, values, Inv, TypeOK, OneOwner, ContentSurvives, BlobIsWhole,
     OnlyMovedFromBreaks, RowLoses, type_of
<1>2. CASE Next
  BY <1>2, SourceInv, GetInv, GetValueInv, CopyValueInv, MoveValueInv, DestroyValueInv, AsInv,
     MakeBlobInv, CopyBlobInv, MoveBlobInv DEF Next
<1> QED
  BY <1>1, <1>2

LEMMA Invariance == Spec => []Inv
<1>1. Init => Inv
  BY InitInv
<1>2. Inv /\ [Next]_vars => Inv'
  BY NextInv
<1> QED
  BY <1>1, <1>2, PTL DEF Spec

\* The variables keep their types, and moved-from objects own nothing.
THEOREM TypeCorrect == Spec => []TypeOK
<1>1. Inv => TypeOK
  BY DEF Inv
<1> QED
  BY <1>1, Invariance, PTL

\* Every duplicate that value.cpp makes has exactly one owner.
THEOREM DuplicatesHaveOneOwner == Spec => []OneOwner
<1>1. Inv => OneOwner
  BY DEF Inv
<1> QED
  BY <1>1, Invariance, PTL

\* A value object keeps what the column had, whatever is done to it and to the row.
THEOREM ContentsSurvive == Spec => []ContentSurvives
<1>1. Inv => ContentSurvives
  BY DEF Inv
<1> QED
  BY <1>1, Invariance, PTL

\* A blob object has as many bytes as it says, for all lengths and encodings.
THEOREM BlobsAreWhole == Spec => []BlobIsWhole
<1>1. Inv => BlobIsWhole
  BY DEF Inv
<1> QED
  BY <1>1, Invariance, PTL

\* Objects that are not moved-from can be copied and read.
THEOREM BreakingNeedsAMove == Spec => []OnlyMovedFromBreaks
<1>1. Inv => OnlyMovedFromBreaks
  BY DEF Inv
<1> QED
  BY <1>1, Invariance, PTL

----------------------------------------------------------------------------
(* The row and the table.                                                  *)

\* The current row is of what the table has; until it is disturbed its text stays in
\* the encoding of the database.
RowIsStored ==
  row # None =>
    /\ param = None /\ row.of = stored
    /\ ~disturbed /\ row.of.type = "text" => row.rep = enc /\ ~row.lost
    /\ ~disturbed /\ row.of.type = "blob" => row.rep \in {"none", enc} /\ ~row.lost

\* An INSERT stores what was bound, but for a buffer that was changed meanwhile and
\* for blobs without data.
THEOREM WhatIsBoundIsStored == Spec => StoredIsBound
<1> DEFINE A == stored' # stored => \/ stored' = param.of
                                    \/ param.type = "statically" /\ param.of.n # buffer
                                    \/ ~param.data /\ stored' = null
<1>1. TypeOK /\ [Next]_vars => [A]_vars
  <2> SUFFICES ASSUME TypeOK, Next, stored' # stored PROVE A
    BY DEF vars, filling
  <2>1. Insert
    BY DEF Next, bound, filling, BindNumber, ClearBindings, BindText, BindBytes, BindBlob,
       ChangeBuffer, Prepare, Fetch, GetMissing, MakeBlob, Get, GetValue, CopyValue, MoveValue,
       DestroyValue, As, CopyBlob, MoveBlob
  <2>2. stored' = content(param) /\ param \in [of : Content, type : bindtype, data : BOOLEAN]
    BY <2>1 DEF Insert, TypeOK
  <2>3. CASE ~param.data
    BY <2>2, <2>3 DEF content
  <2>4. CASE param.data /\ param.type = "transiently"
    BY <2>2, <2>4 DEF content, is_static
  <2>5. CASE param.data /\ param.of.n = buffer
    <3>1. param.of = [param.of EXCEPT !.n = buffer]
      BY <2>2, <2>5 DEF Content
    <3> QED
      BY <2>2, <2>5, <3>1 DEF content
  <2> QED
    BY <2>2, <2>3, <2>4, <2>5 DEF bindtype
<1> QED
  BY <1>1, TypeCorrect, PTL DEF Spec, StoredIsBound

LEMMA RowStep ==
  ASSUME TypeOK, RowIsStored, [Next]_vars
  PROVE  RowIsStored'
<1>1. CASE UNCHANGED <<enc, param, stored, row, disturbed>>
  BY <1>1 DEF RowIsStored
<1>2. CASE param # None /\ UNCHANGED row
  BY <1>2 DEF RowIsStored
<1>3. CASE Fetch
  BY <1>3 DEF Fetch, RowIsStored, Fresh, filling
<1>4. ASSUME NEW i, NEW how \in Conversion, NEW b \in Blob, Get(i, how, b)
      PROVE  RowIsStored'
  <2>1. UNCHANGED <<enc, param, stored>>
    BY <1>4 DEF Get, filling
  <2>2. CASE row = None \/ i # 1
    BY <1>4, <2>1, <2>2 DEF Get, RowIsStored
  <2>3. CASE row # None /\ i = 1
    <3>1. /\ row \in Cell /\ row' = converted(row, how) /\ enc \in {"utf8", "utf16"}
          /\ disturbed' = (disturbed \/ disturbs(how))
      BY <1>4, <2>3 DEF Get, TypeOK, Encoding
    <3>2. row'.of = row.of
      BY <3>1, Converted
    <3>3. ASSUME ~disturbed, ~disturbs(how), row.of.type = "text"
          PROVE  row'.rep = enc /\ ~row'.lost
      <4>1. row.rep = enc /\ ~row.lost
        BY <2>3, <3>3 DEF RowIsStored
      <4> QED
        BY <3>1, <3>3, <4>1
        DEF converted, disturbs, text_in, blob_cell, blob_of, bytes_of, Cell, Conversion
    <3>4. ASSUME ~disturbed, ~disturbs(how), row.of.type = "blob"
          PROVE  row'.rep \in {"none", enc} /\ ~row'.lost
      <4>1. row.rep \in {"none", enc} /\ ~row.lost
        BY <2>3, <3>4 DEF RowIsStored
      <4> QED
        BY <3>1, <3>4, <4>1
        DEF converted, disturbs, text_in, text_rep, blob_cell, blob_of, bytes_of, Cell, Conversion
    <3> QED
      BY <2>1, <2>3, <3>1, <3>2, <3>3, <3>4 DEF RowIsStored
  <2> QED
    BY <2>2, <2>3
<1> QED
  BY <1>1, <1>2, <1>3, <1>4
  DEF Next, vars, filling, reading, bound, BindNumber, ClearBindings, BindText, BindBytes,
      BindBlob, ChangeBuffer, Insert, Prepare, GetMissing, MakeBlob, GetValue, CopyValue, MoveValue,
      DestroyValue, As, CopyBlob, MoveBlob

\* get_blob gives the bytes that the table has, until the column has been read in a
\* way that changes them.
THEOREM ReadingGivesTheStored == Spec => []BlobReadsAsStored
<1>1. Init => RowIsStored
  BY DEF Init, RowIsStored
<1>2. TypeOK /\ RowIsStored /\ [Next]_vars => RowIsStored'
  BY RowStep
<1>3. TypeOK /\ RowIsStored => BlobReadsAsStored
  <2> SUFFICES ASSUME TypeOK, RowIsStored, row # None, row.of.type \in {"text", "blob"}, ~disturbed
               PROVE  Size(row) = Size(Fresh(stored)) /\ ~row.lost
    BY DEF BlobReadsAsStored
  <2>1. row.of = stored /\ ~row.lost /\ enc \in {"utf8", "utf16"}
    BY DEF RowIsStored, TypeOK, Encoding
  <2>2. CASE row.of.type = "text"
    BY <2>1, <2>2 DEF RowIsStored, Size, Fresh
  <2>3. CASE row.of.type = "blob"
    BY <2>1, <2>3 DEF RowIsStored, Size, Fresh
  <2> QED
    BY <2>1, <2>2, <2>3
<1> QED
  BY <1>1, <1>2, <1>3, TypeCorrect, PTL DEF Spec
=============================================================================
