------------------------------- MODULE Values -------------------------------
(***************************************************************************)
(* Data on its way through the wrapper: a program binds them to an INSERT, *)
(* then reads them back from the rows of a SELECT (reader, row) and takes  *)
(* them out of it as value and blob objects, which it copies, moves and    *)
(* converts.                                                               *)
(*                                                                         *)
(* The engine's cells are external: it converts a cell in place when it is *)
(* asked for text in another encoding, and answers a blob or a length from *)
(* what is there then.                                                     *)
(*                                                                         *)
(* An operator named X_Y and defined just before X is a plausible mistake  *)
(* in the code X models; no definition uses it, mutation runs put it in    *)
(* the place of X.                                                         *)
(***************************************************************************)
EXTENDS Naturals, Sequences, FiniteSets

CONSTANTS
  Value,          \* value objects
  Blob,           \* blob objects
  Id,             \* duplicates that the engine can make
  Length,         \* lengths of the program's own texts and blobs
  None            \* nothing: no cell, no data, a null handle

VARIABLES
  enc,        \* the encoding of the database
  names,      \* the names of the SELECT's columns
  buffer,     \* the length of what is in the program's buffer
  param,      \* the parameter of the INSERT, None when the SELECT is prepared
  stored,     \* content of the first column in the table; the others are NULL
  row,        \* the cell of the first column in the current row, or None
  disturbed,  \* history: it was asked for what may change its bytes
  handle,     \* handle[v]: the duplicate that value object v owns, or None
  heap,       \* the engine's duplicates, None where there is none
  taken,      \* history: the content of the column that v was taken from, or None
  blob,       \* the blob objects: how many bytes their data have, and their size
  moved,      \* history: the objects that are moved-from
  stopped     \* whether and why the program has ended

filling == <<buffer, param, stored>>
reading == <<row, disturbed>>
values == <<handle, heap, taken>>
vars == <<enc, names, filling, reading, values, blob, moved, stopped>>

Encoding == {"utf8", "utf16"}
datatype == {"null", "integer", "text", "blob"}
Content == [type : datatype, n : Nat]       \* n: length, of an integer as text
null == [type |-> "null", n |-> 0]
Cell == [of : Content, rep : Encoding \cup {"none"}, raw : BOOLEAN, lost : BOOLEAN]
bindtype == {"statically", "transiently"}
Conversion == {"number", "string", "u16string", "blob", "bytes"}

ASSUME ValuesAssumption ==
  /\ Length \subseteq Nat
  /\ None \notin Nat /\ None \notin Id /\ None \notin Cell
  /\ Value \cap Blob = {}

----------------------------------------------------------------------------
(* The engine's cells: rep is the encoding of the text in it, raw says that *)
(* it has been read as a blob, lost that a BLOB has been converted.         *)

Fresh(c) == [of |-> c, rep |-> IF c.type = "text" THEN enc ELSE "none",
             raw |-> c.type = "blob", lost |-> FALSE]

\* The engine takes a BLOB for text of the database.
text_rep(m) == IF m.of.type = "blob" /\ m.rep = "none" THEN enc ELSE m.rep

text_in(m, e) ==
  IF m.of.type = "null" THEN m
  ELSE [m EXCEPT !.rep = e, !.lost = @ \/ (m.of.type = "blob" /\ text_rep(m) # e)]

\* What a number is as a blob is its text.
blob_of(m) == IF m.of.type = "integer" /\ m.rep = "none" THEN text_in(m, "utf8")
              ELSE IF m.of.type = "null" THEN m
              ELSE [m EXCEPT !.raw = TRUE]

\* sqlite3_value_bytes: the length of a blob, else of the text as UTF-8.
bytes_of(m) == IF m.raw THEN m ELSE text_in(m, "utf8")
Size(m) == IF m.rep = "utf16" /\ ~(m.of.type = "blob" /\ enc = "utf16")
           THEN 2 * m.of.n ELSE m.of.n

type_of(m) == IF m.of.type = "blob" /\ m.rep # "none" THEN "text" ELSE m.of.type

----------------------------------------------------------------------------
(* Binding.                                                                *)

is_static_Swapped(type) == type = "transiently"
is_static(type) == type # "transiently"

\* What the engine reads when the INSERT is executed: a parameter that is bound
\* statically points to the buffer, one without data is NULL.
content(p) == IF ~p.data THEN null
              ELSE IF is_static(p.type) THEN [p.of EXCEPT !.n = buffer] ELSE p.of

bound(c, type, data) ==
  /\ param # None
  /\ param' = [of |-> c, type |-> type, data |-> data]
  /\ UNCHANGED <<enc, names, buffer, stored, reading, values, blob, moved, stopped>>

BindNumber == bound([type |-> "integer", n |-> 1], "transiently", TRUE)

\* The engine copies at once a text that it has to convert.
BindText(type, e) ==
  bound([type |-> "text", n |-> buffer], IF e = enc THEN type ELSE "transiently", TRUE)
BindBytes(type) == bound([type |-> "blob", n |-> buffer], type, TRUE)
BindBlob(b) ==
  bound([type |-> "blob", n |-> blob[b].size], "transiently", blob[b].data # None)
ClearBindings == bound(null, "transiently", FALSE)

\* The program writes to its buffer.
ChangeBuffer ==
  /\ param # None
  /\ \E n \in Length : buffer' = n
  /\ UNCHANGED <<enc, names, param, stored, reading, values, blob, moved, stopped>>

\* The INSERT is executed and reset, which keeps its bindings.
Insert ==
  /\ param # None
  /\ stored' = content(param)
  /\ UNCHANGED <<enc, names, buffer, param, reading, values, blob, moved, stopped>>

\* The program has filled the table.
Prepare ==
  /\ param # None
  /\ param' = None /\ buffer' = None
  /\ UNCHANGED <<enc, names, stored, reading, values, blob, moved, stopped>>

----------------------------------------------------------------------------
(* reader.                                                                 *)

\* The SELECT comes to a row, or to its end.
Fetch ==
  /\ param = None
  /\ row' \in {Fresh(stored), None}
  /\ disturbed' = FALSE
  /\ UNCHANGED <<enc, names, filling, values, blob, moved, stopped>>

\* The last column with that name, 0 when there is none.
get_column_index(name) ==
  LET found == {i \in DOMAIN names : names[i] = name}
  IN IF found = {} THEN 0 ELSE CHOOSE i \in found : \A j \in found : j <= i

\* The columns the program reads, by their position or by their name.
Columns == DOMAIN names \cup ({get_column_index(name) : name \in {"msg", "empty"}} \ {0})

\* Without a row every column reads as NULL.
column(i) == IF i = 1 /\ row # None THEN row ELSE Fresh(null)

\* What a conversion leaves in a cell, a number or the type nothing; get_blob asks for
\* the length after the data.
blob_cell_LengthFirst(m) == blob_of(bytes_of(m))
blob_cell(m) == bytes_of(blob_of(m))
converted(m, how) == IF how = "number" THEN m
                     ELSE IF how = "string" THEN text_in(m, "utf8")
                     ELSE IF how = "u16string" THEN text_in(m, "utf16")
                     ELSE IF how = "blob" THEN blob_cell(m) ELSE bytes_of(m)

\* blob::blob(data, size).
made(m) == [data |-> IF m.of.n = 0 THEN None ELSE Size(blob_of(m)), size |-> Size(blob_cell(m))]

\* What the result of a conversion makes of the blob objects: b is it, if it is one.
results(m, how, b) ==
  IF how = "blob" THEN blob' = [blob EXCEPT ![b] = made(m)] /\ moved' = moved \ {b}
  ELSE UNCHANGED <<blob, moved>>

\* Text in another encoding changes the bytes, and so does the length of UTF-16.
disturbs(how) == (how = "string" /\ enc = "utf16") \/ (how = "u16string" /\ enc = "utf8")
                 \/ (how = "bytes" /\ enc = "utf16")

Get(i, how, b) ==
  /\ param = None
  /\ row' = IF i = 1 /\ row # None THEN converted(row, how) ELSE row
  /\ disturbed' = (disturbed \/ (i = 1 /\ disturbs(how)))
  /\ results(column(i), how, b)
  /\ UNCHANGED <<enc, names, filling, values, stopped>>

\* By a name that no column has: the exception of get_column_index comes out of
\* get_value and operator[], and stays in the other getters, which are noexcept.
GetMissing ==
  /\ param = None
  /\ \E name \in {"msg", "empty"} : get_column_index(name) = 0
  /\ stopped' = "terminated"
  /\ UNCHANGED <<enc, names, filling, reading, values, blob, moved>>

----------------------------------------------------------------------------
(* value.                                                                  *)

\* v owns a duplicate of the cell m, or nothing when there is none, and what it
\* owned is freed.
holds(v, m, of) ==
  /\ \E new \in Id \cup {None} :
       /\ IF m = None THEN new = None ELSE new # None /\ heap[new] = None
       /\ handle' = [handle EXCEPT ![v] = new]
       /\ heap' = [i \in Id |-> IF i = new THEN m ELSE IF i = handle[v] THEN None ELSE heap[i]]
  /\ taken' = [taken EXCEPT ![v] = of]

Alive(v) == handle[v] # None \/ v \in moved

GetValue(i, v) ==
  /\ param = None
  /\ holds(v, column(i), column(i).of)
  /\ moved' = moved \ {v}
  /\ UNCHANGED <<enc, names, filling, reading, blob, stopped>>

\* What b is after a copy or a move of a.
moved_from(a, b) == IF a \in moved THEN moved \cup {b} ELSE moved \ {b}

dup(v) == IF handle[v] = None THEN None ELSE heap[handle[v]]

\* Assigning to an object that lives.
assigns_Not(v, w) == FALSE
assigns(v, w) == v # w

CopyValue(v, w) ==
  /\ Alive(v)
  /\ IF assigns(v, w) \/ ~Alive(w) THEN holds(w, dup(v), taken[v])
     ELSE taken' = [taken EXCEPT ![w] = taken[v]] /\ UNCHANGED <<handle, heap>>
  /\ moved' = moved_from(v, w)
  /\ UNCHANGED <<enc, names, filling, reading, blob, stopped>>

\* What is left in the object moved from.
left_Shared(v) == handle[v]
left(v) == None

MoveValue(v, w) ==
  /\ Alive(v) /\ v # w
  /\ handle' = [handle EXCEPT ![w] = handle[v], ![v] = left(v)]
  /\ heap' = [i \in Id |-> IF i = handle[w] THEN None ELSE heap[i]]
  /\ taken' = [taken EXCEPT ![w] = taken[v], ![v] = None]
  /\ moved' = moved_from(v, w) \cup {v}
  /\ UNCHANGED <<enc, names, filling, reading, blob, stopped>>

DestroyValue(v) ==
  /\ Alive(v)
  /\ holds(v, None, None)
  /\ moved' = moved \ {v}
  /\ UNCHANGED <<enc, names, filling, reading, blob, stopped>>

As(v, how, b) ==
  /\ Alive(v)
  /\ IF handle[v] = None
     THEN stopped' = "undefined" /\ UNCHANGED <<heap, blob, moved>>
     ELSE /\ heap' = [heap EXCEPT ![handle[v]] = converted(@, how)]
          /\ results(heap[handle[v]], how, b)
          /\ UNCHANGED stopped
  /\ UNCHANGED <<enc, names, filling, reading, handle, taken>>

----------------------------------------------------------------------------
(* blob.                                                                   *)

\* From size bytes of the program, or from a null pointer.  The constructor asserts that
\* there is a pointer exactly when there are bytes.
MakeBlob(b) ==
  /\ param # None
  /\ \E size \in Length, pointer \in BOOLEAN :
       IF pointer <=> size > 0
       THEN /\ blob' = [blob EXCEPT ![b] = [data |-> IF pointer THEN size ELSE None,
                                           size |-> size]]
            /\ moved' = moved \ {b}
            /\ UNCHANGED stopped
       ELSE stopped' = "aborted" /\ UNCHANGED <<blob, moved>>
  /\ UNCHANGED <<enc, names, filling, reading, values>>

\* Copying allocates and copies size bytes, whether there are data or not.
breaks(b) == blob[b].data = None /\ blob[b].size > 0

CopyBlob(b, c) ==
  /\ b # c
  /\ IF breaks(b) THEN stopped' = "undefined" /\ UNCHANGED <<blob, moved>>
     ELSE /\ blob' = [blob EXCEPT ![c] = blob[b]]
          /\ moved' = moved_from(b, c)
          /\ UNCHANGED stopped
  /\ UNCHANGED <<enc, names, filling, reading, values>>

\* The object moved from keeps its size, too.
moved_size_Kept(b, c) == blob[c].size
moved_size(b, c) == blob[b].size

MoveBlob(b, c) ==
  /\ b # c
  /\ blob' = [blob EXCEPT ![c] = [data |-> blob[b].data, size |-> moved_size(b, c)],
                          ![b].data = None]
  /\ moved' = moved_from(b, c) \cup {b}
  /\ UNCHANGED <<enc, names, filling, reading, values, stopped>>

----------------------------------------------------------------------------
Init ==
  /\ enc \in Encoding
  /\ names \in {<<"msg", "empty">>, <<"msg", "msg">>}
  /\ buffer \in Length
  /\ param = [of |-> null, type |-> "transiently", data |-> FALSE]
  /\ stored = null
  /\ row = None
  /\ disturbed = FALSE
  /\ handle = [v \in Value |-> None]
  /\ heap = [i \in Id |-> None]
  /\ taken = [v \in Value |-> None]
  /\ blob = [b \in Blob |-> [data |-> None, size |-> 0]]
  /\ moved = {}
  /\ stopped = "no"

Next ==
  /\ stopped = "no"
  /\ \/ BindNumber \/ ClearBindings \/ ChangeBuffer \/ Insert \/ Prepare \/ Fetch \/ GetMissing
     \/ \E type \in bindtype : BindBytes(type) \/ \E e \in Encoding : BindText(type, e)
     \/ \E b \in Blob : BindBlob(b) \/ MakeBlob(b)
     \/ \E i \in Columns, how \in Conversion, b \in Blob : Get(i, how, b)
     \/ \E i \in Columns, v \in Value : GetValue(i, v)
     \/ \E v, w \in Value : CopyValue(v, w) \/ MoveValue(v, w)
     \/ \E v \in Value : DestroyValue(v)
     \/ \E v \in Value, how \in Conversion, b \in Blob : As(v, how, b)
     \/ \E b, c \in Blob : CopyBlob(b, c) \/ MoveBlob(b, c)

Spec == Init /\ [][Next]_vars

----------------------------------------------------------------------------
(* Properties.                                                             *)

\* The types; a moved-from object owns nothing (Value.cpp and Blob.cpp, moves).
TypeOK ==
  /\ enc \in Encoding
  /\ names \in {<<"msg", "empty">>, <<"msg", "msg">>}
  /\ buffer \in Length \cup {None}
  /\ param \in [of : Content, type : bindtype, data : BOOLEAN] \cup {None}
  /\ param # None => buffer \in Length
  /\ stored \in Content
  /\ row \in Cell \cup {None}
  /\ disturbed \in BOOLEAN
  /\ handle \in [Value -> Id \cup {None}]
  /\ heap \in [Id -> Cell \cup {None}]
  /\ taken \in [Value -> Content \cup {None}]
  /\ blob \in [Blob -> [data : Nat \cup {None}, size : Nat]]
  /\ moved \subseteq Value \cup Blob
  /\ stopped \in {"no", "terminated", "aborted", "undefined"}
  /\ \A v \in Value \cap moved : handle[v] = None
  /\ \A b \in Blob \cap moved : blob[b].data = None

\* Every duplicate has one owner: none leaks, none is freed twice (Value.cpp,
\* copies, moves and destruction).
OneOwner ==
  /\ \A v, w \in Value : handle[v] # None /\ handle[v] = handle[w] => v = w
  /\ \A i \in Id : heap[i] # None <=> \E v \in Value : handle[v] = i

\* A value keeps what was in the column it was taken from, through every conversion,
\* copy and move and whatever the statement does: its number and text, its type
\* except for a BLOB that was read as text, and its bytes except for a BLOB that
\* was read as text of two encodings (Value.cpp).
ContentSurvives ==
  \A v \in Value : handle[v] # None =>
    LET m == heap[handle[v]]
    IN /\ m.of = taken[v]
       /\ type_of(m) # taken[v].type => taken[v].type = "blob" /\ m.rep # "none"
       /\ m.lost => taken[v].type = "blob"

\* A blob object has as many bytes as it says, unless it is moved-from (Blob.cpp, the
\* assertion of the constructor, and the two calls of get_blob and as_blob).
BlobIsWhole ==
  \A b \in Blob : IF blob[b].data # None THEN blob[b].size = blob[b].data
                  ELSE blob[b].size = 0 \/ b \in moved

\* What an INSERT stores is what bind() was given, unless the program has changed
\* the buffer of a parameter that it bound statically; a blob without data, be it
\* empty or moved-from, arrives as NULL (Statement.cpp, bind).
StoredIsBound ==
  [][stored' # stored => \/ stored' = param.of
                         \/ param.type = "statically" /\ param.of.n # buffer
                         \/ ~param.data /\ stored' = null]_vars

\* As long as a TEXT or BLOB column has not been asked for text in another encoding
\* nor, with UTF-16, for its length, reading it as a blob gives the bytes that are
\* stored, whatever else has been read before (Statement.h, get_blob).
BlobReadsAsStored ==
  row # None /\ row.of.type \in {"text", "blob"} /\ ~disturbed
    => Size(row) = Size(Fresh(stored)) /\ ~row.lost

\* A program ends in undefined behaviour only for what it has moved from: objects
\* made of NULL and empty columns can be copied and read (Blob.cpp, Value.cpp).
OnlyMovedFromBreaks == stopped = "undefined" => moved # {}
=============================================================================
