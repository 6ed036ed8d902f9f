-------------------------- MODULE AggregateProofs --------------------------
(***************************************************************************)
(* Theorems about Aggregate, for any number of queries, uses, rows and     *)
(* registrations, nested in any way: which objects are alive, and that     *)
(* groups that use the accumulator one after the other get their own rows. *)
(*                                                                         *)
(* Only the innermost group goes on, so that the rows of an untainted one  *)
(* are alone in the accumulator when it has any (Accumulated).  What makes *)
(* this inductive is Sharing: a group is tainted if one around it has rows *)
(* there.  When the innermost group is over, an untainted one around it    *)
(* had none, and so finds the accumulator empty.                           *)
(***************************************************************************)
EXTENDS Aggregate, TLAPS

\* The uses of s before n have their results: the rows of all, and those of none.
Answered(s, n) ==
  /\ n > 1 => result[<<s, 1>>] = OwnRows(s)
  /\ \A u \in 2..Uses[s] : u < n => result[<<s, u>>] = Empty

\* The uses of s before n, of a scalar function, have their results.
Called(s, n) == \A u \in 1..Uses[s] : u < n => result[<<s, u>>] = Arguments(<<s, u>>)

\* The results that s has, wherever it is.
Results(s) ==
  /\ pc[s] = "calls" => Called(s, turn[s])
  /\ pc[s] = "row" /\ kind = "scalar" => Called(s, Uses[s] + 1)
  /\ ~tainted[s] /\ pc[s] = "finals" => Answered(s, turn[s])
  /\ ~tainted[s] /\ pc[s] = "resets" => Answered(s, turn[s] + 1)
  /\ ~tainted[s] /\ pc[s] = "row" /\ kind = "aggregate" => Answered(s, Uses[s] + 1)

\* Where s may be.
Place(s) ==
  /\ level[s] # 0 <=> pc[s] \in {"rows", "finals", "resets", "calls"}
  /\ pc[s] # "reset" => function # None
  /\ pc[s] \in {"rows", "finals", "resets"} => kind = "aggregate"
  /\ pc[s] = "calls" => kind = "scalar"
  /\ pc[s] = "finals" => turn[s] # 1

\* One group is at each level.
Nesting == \A s, t \in Query : level[s] = level[t] /\ level[s] # 0 => s = t

\* A group inside another one that has rows in the accumulator is tainted.
Sharing == \A s, t \in Query : level[t] < level[s] /\ Waits(t) => tainted[s]

\* What is in the accumulator.
Accumulated ==
  /\ ~dirty /\ (\A s \in Query : ~Waits(s)) => m_implementation = Empty
  /\ \A s \in Query : pc[s] \in {"rows", "finals"} /\ ~tainted[s] => ~dirty
  /\ \A s \in Query : pc[s] = "rows" /\ Waits(s) /\ ~tainted[s] =>
       In(s) /\ m_implementation = OwnRows(s)

Inv ==
  /\ TypeOK /\ Owned
  /\ Nesting /\ Sharing /\ Accumulated
  /\ \A s \in Query : Place(s) /\ Results(s)

----------------------------------------------------------------------------
LEMMA UseIs ==
  /\ \A p \in Use : p[1] \in Query /\ p[2] \in 1..Uses[p[1]] /\ p = <<p[1], p[2]>>
  /\ \A s \in Query : \A u \in 1..Uses[s] : <<s, u>> \in Use
BY DEF Use

LEMMA Empties ==
  /\ Empty \in [Use -> Nat] /\ \A p \in Use : Empty[p] = 0
  /\ \A s \in Query : Uses[s] \in Nat \ {0} /\ 1 \in 1..Uses[s]
BY AggregateAssumption DEF Empty

\* The function changes only when no query is active.
LEMMA QueriesStay ==
  ASSUME Inv, UNCHANGED queries,
         \/ UNCHANGED <<function, kind, m_implementation, dirty>>
         \/ Active = {} /\ m_implementation' = Empty
  PROVE  Nesting' /\ Sharing' /\ Accumulated' /\ \A s \in Query : Place(s)' /\ Results(s)'
<1>1. UNCHANGED <<nested, level, pc, turn, fed, result, tainted>>
  BY DEF queries
<1>2. \A s \in Query : /\ OwnRows(s)' = OwnRows(s) /\ (Waits(s)' <=> Waits(s))
                       /\ (In(s)' <=> In(s))
  BY <1>1 DEF OwnRows, Waits, Empty, In
<1>3. Nesting' /\ Sharing'
  BY <1>1, <1>2 DEF Inv, Nesting, Sharing
<1>4. Empty' = Empty
  BY DEF Empty
<1>5. CASE UNCHANGED <<function, kind, m_implementation, dirty>>
  <2>1. Accumulated'
    BY <1>1, <1>2, <1>4, <1>5 DEF Inv, Accumulated
  <2>2. ASSUME NEW s \in Query PROVE Place(s)' /\ Results(s)'
    <3>1. Place(s) /\ Results(s)
      BY DEF Inv
    <3>2. Place(s)'
      BY <1>1, <1>5, <3>1 DEF Place
    <3>3. Results(s)'
      BY <1>1, <1>2, <1>4, <1>5, <3>1 DEF Results, Called, Answered, Arguments
    <3> QED
      BY <3>2, <3>3
  <2> QED
    BY <1>3, <2>1, <2>2
<1>6. CASE Active = {} /\ m_implementation' = Empty
  <2>1. \A s \in Query : pc'[s] = "reset" /\ level'[s] = 0
    BY <1>1, <1>6 DEF Active, Inv, Place
  <2>2. \A s \in Query : ~Waits(s)' /\ Place(s)' /\ Results(s)'
    BY <2>1 DEF Waits, Place, Results
  <2> QED
    BY <1>3, <1>4, <1>6, <2>1, <2>2 DEF Accumulated
<1> QED
  BY <1>5, <1>6

\* The objects: what a registration does, whoever makes it.
LEMMA RegisterInv ==
  ASSUME Inv, NEW k \in {"aggregate", "scalar"}, Register(k)
  PROVE  Inv'
<1>1. PICK w \in Wrapper \ live, refused \in refusals(function) :
        /\ live' = (live \cup {w}) \ disposed(w, refused)
        /\ m_implementation' = IF refused THEN m_implementation ELSE Empty
        /\ function' = IF refused THEN function ELSE w
        /\ kind' = IF refused THEN kind ELSE k
        /\ dirty' = (dirty /\ refused)
  BY DEF Register
<1>2. UNCHANGED <<collation, leaked, queries>>
  BY DEF Register
<1>3. w # None /\ w \notin leaked /\ w # function /\ w # collation
  BY AggregateAssumption DEF Inv, TypeOK, Owned
<1>4. refused \in BOOLEAN /\ (refused \/ Active = {})
  BY DEF refusals, Inv, Place, Active
<1>5. Owned'
  <2>1. CASE refused
    BY <1>1, <1>2, <1>3, <2>1 DEF Inv, TypeOK, Owned, disposed
  <2>2. CASE ~refused
    BY <1>1, <1>2, <1>3, <2>2 DEF Inv, TypeOK, Owned, disposed
  <2> QED
    BY <2>1, <2>2
<1>6. TypeOK'
  <2>1. live' \subseteq Wrapper /\ leaked' \subseteq Wrapper /\ kind' \in {"aggregate", "scalar"}
    BY <1>1, <1>2 DEF Inv, TypeOK
  <2>2. function' \in live' \cup {None} /\ collation' \in live' \cup {None}
    BY <1>5 DEF Owned
  <2>3. m_implementation' \in [Use -> Nat] /\ dirty' \in BOOLEAN
    BY <1>1, <1>4, Empties DEF Inv, TypeOK
  <2> QED
    BY <1>2, <2>1, <2>2, <2>3 DEF Inv, TypeOK, queries
<1>7. dirty \in BOOLEAN
  BY DEF Inv, TypeOK
<1> QED
  BY <1>1, <1>2, <1>4, <1>5, <1>6, <1>7, QueriesStay DEF Inv

LEMMA CollationInv ==
  ASSUME Inv, create_collation
  PROVE  Inv'
<1>1. PICK w \in Wrapper \ live, refused \in refusals(collation) :
        /\ collation' = IF refused THEN collation ELSE w
        /\ live' = (live \cup {w}) \ (IF refused THEN {} ELSE {collation})
        /\ leaked' = IF refused THEN leaked \cup {w} ELSE leaked
  BY DEF create_collation
<1>2. UNCHANGED <<function, kind, m_implementation, dirty, queries>>
  BY DEF create_collation
<1>3. w # None /\ w \notin leaked /\ w # function /\ w # collation
  BY AggregateAssumption DEF Inv, TypeOK, Owned
<1>4. Owned'
  <2>1. CASE refused
    BY <1>1, <1>2, <1>3, <2>1 DEF Inv, TypeOK, Owned
  <2>2. CASE ~refused
    BY <1>1, <1>2, <1>3, <2>2 DEF Inv, TypeOK, Owned
  <2> QED
    BY <2>1, <2>2
<1>5. TypeOK'
  <2>1. live' \subseteq Wrapper /\ leaked' \subseteq Wrapper
    BY <1>1 DEF Inv, TypeOK
  <2>2. function' \in live' \cup {None} /\ collation' \in live' \cup {None}
    BY <1>4 DEF Owned
  <2> QED
    BY <1>2, <2>1, <2>2 DEF Inv, TypeOK, queries
<1> QED
  BY <1>2, <1>4, <1>5, QueriesStay DEF Inv

LEMMA CloseInv ==
  ASSUME Inv, Close
  PROVE  Inv'
<1>1. /\ Active = {} /\ live' = live \ {function, collation}
      /\ function' = None /\ collation' = None /\ m_implementation' = Empty /\ dirty' = FALSE
      /\ UNCHANGED <<kind, leaked, queries>>
  BY DEF Close
<1>2. None \notin live
  BY AggregateAssumption DEF Inv, TypeOK
<1>3. Owned'
  BY <1>1, <1>2 DEF Inv, TypeOK, Owned
<1>4. TypeOK'
  BY <1>1, Empties DEF Inv, TypeOK, queries
<1> QED
  BY <1>1, <1>3, <1>4, QueriesStay DEF Inv

----------------------------------------------------------------------------
\* A step of query s that registers nothing leaves the objects, and what the others have
\* been given; it may taint them.
Others(s) ==
  /\ UNCHANGED registrations
  /\ \A t \in Query \ {s} :
       /\ pc'[t] = pc[t] /\ turn'[t] = turn[t] /\ level'[t] = level[t]
       /\ tainted[t] => tainted'[t]
       /\ \A u \in 1..Uses[t] : /\ fed'[<<t, u>>] = fed[<<t, u>>]
                                /\ result'[<<t, u>>] = result[<<t, u>>]

LEMMA OthersKeep ==
  ASSUME Inv, NEW s \in Query, Others(s), NEW t \in Query \ {s}
  PROVE  /\ OwnRows(t)' = OwnRows(t) /\ (Waits(t)' <=> Waits(t))
         /\ Place(t)' /\ Results(t)'
<1>1. /\ UNCHANGED <<function, kind, collation, leaked, live>>
      /\ pc'[t] = pc[t] /\ turn'[t] = turn[t] /\ level'[t] = level[t]
      /\ tainted[t] => tainted'[t]
      /\ \A u \in 1..Uses[t] : /\ fed'[<<t, u>>] = fed[<<t, u>>]
                               /\ result'[<<t, u>>] = result[<<t, u>>]
  BY DEF Others, registrations
<1>2. OwnRows(t)' = OwnRows(t) /\ Empty' = Empty
  <2>1. \A p \in Use : p[1] = t => fed'[p] = fed[p]
    <3>1. \A p \in Use : p[1] = t => p[2] \in 1..Uses[t] /\ p = <<t, p[2]>>
      BY UseIs
    <3> QED
      BY <1>1, <3>1
  <2> QED
    BY <2>1 DEF OwnRows, Empty
<1>3. Waits(t)' <=> Waits(t)
  BY <1>1, <1>2 DEF Waits
<1>4. Place(t) /\ Results(t)
  BY DEF Inv
<1>5. Place(t)'
  BY <1>1, <1>4 DEF Place
<1>6. \A n : Answered(t, n) => Answered(t, n)'
  BY <1>1, <1>2, Empties DEF Answered
<1>7. \A n : Called(t, n) => Called(t, n)'
  BY <1>1, <1>2 DEF Called, Arguments
<1>8. Results(t)'
  BY <1>1, <1>4, <1>6, <1>7 DEF Results
<1> QED
  BY <1>2, <1>3, <1>5, <1>8

\* No other group is the innermost one, and around an untainted one none has rows.
LEMMA Innermost ==
  ASSUME Inv, NEW s \in Query, In(s)
  PROVE  /\ level[s] \in Nat \ {0} /\ level[s] = nested /\ nested - 1 \in Nat
         /\ \A t \in Query \ {s} : level[t] \in 0..(nested - 1) /\ ~In(t)
         /\ ~tainted[s] => \A t \in Query \ {s} : ~Waits(t)
         /\ ~tainted[s] /\ ~dirty /\ ~Waits(s) => m_implementation = Empty
<1>1. /\ level[s] \in Nat \ {0} /\ level[s] = nested /\ nested - 1 \in Nat
      /\ \A t \in Query : level[t] \in 0..nested
  BY DEF In, Inv, TypeOK
<1>2. \A t \in Query \ {s} : level[t] # nested
  BY <1>1 DEF Inv, Nesting
<1>3. \A t \in Query \ {s} : level[t] \in 0..(nested - 1) /\ ~In(t)
  BY <1>1, <1>2 DEF In
<1>4. ~tainted[s] => \A t \in Query \ {s} : ~Waits(t)
  BY <1>1, <1>3 DEF Inv, Sharing
<1> QED
  BY <1>1, <1>3, <1>4 DEF Inv, Accumulated

\* An untainted innermost group finds its own rows in the accumulator, or nothing.
LEMMA Alone ==
  ASSUME Inv, NEW s \in Query, In(s), ~tainted[s]
  PROVE  /\ pc[s] = "rows" => m_implementation = OwnRows(s)
         /\ pc[s] = "finals" => m_implementation = Empty
<1>1. pc[s] \in {"rows", "finals"} => ~dirty
  BY DEF Inv, Accumulated
<1>2. pc[s] = "finals" => m_implementation = Empty
  BY <1>1, Innermost DEF Waits
<1>3. pc[s] = "rows" /\ ~Waits(s) => m_implementation = Empty /\ OwnRows(s) = Empty
  BY <1>1, Innermost DEF Waits
<1>4. pc[s] = "rows" /\ Waits(s) => m_implementation = OwnRows(s)
  BY DEF Inv, Accumulated
<1> QED
  BY <1>2, <1>3, <1>4

\* What a step of the innermost group has to keep: it stays or it leaves.
LEMMA StepKeeps ==
  ASSUME Inv, NEW s \in Query, In(s), Others(s), TypeOK',
         \/ UNCHANGED <<nested, level, tainted>>
         \/ level'[s] = 0 /\ ~Waits(s)',
         Place(s)', Results(s)', Accumulated'
  PROVE  Inv'
<1>1. /\ \A t \in Query \ {s} : level'[t] = level[t] /\ (tainted[t] => tainted'[t])
      /\ UNCHANGED registrations
  BY DEF Others
<1>2. \A t \in Query \ {s} : Waits(t)' <=> Waits(t)
  BY OthersKeep
<1>3. Owned'
  BY <1>1 DEF registrations, Inv, Owned
<1>4. Nesting'
  BY <1>1 DEF Inv, Nesting
<1>5. Sharing'
  <2> SUFFICES ASSUME NEW x \in Query, NEW t \in Query, level'[t] < level'[x], Waits(t)'
               PROVE  tainted'[x]
    BY DEF Sharing
  <2>1. /\ \A y \in Query : level'[y] \in Nat
        /\ \A y \in Query \ {s} : level[y] \in 0..(nested - 1) /\ nested \in Nat
        /\ level[s] = nested
    BY Innermost DEF TypeOK, Inv
  <2>2. CASE t = s
    BY <1>1, <2>1, <2>2
  <2>3. CASE t # s
    BY <1>1, <1>2, <2>1, <2>3 DEF Inv, Sharing
  <2> QED
    BY <2>2, <2>3
<1>6. \A t \in Query \ {s} : Place(t)' /\ Results(t)'
  BY OthersKeep
<1> QED
  BY <1>3, <1>4, <1>5, <1>6 DEF Inv

\* What the innermost group is, and the use that the engine calls next.
LEMMA Turn ==
  ASSUME Inv, NEW s \in Query
  PROVE  /\ Uses[s] \in Nat \ {0} /\ turn[s] \in 1..Uses[s] /\ 1 \in 1..Uses[s]
         /\ <<s, turn[s]>> \in Use
         /\ turn \in [Query -> Nat] /\ following(s) \in [Query -> Nat]
         /\ following(s)[s] = IF last(s) THEN 1 ELSE turn[s] + 1
         /\ \A t \in Query : following(s)[t] \in 1..Uses[t]
         /\ \A t \in Query \ {s} : following(s)[t] = turn[t]
         /\ fed \in [Use -> Nat] /\ result \in [Use -> [Use -> Nat]]
         /\ m_implementation \in [Use -> Nat]
         /\ pc \in [Query -> {"reset", "rows", "finals", "resets", "calls", "row"}]
         /\ tainted \in [Query -> BOOLEAN] /\ dirty \in BOOLEAN
         /\ level \in [Query -> 0..nested] /\ nested \in Nat
         /\ Place(s) /\ Results(s)
<1>1. /\ Uses[s] \in Nat \ {0} /\ turn[s] \in 1..Uses[s] /\ 1 \in 1..Uses[s]
      /\ turn \in [Query -> Nat]
  BY Empties DEF Inv, TypeOK
<1>2. /\ following(s) \in [Query -> Nat]
      /\ following(s)[s] = IF last(s) THEN 1 ELSE turn[s] + 1
      /\ \A t \in Query \ {s} : following(s)[t] = turn[t]
  BY <1>1 DEF following, last
<1>4. \A t \in Query : following(s)[t] \in 1..Uses[t]
  <2>1. following(s)[s] \in 1..Uses[s]
    BY <1>1, <1>2 DEF last
  <2>2. \A t \in Query \ {s} : following(s)[t] \in 1..Uses[t]
    BY <1>2 DEF Inv, TypeOK
  <2> QED
    BY <2>1, <2>2
<1>3. <<s, turn[s]>> \in Use
  BY <1>1, UseIs
<1> QED
  BY <1>1, <1>2, <1>3, <1>4 DEF Inv, TypeOK

\* The group of s is over, at the last use or by a failure.
LEMMA Left ==
  ASSUME Inv, NEW s \in Query, In(s), Leave(s)
  PROVE  /\ nested' \in Nat /\ level' \in [Query -> 0..nested'] /\ level'[s] = 0
         /\ \A t \in Query \ {s} : level'[t] = level[t]
<1>1. level \in [Query -> 0..nested] /\ nested \in Nat
  BY Turn
<1> QED
  BY <1>1, Innermost DEF Leave

\* A change at one use of s is none at the uses of others.
LEMMA OneUse ==
  ASSUME NEW s \in Query, NEW t \in Query \ {s}, NEW u, NEW v, NEW S, NEW f \in [Use -> S], NEW x,
         v \in 1..Uses[t]
  PROVE  [f EXCEPT ![<<s, u>>] = x][<<t, v>>] = f[<<t, v>>]
<1>1. <<t, v>> \in Use /\ <<t, v>> # <<s, u>>
  BY UseIs
<1> QED
  BY <1>1

LEMMA Forgotten ==
  ASSUME Inv, NEW s \in Query, Forget(s)
  PROVE  /\ fed' \in [Use -> Nat] /\ result' \in [Use -> [Use -> Nat]]
         /\ turn' \in [Query -> Nat] /\ \A t \in Query : turn'[t] \in 1..Uses[t]
         /\ turn'[s] = 1
         /\ OwnRows(s)' = Empty /\ Empty' = Empty
         /\ \A t \in Query \ {s} :
              /\ turn'[t] = turn[t]
              /\ \A u \in 1..Uses[t] : /\ fed'[<<t, u>>] = fed[<<t, u>>]
                                       /\ result'[<<t, u>>] = result[<<t, u>>]
<1>1. /\ fed' = [p \in Use |-> IF p[1] = s THEN 0 ELSE fed[p]]
      /\ result' = [p \in Use |-> IF p[1] = s THEN Empty ELSE result[p]]
      /\ turn' = [turn EXCEPT ![s] = 1]
  BY DEF Forget
<1>2. turn \in [Query -> Nat] /\ \A t \in Query : turn[t] \in 1..Uses[t]
  BY DEF Inv, TypeOK
<1>3. fed' \in [Use -> Nat] /\ result' \in [Use -> [Use -> Nat]]
  BY <1>1, Empties DEF Inv, TypeOK
<1>4. \A t \in Query \ {s} : \A u \in 1..Uses[t] : /\ fed'[<<t, u>>] = fed[<<t, u>>]
                                                  /\ result'[<<t, u>>] = result[<<t, u>>]
  BY <1>1, UseIs
<1>5. OwnRows(s)' = Empty /\ Empty' = Empty
  BY <1>1 DEF OwnRows, Empty
<1>6. /\ turn' \in [Query -> Nat] /\ \A t \in Query : turn'[t] \in 1..Uses[t]
      /\ turn'[s] = 1 /\ \A t \in Query \ {s} : turn'[t] = turn[t]
  BY <1>1, <1>2, Empties
<1> QED
  BY <1>3, <1>4, <1>5, <1>6

LEMMA EnterInv ==
  ASSUME Inv, NEW s \in Query, Enter(s)
  PROVE  Inv'
<1> DEFINE p == IF kind = "aggregate" THEN "rows" ELSE "calls"
<1>1. /\ pc[s] \in {"reset", "row"} /\ function # None
      /\ nested' = nested + 1
      /\ level' = [level EXCEPT ![s] = nested + 1]
      /\ pc' = [pc EXCEPT ![s] = p]
      /\ Forget(s)
      /\ tainted' = [t \in Query |-> IF t = s THEN dirty \/ \E q \in Query : Waits(q)
                                     ELSE tainted[t] \/ (pc[t] = "rows" /\ Waits(t))]
      /\ UNCHANGED <<registrations, m_implementation, dirty>>
  BY DEF Enter
<1>2. kind \in {"aggregate", "scalar"} /\ dirty \in BOOLEAN
  BY DEF Inv, TypeOK
<1>3. p \in {"rows", "calls"} /\ (p = "rows" <=> kind = "aggregate")
  BY <1>2
<1> HIDE DEF p
<1>4. /\ nested' \in Nat /\ level' \in [Query -> 0..nested'] /\ level'[s] = nested + 1
      /\ \A t \in Query \ {s} : level'[t] = level[t] /\ level'[t] \in 0..nested
  <2>1. level \in [Query -> 0..nested] /\ nested \in Nat
    BY Turn
  <2>2. level'[s] = nested + 1 /\ \A t \in Query \ {s} : level'[t] = level[t]
    BY <1>1, <2>1
  <2>3. \A t \in Query : level[t] \in 0..nested /\ level[t] \in 0..(nested + 1)
    BY <2>1
  <2>4. nested + 1 \in 0..(nested + 1)
    BY <2>1
  <2>5. level' \in [Query -> 0..(nested + 1)]
    BY <1>1, <2>1, <2>3, <2>4
  <2> QED
    BY <1>1, <2>1, <2>2, <2>3, <2>5
<1>5. /\ tainted' \in [Query -> BOOLEAN]
      /\ ~tainted'[s] => ~dirty /\ \A q \in Query : ~Waits(q)
      /\ \A t \in Query \ {s} : /\ tainted[t] => tainted'[t]
                                /\ pc[t] = "rows" /\ Waits(t) => tainted'[t]
  <2>1. tainted \in [Query -> BOOLEAN]
    BY Turn
  <2> QED
    BY <1>1, <1>2, <2>1 DEF Waits
<1>6. /\ pc' \in [Query -> {"reset", "rows", "finals", "resets", "calls", "row"}] /\ pc'[s] = p
      /\ \A t \in Query \ {s} : pc'[t] = pc[t]
  BY <1>1, <1>3, Turn
<1>7. TypeOK'
  BY <1>1, <1>4, <1>5, <1>6, Forgotten DEF Inv, TypeOK, registrations
<1>8. Others(s)
  BY <1>1, <1>4, <1>5, <1>6, Forgotten DEF Others
<1>9. /\ ~Waits(s)'
      /\ \A t \in Query \ {s} : Waits(t)' <=> Waits(t)
  BY <1>1, <1>8, Forgotten, OthersKeep DEF Waits
<1>10. UNCHANGED <<function, kind>> /\ Owned'
  BY <1>1 DEF registrations, Inv, Owned
<1>11. Nesting'
  <2>1. \A t \in Query \ {s} : level'[t] # level'[s]
    <3>1. nested \in Nat
      BY Turn
    <3> QED
      BY <1>4, <3>1
  <2> QED
    BY <1>4, <2>1 DEF Inv, Nesting
<1>12. Sharing'
  <2> SUFFICES ASSUME NEW x \in Query, NEW t \in Query, level'[t] < level'[x], Waits(t)'
               PROVE  tainted'[x]
    BY DEF Sharing
  <2>1. t # s /\ Waits(t)
    BY <1>9
  <2> QED
    BY <1>4, <1>5, <2>1 DEF Inv, Sharing
<1>13. Accumulated'
  <2>1. (\A q \in Query : ~Waits(q)') => (\A q \in Query : ~Waits(q))
    BY <1>1, <1>9 DEF Waits
  <2>2. Empty' = Empty /\ UNCHANGED <<m_implementation, dirty>>
    BY <1>1, Forgotten
  <2>3. (~dirty /\ (\A q \in Query : ~Waits(q)) => m_implementation = Empty)'
    BY <2>1, <2>2 DEF Inv, Accumulated
  <2>4. \A t \in Query : pc'[t] \in {"rows", "finals"} /\ ~tainted'[t] => ~dirty'
    BY <1>5, <1>6, <2>2 DEF Inv, Accumulated
  <2>5. \A t \in Query : ~(pc'[t] = "rows" /\ Waits(t)' /\ ~tainted'[t])
    BY <1>5, <1>6, <1>9
  <2> QED
    BY <2>3, <2>4, <2>5 DEF Accumulated
<1>14. Place(s)' /\ Results(s)'
  <2>1. Place(s)'
    <3>1. nested \in Nat
      BY Turn
    <3>2. level'[s] # 0
      BY <1>4, <3>1
    <3> QED
      BY <1>1, <1>2, <1>3, <1>6, <1>10, <3>2 DEF Place
  <2>2. Results(s)'
    BY <1>1, <1>3, <1>6, Forgotten DEF Results, Called
  <2> QED
    BY <2>1, <2>2
<1>15. \A t \in Query \ {s} : Place(t)' /\ Results(t)'
  BY <1>8, OthersKeep
<1> QED
  BY <1>7, <1>10, <1>11, <1>12, <1>13, <1>14, <1>15 DEF Inv

LEMMA StepInv ==
  ASSUME Inv, NEW s \in Query, internal_step(s)
  PROVE  Inv'
<1> DEFINE p == <<s, turn[s]>>
<1>1. /\ In(s) /\ pc[s] = "rows"
      /\ m_implementation' = [m_implementation EXCEPT ![p] = m_implementation[p] + 1]
      /\ fed' = [fed EXCEPT ![p] = fed[p] + 1]
      /\ turn' = following(s)
      /\ UNCHANGED <<registrations, nested, level, pc, result, dirty, tainted>>
  BY DEF internal_step
<1>2. p \in Use /\ p[1] = s
  BY Turn
<1>3. /\ m_implementation' \in [Use -> Nat] /\ fed' \in [Use -> Nat]
      /\ turn' \in [Query -> Nat] /\ \A t \in Query : turn'[t] \in 1..Uses[t]
  BY <1>1, <1>2, Turn
<1>4. TypeOK'
  BY <1>1, <1>3 DEF Inv, TypeOK, registrations
<1>5. Others(s)
  <2>1. ASSUME NEW t \in Query \ {s}
        PROVE  turn'[t] = turn[t] /\ \A u \in 1..Uses[t] : fed'[<<t, u>>] = fed[<<t, u>>]
    BY <1>1, OneUse, Turn
  <2> QED
    BY <1>1, <2>1 DEF Others
<1>6. Waits(s)'
  <2>1. OwnRows(s)'[p] = fed[p] + 1
    BY <1>1, <1>2, Turn DEF OwnRows
  <2>2. Empty'[p] = 0 /\ fed[p] \in Nat
    BY <1>2, Turn DEF Empty
  <2> QED
    BY <1>1, <2>1, <2>2 DEF Waits
<1>7. ~tainted[s] => m_implementation' = OwnRows(s)'
  <2> SUFFICES ASSUME ~tainted[s] PROVE m_implementation' = OwnRows(s)'
    OBVIOUS
  <2>1. m_implementation = OwnRows(s)
    BY <1>1, Alone
  <2>2. \A q \in Use : m_implementation'[q] = OwnRows(s)'[q]
    <3>1. \A q \in Use : fed'[q] = (IF q = p THEN fed[q] + 1 ELSE fed[q])
      BY <1>1, <1>2, Turn
    <3>2. \A q \in Use : m_implementation'[q] =
            (IF q = p THEN m_implementation[q] + 1 ELSE m_implementation[q])
      BY <1>1, <1>2, Turn
    <3>3. \A q \in Use : m_implementation[q] = (IF q[1] = s THEN fed[q] ELSE 0)
      BY <2>1 DEF OwnRows
    <3>4. \A q \in Use : OwnRows(s)'[q] = (IF q[1] = s THEN fed'[q] ELSE 0)
      BY DEF OwnRows
    <3> HIDE DEF p
    <3> QED
      BY <1>2, <3>1, <3>2, <3>3, <3>4
  <2>3. OwnRows(s)' = [q \in Use |-> OwnRows(s)'[q]]
    BY DEF OwnRows
  <2> QED
    BY <1>3, <2>2, <2>3
<1>8. Accumulated'
  <2>1. \A t \in Query \ {s} : ~In(t)
    BY <1>1, Innermost
  <2>2. \A t \in Query \ {s} : Waits(t)' => Waits(t)
    BY <1>5, OthersKeep
  <2>3. \A t \in Query \ {s} : ~(pc'[t] = "rows" /\ Waits(t)' /\ ~tainted'[t])
    BY <1>1, <2>1, <2>2 DEF Inv, Accumulated
  <2>4. In(s)'
    BY <1>1 DEF In
  <2>5. \A t \in Query : pc'[t] \in {"rows", "finals"} /\ ~tainted'[t] => ~dirty'
    BY <1>1 DEF Inv, Accumulated
  <2> QED
    BY <1>1, <1>6, <1>7, <2>3, <2>4, <2>5 DEF Accumulated
<1>9. Place(s)' /\ Results(s)'
  BY <1>1, Turn DEF Place, Results, registrations
<1> QED
  BY <1>1, <1>4, <1>5, <1>8, <1>9, StepKeeps

LEMMA SkipInv ==
  ASSUME Inv, NEW s \in Query, Skip(s)
  PROVE  Inv'
<1>1. /\ In(s) /\ pc[s] = "rows"
      /\ turn' = following(s)
      /\ UNCHANGED <<registrations, m_implementation, nested, level, pc, fed, result, dirty,
                     tainted>>
  BY DEF Skip
<1>2. TypeOK'
  <2>1. turn' \in [Query -> Nat] /\ \A t \in Query : turn'[t] \in 1..Uses[t]
    BY <1>1, Turn
  <2> QED
    BY <1>1, <2>1 DEF Inv, TypeOK, registrations
<1>3. Others(s)
  BY <1>1, Turn DEF Others
<1>4. \A t \in Query : (Waits(t)' <=> Waits(t)) /\ OwnRows(t)' = OwnRows(t) /\ (In(t)' <=> In(t))
  <2>1. Empty' = Empty /\ OwnRows(s)' = OwnRows(s)
    BY <1>1 DEF Empty, OwnRows
  <2> QED
    BY <1>1, <1>3, <2>1, OthersKeep DEF Waits, In
<1>5. Accumulated'
  BY <1>1, <1>4 DEF Inv, Accumulated, Empty
<1>6. Place(s)' /\ Results(s)'
  BY <1>1, Turn DEF Place, Results, registrations
<1> QED
  BY <1>1, <1>2, <1>3, <1>5, <1>6, StepKeeps

LEMMA FinalizeInv ==
  ASSUME Inv, NEW s \in Query, finalize(s)
  PROVE  Inv'
<1> DEFINE p == <<s, turn[s]>>
<1>1. /\ In(s) /\ pc[s] \in {"finals", "rows"} /\ (pc[s] = "rows" => turn[s] = 1)
      /\ result' = [result EXCEPT ![p] = m_implementation]
      /\ pc' = [pc EXCEPT ![s] = "resets"]
      /\ UNCHANGED <<registrations, m_implementation, nested, level, turn, fed, dirty, tainted>>
  BY DEF finalize
<1>2. /\ pc' \in [Query -> {"reset", "rows", "finals", "resets", "calls", "row"}]
      /\ pc'[s] = "resets" /\ \A t \in Query \ {s} : pc'[t] = pc[t]
  BY <1>1, Turn
<1>3. TypeOK'
  <2>1. result' \in [Use -> [Use -> Nat]]
    BY <1>1, Turn
  <2> QED
    BY <1>1, <1>2, <2>1 DEF Inv, TypeOK, registrations
<1>4. Others(s)
  <2>1. ASSUME NEW t \in Query \ {s}, NEW u \in 1..Uses[t]
        PROVE  result'[<<t, u>>] = result[<<t, u>>]
    BY <1>1, OneUse, Turn
  <2> QED
    BY <1>1, <1>2, <2>1 DEF Others
<1>5. OwnRows(s)' = OwnRows(s) /\ Empty' = Empty
  BY <1>1 DEF OwnRows, Empty
<1>6. \A t \in Query : Waits(t)' <=> Waits(t)
  <2>1. Waits(s)' <=> Waits(s)
    <3>1. pc[s] = "finals" => turn[s] # 1
      BY DEF Inv, Place
    <3> QED
      BY <1>1, <1>2, <1>5, <3>1 DEF Waits
  <2> QED
    BY <1>4, <2>1, OthersKeep
<1>7. Accumulated'
  <2>1. \A t \in Query \ {s} : ~In(t)
    BY <1>1, Innermost
  <2>2. \A t \in Query : ~(pc'[t] = "rows" /\ Waits(t)' /\ ~tainted'[t])
    BY <1>1, <1>2, <1>6, <2>1 DEF Inv, Accumulated
  <2>3. \A t \in Query : pc'[t] \in {"rows", "finals"} /\ ~tainted'[t] => ~dirty'
    BY <1>1, <1>2 DEF Inv, Accumulated
  <2>4. (~dirty /\ (\A q \in Query : ~Waits(q)) => m_implementation = Empty)'
    BY <1>1, <1>5, <1>6 DEF Inv, Accumulated
  <2> QED
    BY <2>2, <2>3, <2>4 DEF Accumulated
<1>8. Results(s)'
  <2> SUFFICES ASSUME ~tainted[s] PROVE Answered(s, turn[s] + 1)'
    BY <1>1, <1>2 DEF Results
  <2>1. /\ turn[s] \in 1..Uses[s] /\ Uses[s] \in Nat \ {0} /\ p \in Use
        /\ result'[p] = m_implementation
        /\ \A u \in 1..Uses[s] : u # turn[s] => result'[<<s, u>>] = result[<<s, u>>]
    <3>1. /\ turn[s] \in 1..Uses[s] /\ Uses[s] \in Nat \ {0} /\ p \in Use
          /\ result \in [Use -> [Use -> Nat]]
      BY Turn
    <3>2. \A u \in 1..Uses[s] : <<s, u>> \in Use
      BY UseIs
    <3> QED
      BY <1>1, <3>1, <3>2
  <2>2. CASE pc[s] = "rows"
    <3>1. turn[s] = 1 /\ result'[<<s, 1>>] = OwnRows(s)'
      BY <1>1, <1>5, <2>1, <2>2, Alone
    <3> QED
      BY <3>1, <1>1, <2>1 DEF Answered
  <2>3. CASE pc[s] = "finals"
    <3>1. m_implementation = Empty /\ Answered(s, turn[s]) /\ turn[s] # 1
      BY <1>1, <2>3, Alone DEF Inv, Results, Place
    <3>2. result'[<<s, 1>>] = OwnRows(s)'
      BY <1>5, <2>1, <3>1 DEF Answered
    <3>3. \A u \in 2..Uses[s] : u < turn[s] + 1 => result'[<<s, u>>] = Empty'
      BY <1>5, <2>1, <3>1 DEF Answered
    <3> QED
      BY <1>1, <3>2, <3>3 DEF Answered
  <2> QED
    BY <1>1, <2>2, <2>3
<1>9. Place(s)'
  BY <1>1, <1>2 DEF Inv, Place, registrations
<1> QED
  BY <1>1, <1>3, <1>4, <1>7, <1>8, <1>9, StepKeeps

LEMMA ResetInv ==
  ASSUME Inv, NEW s \in Query, reset(s)
  PROVE  Inv'
<1> DEFINE p == IF last(s) THEN "row" ELSE "finals"
<1>1. /\ In(s) /\ pc[s] = "resets"
      /\ m_implementation' = Empty /\ dirty' = FALSE /\ turn' = following(s)
      /\ pc' = [pc EXCEPT ![s] = p]
      /\ IF last(s) THEN Leave(s) ELSE UNCHANGED <<nested, level>>
      /\ UNCHANGED <<registrations, fed, result, tainted>>
  BY DEF reset, after_final
<1>2. p \in {"row", "finals"} /\ (p = "row" <=> last(s))
  OBVIOUS
<1> HIDE DEF p
<1>3. /\ pc' \in [Query -> {"reset", "rows", "finals", "resets", "calls", "row"}]
      /\ pc'[s] = p /\ \A t \in Query \ {s} : pc'[t] = pc[t]
  BY <1>1, <1>2, Turn
<1>4. /\ nested' \in Nat /\ level' \in [Query -> 0..nested']
      /\ level'[s] = IF last(s) THEN 0 ELSE level[s]
      /\ \A t \in Query \ {s} : level'[t] = level[t]
  BY <1>1, Left, Turn
<1>5. TypeOK'
  <2>1. turn' \in [Query -> Nat] /\ \A t \in Query : turn'[t] \in 1..Uses[t]
    BY <1>1, Turn
  <2> QED
    BY <1>1, <1>3, <1>4, <2>1, Empties DEF Inv, TypeOK, registrations
<1>6. Others(s)
  BY <1>1, <1>3, <1>4, Turn DEF Others
<1>7. ~Waits(s)'
  BY <1>2, <1>3 DEF Waits
<1>8. Accumulated'
  <2>1. \A t \in Query \ {s} : ~In(t)
    BY <1>1, Innermost
  <2>2. \A t \in Query \ {s} : Waits(t)' => Waits(t)
    BY <1>6, OthersKeep
  <2>3. \A t \in Query : ~(pc'[t] = "rows" /\ Waits(t)' /\ ~tainted'[t])
    BY <1>1, <1>3, <1>7, <2>1, <2>2 DEF Inv, Accumulated
  <2> QED
    BY <1>1, <2>3 DEF Accumulated, Empty
<1>9. OwnRows(s)' = OwnRows(s) /\ Empty' = Empty
  BY <1>1 DEF OwnRows, Empty
<1>10. Results(s)'
  <2>1. kind' = kind /\ kind = "aggregate"
    BY <1>1 DEF registrations, Inv, Place
  <2>2. PICK n \in Nat : n = turn[s] + 1
    <3>1. turn[s] \in 1..Uses[s] /\ Uses[s] \in Nat
      BY Turn
    <3> QED
      BY <3>1
  <2>3. ~tainted[s] => Answered(s, n)
    BY <1>1, <2>2 DEF Inv, Results
  <2>4. ~tainted'[s] => Answered(s, n)'
    BY <1>1, <1>9, <2>3 DEF Answered
  <2>5. /\ p = "finals" => turn'[s] = n
        /\ p = "row" => Uses[s] + 1 = n
    BY <1>1, <1>2, <2>2, Turn DEF last
  <2> QED
    BY <1>2, <1>3, <2>1, <2>4, <2>5 DEF Results
<1>11. Place(s)'
  <2>1. ~last(s) => turn'[s] # 1
    <3>1. turn[s] \in 1..Uses[s] /\ Uses[s] \in Nat
      BY Turn
    <3>2. ~last(s) => turn'[s] = turn[s] + 1
      BY <1>1, Turn
    <3> QED
      BY <3>1, <3>2
  <2>2. Place(s)
    BY Turn
  <2> QED
    BY <1>1, <1>2, <1>3, <1>4, <2>1, <2>2 DEF Place, registrations
<1>12. \/ UNCHANGED <<nested, level, tainted>>
       \/ level'[s] = 0 /\ ~Waits(s)'
  BY <1>1, <1>4, <1>7
<1> QED
  BY <1>1, <1>5, <1>6, <1>8, <1>10, <1>11, <1>12, StepKeeps

LEMMA ScalarInv ==
  ASSUME Inv, NEW s \in Query, internal_scalar_function(s)
  PROVE  Inv'
<1> DEFINE p == <<s, turn[s]>>
           q == IF last(s) THEN "row" ELSE "calls"
<1>1. /\ In(s) /\ pc[s] = "calls"
      /\ fed' = [fed EXCEPT ![p] = 1]
      /\ result' = [result EXCEPT ![p] = Arguments(p)]
      /\ turn' = following(s)
      /\ IF last(s) THEN Leave(s) ELSE UNCHANGED <<nested, level>>
      /\ UNCHANGED <<registrations, m_implementation, dirty, tainted>>
  BY DEF internal_scalar_function
<1>2. pc' = [pc EXCEPT ![s] = q]
  BY <1>1, Turn DEF internal_scalar_function
<1>3. q \in {"row", "calls"} /\ (q = "row" <=> last(s))
  OBVIOUS
<1> HIDE DEF q
<1>4. /\ pc' \in [Query -> {"reset", "rows", "finals", "resets", "calls", "row"}]
      /\ pc'[s] = q /\ \A t \in Query \ {s} : pc'[t] = pc[t]
  BY <1>2, <1>3, Turn
<1>5. /\ nested' \in Nat /\ level' \in [Query -> 0..nested']
      /\ level'[s] = IF last(s) THEN 0 ELSE level[s]
      /\ \A t \in Query \ {s} : level'[t] = level[t]
  BY <1>1, Left, Turn
<1>6. TypeOK'
  <2>1. turn' \in [Query -> Nat] /\ \A t \in Query : turn'[t] \in 1..Uses[t]
    BY <1>1, Turn
  <2>2. Arguments(p) \in [Use -> Nat]
    BY Empties DEF Arguments
  <2>3. fed' \in [Use -> Nat] /\ result' \in [Use -> [Use -> Nat]]
    BY <1>1, <2>2, Turn
  <2> QED
    BY <1>1, <1>4, <1>5, <2>1, <2>3 DEF Inv, TypeOK, registrations
<1>7. Others(s)
  <2>1. ASSUME NEW t \in Query \ {s}, NEW u \in 1..Uses[t]
        PROVE  fed'[<<t, u>>] = fed[<<t, u>>] /\ result'[<<t, u>>] = result[<<t, u>>]
    BY <1>1, OneUse, Turn
  <2> QED
    BY <1>1, <1>4, <1>5, <2>1, Turn DEF Others
<1>8. kind' = kind /\ kind = "scalar"
  BY <1>1 DEF registrations, Inv, Place
<1>9. \A t \in Query : /\ pc[t] \notin {"rows", "finals", "resets"}
                       /\ pc'[t] \notin {"rows", "finals", "resets"}
  BY <1>3, <1>4, <1>8 DEF Inv, Place
<1>10. \A t \in Query : ~Waits(t) /\ ~Waits(t)'
  BY <1>9 DEF Waits
<1>11. Accumulated'
  BY <1>1, <1>9, <1>10 DEF Inv, Accumulated, Empty
<1>12. Results(s)'
  <2>1. PICK n \in Nat : n = turn[s] + 1
    <3>1. turn[s] \in 1..Uses[s] /\ Uses[s] \in Nat
      BY Turn
    <3> QED
      BY <3>1
  <2>2. Called(s, n)'
    <3> SUFFICES ASSUME NEW u \in 1..Uses[s], u < n
                 PROVE  result'[<<s, u>>] = Arguments(<<s, u>>)'
      BY DEF Called
    <3>1. /\ <<s, u>> \in Use /\ p \in Use /\ turn[s] \in 1..Uses[s]
          /\ result \in [Use -> [Use -> Nat]]
      BY UseIs, Turn
    <3>2. Arguments(<<s, u>>)' = Arguments(<<s, u>>)
      BY DEF Arguments, Empty
    <3>3. CASE u = turn[s]
      BY <1>1, <3>1, <3>2, <3>3
    <3>4. CASE u # turn[s]
      <4>1. result'[<<s, u>>] = result[<<s, u>>]
        BY <1>1, <3>1, <3>4
      <4>2. u < turn[s]
        <5>1. turn[s] \in Nat /\ u \in Nat
          BY <3>1, Empties
        <5>2. u < n
          OBVIOUS
        <5> QED
          BY <2>1, <3>4, <5>1, <5>2
      <4> QED
        BY <1>1, <3>2, <4>1, <4>2 DEF Inv, Results, Called
    <3> QED
      BY <3>3, <3>4
  <2>3. /\ q = "calls" => turn'[s] = n
        /\ q = "row" => Uses[s] + 1 = n
    BY <1>1, <1>3, <2>1, Turn DEF last
  <2> QED
    BY <1>3, <1>4, <1>8, <2>2, <2>3 DEF Results
<1>13. Place(s)'
  <2>1. Place(s)
    BY Turn
  <2> QED
    BY <1>1, <1>3, <1>4, <1>5, <1>8, <2>1 DEF Place, registrations
<1>14. \/ UNCHANGED <<nested, level, tainted>>
       \/ level'[s] = 0 /\ ~Waits(s)'
  BY <1>1, <1>5, <1>10
<1> QED
  BY <1>1, <1>6, <1>7, <1>11, <1>12, <1>13, <1>14, StepKeeps

LEMMA FailInv ==
  ASSUME Inv, NEW s \in Query, Fail(s)
  PROVE  Inv'
<1>1. /\ In(s) /\ Leave(s) /\ Forget(s)
      /\ pc' = [pc EXCEPT ![s] = "reset"]
      /\ dirty' = (dirty \/ Waits(s))
      /\ tainted' = [t \in Query |-> /\ t # s
                                     /\ tainted[t] \/ (pc[t] \in {"rows", "finals"} /\ Waits(s))]
      /\ UNCHANGED <<registrations, m_implementation>>
  BY DEF Fail
<1>2. /\ pc' \in [Query -> {"reset", "rows", "finals", "resets", "calls", "row"}]
      /\ pc'[s] = "reset" /\ \A t \in Query \ {s} : pc'[t] = pc[t]
  BY <1>1, Turn
<1>3. /\ tainted' \in [Query -> BOOLEAN] /\ dirty' \in BOOLEAN
      /\ \A t \in Query \ {s} :
           /\ tainted[t] => tainted'[t]
           /\ pc[t] \in {"rows", "finals"} /\ ~tainted'[t] => ~tainted[t] /\ ~Waits(s)
  <2>1. tainted \in [Query -> BOOLEAN] /\ dirty \in BOOLEAN /\ Waits(s) \in BOOLEAN
    BY Turn DEF Waits
  <2> QED
    BY <1>1, <2>1
<1>4. TypeOK'
  BY <1>1, <1>2, <1>3, Left, Forgotten DEF Inv, TypeOK, registrations
<1>5. Others(s)
  BY <1>1, <1>2, <1>3, Left, Forgotten DEF Others
<1>6. ~Waits(s)' /\ \A t \in Query \ {s} : Waits(t)' <=> Waits(t)
  BY <1>2, <1>5, OthersKeep DEF Waits
<1>7. Accumulated'
  <2>1. \A t \in Query \ {s} : ~In(t)
    BY <1>1, Innermost
  <2>2. \A t \in Query : ~(pc'[t] = "rows" /\ Waits(t)' /\ ~tainted'[t])
    BY <1>2, <1>3, <1>6, <2>1 DEF Inv, Accumulated
  <2>3. \A t \in Query : pc'[t] \in {"rows", "finals"} /\ ~tainted'[t] => ~dirty'
    BY <1>1, <1>2, <1>3 DEF Inv, Accumulated
  <2>4. (~dirty /\ (\A q \in Query : ~Waits(q)) => m_implementation = Empty)'
    <3>1. ~dirty' => ~dirty /\ ~Waits(s)
      BY <1>1
    <3> QED
      BY <1>1, <1>6, <3>1 DEF Inv, Accumulated, Empty
  <2> QED
    BY <2>2, <2>3, <2>4 DEF Accumulated
<1>8. level'[s] = 0 /\ Place(s)' /\ Results(s)'
  BY <1>1, <1>2, Left DEF Place, Results
<1> QED
  BY <1>1, <1>4, <1>5, <1>6, <1>7, <1>8, StepKeeps

LEMMA FinishInv ==
  ASSUME Inv, NEW s \in Query, Finish(s)
  PROVE  Inv'
<1>1. /\ pc[s] = "row" /\ Forget(s)
      /\ pc' = [pc EXCEPT ![s] = "reset"]
      /\ tainted' = [tainted EXCEPT ![s] = FALSE]
      /\ UNCHANGED <<registrations, m_implementation, nested, level, dirty>>
  BY DEF Finish
<1>2. /\ pc' \in [Query -> {"reset", "rows", "finals", "resets", "calls", "row"}]
      /\ pc'[s] = "reset" /\ \A t \in Query \ {s} : pc'[t] = pc[t]
      /\ tainted' \in [Query -> BOOLEAN] /\ \A t \in Query \ {s} : tainted'[t] = tainted[t]
  BY <1>1, Turn
<1>3. TypeOK'
  BY <1>1, <1>2, Forgotten DEF Inv, TypeOK, registrations
<1>4. Others(s)
  BY <1>1, <1>2, Forgotten DEF Others
<1>5. level[s] = 0
  BY <1>1 DEF Inv, Place
<1>6. \A t \in Query : Waits(t)' <=> Waits(t)
  <2>1. ~Waits(s) /\ ~Waits(s)'
    BY <1>1, <1>2 DEF Waits
  <2> QED
    BY <1>4, <2>1, OthersKeep
<1>7. Owned' /\ Nesting'
  BY <1>1 DEF registrations, Inv, Owned, Nesting
<1>8. Sharing'
  <2> SUFFICES ASSUME NEW x \in Query, NEW t \in Query, level[t] < level[x], Waits(t)
               PROVE  tainted'[x]
    BY <1>1, <1>6 DEF Sharing
  <2>1. x # s
    BY <1>5 DEF Inv, TypeOK
  <2> QED
    BY <1>2, <2>1 DEF Inv, Sharing
<1>9. Accumulated'
  <2>1. (~dirty /\ (\A q \in Query : ~Waits(q)) => m_implementation = Empty)'
    BY <1>1, <1>6 DEF Inv, Accumulated, Empty
  <2>2. \A t \in Query : pc'[t] \in {"rows", "finals"} /\ ~tainted'[t] => ~dirty'
    BY <1>1, <1>2 DEF Inv, Accumulated
  <2>3. ASSUME NEW t \in Query, pc'[t] = "rows", Waits(t)', ~tainted'[t]
        PROVE  In(t)' /\ m_implementation' = OwnRows(t)'
    <3>1. t # s /\ OwnRows(t)' = OwnRows(t)
      BY <1>2, <1>4, <2>3, OthersKeep
    <3> QED
      BY <1>1, <1>2, <1>6, <2>3, <3>1 DEF Inv, Accumulated, In
  <2> QED
    BY <2>1, <2>2, <2>3 DEF Accumulated
<1>10. \A t \in Query : Place(t)' /\ Results(t)'
  <2>1. Place(s)' /\ Results(s)'
    BY <1>1, <1>2, <1>5 DEF Place, Results
  <2> QED
    BY <1>4, <2>1, OthersKeep
<1> QED
  BY <1>3, <1>7, <1>8, <1>9, <1>10 DEF Inv

LEMMA InitInv == Init => Inv
<1> SUFFICES ASSUME Init PROVE Inv
  OBVIOUS
<1>1. TypeOK
  <2>1. level \in [Query -> 0..nested] /\ nested \in Nat
    BY DEF Init
  <2>2. turn \in [Query -> Nat] /\ \A s \in Query : turn[s] \in 1..Uses[s]
    BY Empties DEF Init
  <2>3. fed \in [Use -> Nat] /\ result \in [Use -> [Use -> Nat]] /\ m_implementation \in [Use -> Nat]
    BY Empties DEF Init
  <2> QED
    BY <2>1, <2>2, <2>3 DEF Init, TypeOK
<1>2. Owned
  BY AggregateAssumption DEF Init, Owned
<1>3. \A s \in Query : ~Waits(s) /\ level[s] = 0
  BY DEF Init, Waits
<1>4. Nesting /\ Sharing /\ Accumulated
  BY <1>3 DEF Init, Nesting, Sharing, Accumulated
<1>5. \A s \in Query : Place(s) /\ Results(s)
  BY DEF Init, Place, Results
<1> QED
  BY <1>1, <1>2, <1>4, <1>5 DEF Inv

LEMMA NextInv == Inv /\ [Next]_vars => Inv'
<1> SUFFICES ASSUME Inv, [Next]_vars
             PROVE  Inv'
  OBVIOUS
<1>1. CASE UNCHANGED vars
  <2>1. UNCHANGED <<registrations, m_implementation, dirty, queries>>
    BY <1>1 DEF vars, registrations, queries
  <2>2. TypeOK' /\ Owned'
    BY <2>1 DEF registrations, queries, Inv, TypeOK, Owned
  <2> QED
    BY <2>1, <2>2, QueriesStay DEF Inv, registrations
<1>2. CASE create_aggregate \/ create_function
  BY <1>2, RegisterInv DEF create_aggregate, create_function
<1>3. CASE create_collation \/ Close
  BY <1>3, CollationInv, CloseInv
<1>4. CASE \E s \in Query : Enter(s) \/ internal_step(s) \/ Skip(s) \/ finalize(s)
  BY <1>4, EnterInv, StepInv, SkipInv, FinalizeInv
<1>5. CASE \E s \in Query : reset(s) \/ internal_scalar_function(s) \/ Fail(s) \/ Finish(s)
  BY <1>5, ResetInv, ScalarInv, FailInv, FinishInv
<1> QED
  BY <1>1, <1>2, <1>3, <1>4, <1>5 DEF Next

LEMMA Invariance == Spec => []Inv
BY InitInv, NextInv, PTL DEF Spec

----------------------------------------------------------------------------
\* The object that a registered function or collation calls is never a deleted one,
\* whenever the program registers, even from inside a function (DBConnection.h,
\* create_*).
THEOREM TypeCorrect == Spec => []TypeOK
<1>1. Inv => TypeOK
  BY DEF Inv
<1> QED
  BY <1>1, Invariance, PTL

\* Nothing but the object of a refused collation ever leaks, and nothing is deleted
\* that is still registered (Functions.h, internal_dispose, internal_delete).
THEOREM OnlyRefusedCollationsLeak == Spec => []Owned
<1>1. Inv => Owned
  BY DEF Inv
<1> QED
  BY <1>1, Invariance, PTL

\* For any queries, nested in each other and failing in any way: the results of a group
\* that shares the accumulator with no other rows are those of its own rows, each counted
\* once, and a scalar function's always those of its arguments (Functions.h,
\* aggregate_wrapper).
THEOREM ResultsAreOwn == Spec => []ResultOfOwnRows
<1>1. ASSUME Inv, NEW s \in Query, pc[s] = "row"
      PROVE  IF kind = "scalar"
             THEN \A u \in 1..Uses[s] :
                    result[<<s, u>>] = [p \in Use |-> IF p = <<s, u>> THEN 1 ELSE 0]
             ELSE ~tainted[s] => /\ result[<<s, 1>>] = OwnRows(s)
                                 /\ \A u \in 2..Uses[s] : result[<<s, u>>] = Empty
  <2>1. Uses[s] \in Nat \ {0} /\ kind \in {"aggregate", "scalar"}
    BY <1>1, Empties DEF Inv, TypeOK
  <2>2. CASE kind = "scalar"
    <3>1. \A u \in 1..Uses[s] : result[<<s, u>>] = Arguments(<<s, u>>)
      BY <1>1, <2>1, <2>2 DEF Inv, Results, Called
    <3>2. \A r : Arguments(r) = [p \in Use |-> IF p = r THEN 1 ELSE 0]
      BY DEF Arguments, Empty
    <3> QED
      BY <2>2, <3>1, <3>2
  <2>3. CASE kind = "aggregate"
    <3>1. ~tainted[s] => Answered(s, Uses[s] + 1)
      BY <1>1, <2>3 DEF Inv, Results
    <3>2. Uses[s] + 1 > 1 /\ \A u \in 2..Uses[s] : u < Uses[s] + 1
      BY <2>1
    <3> QED
      BY <2>3, <3>1, <3>2 DEF Answered
  <2> QED
    BY <2>1, <2>2, <2>3
<1>2. Inv => ResultOfOwnRows
  BY <1>1 DEF ResultOfOwnRows
<1> QED
  BY <1>2, Invariance, PTL
============================================================================
