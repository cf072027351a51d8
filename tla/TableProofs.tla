----------------------------- MODULE TableProofs -----------------------------
(***************************************************************************)
(* Theorems about modules Table and TableQueries, for every set of keys,   *)
(* of statements and of queries, every number of fields and rows and every *)
(* width of values.                                                        *)
(*                                                                         *)
(* KeyMapExact is not inductive alone: a step that renames a row needs a   *)
(* new key that is a key, a step that copies one needs the bound that the  *)
(* copies have keys, and all need the rows to be rows.  TableInv adds      *)
(* these.  What the values of the rows are plays no part.                  *)
(*                                                                         *)
(* StatementEffect speaks of the end of a statement only.  EffectInv says  *)
(* what is true in its middle: which keys are in the list (CollectedTo),   *)
(* which rows are gone or copied when some keys remain (TreatedBut), and   *)
(* which rows are changed when the statement has come to row c             *)
(* (VisitedTo).  That ADD and SUB write the right values needs facts about *)
(* sums: a sum over a set does not depend on the order of its members.     *)
(*                                                                         *)
(* What a query reads follows from the same invariants.  Its loop is a     *)
(* fold over the places of the rows: the rows it finds are those that      *)
(* match, each once since no key occurs twice, so that what it computes of *)
(* them in their order is what the set of them determines.                 *)
(***************************************************************************)
EXTENDS TableQueries, Induction, SequenceTheorems, FunctionTheorems

IsRow(r) == r.key \in Keys /\ r = [key |-> r.key, datum |-> r.datum]

\* The vector is a sequence of rows.
VectorOfRows == /\ \E S : data \in Seq(S)
                /\ \A i \in DOMAIN data : IsRow(data[i])

\* The keys that wait for deleteByIndex or duplicateByKey are keys of rows.
TodoOK == /\ todo \in Seq(Keys)
          /\ stmt.type = "Duplicate" =>
                \A i \in DOMAIN todo : CopyKey[todo[i]] \in Keys
          /\ phase = "collect" /\ stmt.type = "Duplicate" =>
                \A i \in DOMAIN data :
                    evalCondition(stmt.cond, data[i]) => CopyKey[data[i].key] \in Keys

TableInv == /\ VectorOfRows
            /\ keyMap \in [Keys -> Nat]
            /\ stmt \in Statements \cup {NoStatement}
            /\ cursor \in Nat \ {0}
            /\ TodoOK
            /\ KeyMapExact

-----------------------------------------------------------------------------
(* The vector.                                                             *)

\* The elements and the length of a vector.
LEMMA RowsLen ==
    ASSUME VectorOfRows
    PROVE  Len(data) \in Nat /\ DOMAIN data = 1 .. Len(data)
BY DEF VectorOfRows

\* A new row goes to the end.
LEMMA AppendRow ==
    ASSUME VectorOfRows, NEW r, IsRow(r), data' = Append(data, r)
    PROVE  /\ VectorOfRows'
           /\ Len(data') = Len(data) + 1
           /\ \A i \in DOMAIN data : data'[i] = data[i]
           /\ data'[Len(data) + 1] = r
<1>1. PICK S : data \in Seq(S)
  BY DEF VectorOfRows
<1>2. data \in Seq(S \cup {r})
  BY <1>1, SeqMonotonic
<1>3. /\ Append(data, r) \in Seq(S \cup {r})
      /\ Len(Append(data, r)) = Len(data) + 1
      /\ \A i \in 1 .. Len(data) : Append(data, r)[i] = data[i]
      /\ Append(data, r)[Len(data) + 1] = r
  BY <1>2, AppendProperties
<1>4. DOMAIN data' = 1 .. (Len(data) + 1) /\ Len(data) \in Nat
  BY <1>1, <1>3
<1>5. \A i \in DOMAIN data' : IsRow(data'[i])
  <2> SUFFICES ASSUME NEW i \in DOMAIN data' PROVE IsRow(data'[i])
    OBVIOUS
  <2>1. CASE i = Len(data) + 1
    BY <1>3, <2>1
  <2>2. CASE i \in 1 .. Len(data)
    BY <1>3, <2>2, RowsLen DEF VectorOfRows
  <2> QED
    BY <1>4, <2>1, <2>2
<1> QED
  BY <1>3, <1>5, RowsLen DEF VectorOfRows

\* A row is overwritten in place.
LEMMA ReplaceRow ==
    ASSUME VectorOfRows, NEW r, IsRow(r), NEW i \in DOMAIN data, data' = [data EXCEPT ![i] = r]
    PROVE  /\ VectorOfRows'
           /\ Len(data') = Len(data) /\ DOMAIN data' = DOMAIN data
           /\ data'[i] = r
           /\ \A j \in DOMAIN data : j # i => data'[j] = data[j]
<1>1. PICK S : data \in Seq(S)
  BY DEF VectorOfRows
<1>2. data \in Seq(S \cup {r})
  BY <1>1, SeqMonotonic
<1>3. data' \in Seq(S \cup {r}) /\ Len(data') = Len(data) /\ DOMAIN data' = DOMAIN data
  BY <1>2
<1>4. data'[i] = r /\ \A j \in DOMAIN data : j # i => data'[j] = data[j]
  OBVIOUS
<1>5. \A j \in DOMAIN data' : IsRow(data'[j])
  BY <1>3, <1>4 DEF VectorOfRows
<1> QED
  BY <1>3, <1>4, <1>5 DEF VectorOfRows

\* The last row takes the place of the one at d and leaves its own.
LEMMA SwapAndPop ==
    ASSUME VectorOfRows, NEW d \in DOMAIN data,
           data' = PopBack([data EXCEPT ![d] = data[Len(data)]])
    PROVE  /\ VectorOfRows'
           /\ Len(data') = Len(data) - 1
           /\ \A j \in DOMAIN data' :
                 data'[j] = IF j = d THEN data[Len(data)] ELSE data[j]
<1> DEFINE e == [data EXCEPT ![d] = data[Len(data)]]
<1>1. PICK S : data \in Seq(S)
  BY DEF VectorOfRows
<1>2. Len(data) \in Nat /\ Len(data) \in DOMAIN data /\ DOMAIN data = 1 .. Len(data)
  BY <1>1
<1>3. e \in Seq(S) /\ Len(e) = Len(data)
  BY <1>1, <1>2
<1>4. \A j \in DOMAIN data : e[j] = IF j = d THEN data[Len(data)] ELSE data[j]
  OBVIOUS
<1> HIDE DEF e
<1> DEFINE n == Len(data) - 1
<1>5. data' = SubSeq(e, 1, n)
  BY <1>3 DEF PopBack, e
<1>6. n \in Nat /\ n <= Len(e) /\ 1 .. n \subseteq DOMAIN data /\ n + 1 = Len(data)
  BY <1>2, <1>3
<1> HIDE DEF n
<1>7. SubSeq(e, 1, n) \in Seq(S) /\ Len(SubSeq(e, 1, n)) = n
  BY <1>3, <1>6
<1>8. \A j \in 1 .. n : SubSeq(e, 1, n)[j] = e[j]
  BY <1>3, <1>6
<1>9. data' \in Seq(S) /\ Len(data') = n /\ DOMAIN data' = 1 .. n
  <2>1. data' \in Seq(S) /\ Len(data') = n
    BY <1>5, <1>7
  <2> QED
    BY <2>1
<1>10. \A j \in DOMAIN data' :
          data'[j] = IF j = d THEN data[Len(data)] ELSE data[j]
  BY <1>4, <1>5, <1>6, <1>8, <1>9
<1>11. \A j \in DOMAIN data' : IsRow(data'[j])
  BY <1>2, <1>6, <1>9, <1>10 DEF VectorOfRows
<1> QED
  BY <1>9, <1>10, <1>11 DEF VectorOfRows, n
-----------------------------------------------------------------------------
(* The operations of Table keep the map exact.                             *)

\* What the operations need and keep.
MapOK == VectorOfRows /\ keyMap \in [Keys -> Nat]
Exact == /\ \A k \in Keys :
                keyMap[k] # 0 => keyMap[k] \in DOMAIN data /\ data[keyMap[k]].key = k
         /\ \A i \in DOMAIN data : keyMap[data[i].key] = i

\* A step that leaves the table alone.
LEMMA SameTable ==
    ASSUME MapOK, Exact, UNCHANGED <<data, keyMap>>
    PROVE  MapOK' /\ Exact'
BY DEF MapOK, Exact, VectorOfRows

\* insertByIndex, for a key that is not in the map.
LEMMA PushBackExact ==
    ASSUME MapOK, Exact, NEW k \in Keys, keyMap[k] = 0, NEW datum, PushBack(k, datum)
    PROVE  MapOK' /\ Exact'
<1> DEFINE r == [key |-> k, datum |-> datum]
<1>1. IsRow(r) /\ r.key = k
  BY DEF IsRow
<1>2. data' = Append(data, r) /\ keyMap' = [keyMap EXCEPT ![k] = Len(data) + 1]
  BY DEF PushBack
<1> HIDE DEF r
<1>3. /\ VectorOfRows'
      /\ Len(data') = Len(data) + 1
      /\ \A i \in DOMAIN data : data'[i] = data[i]
      /\ data'[Len(data) + 1] = r
  BY <1>1, <1>2, AppendRow DEF MapOK
<1>4. /\ Len(data) \in Nat
      /\ DOMAIN data = 1 .. Len(data)
      /\ DOMAIN data' = 1 .. (Len(data) + 1)
  BY <1>3, RowsLen DEF MapOK, VectorOfRows
<1>5. keyMap' \in [Keys -> Nat]
  BY <1>2, <1>4 DEF MapOK
<1>6. \A j \in Keys :
         keyMap'[j] # 0 => keyMap'[j] \in DOMAIN data' /\ data'[keyMap'[j]].key = j
  BY <1>1, <1>2, <1>3, <1>4 DEF MapOK, Exact
<1>7. \A i \in DOMAIN data' : keyMap'[data'[i].key] = i
  <2> SUFFICES ASSUME NEW i \in DOMAIN data' PROVE keyMap'[data'[i].key] = i
    OBVIOUS
  <2>1. CASE i = Len(data) + 1
    BY <1>1, <1>2, <1>3, <2>1 DEF MapOK
  <2>2. CASE i \in DOMAIN data
    <3>1. data[i].key \in Keys /\ keyMap[data[i].key] = i /\ i # 0
      BY <1>4, <2>2 DEF MapOK, VectorOfRows, IsRow, Exact
    <3> QED
      BY <1>2, <1>3, <2>2, <3>1 DEF MapOK
  <2> QED
    BY <1>4, <2>1, <2>2
<1> QED
  BY <1>3, <1>5, <1>6, <1>7 DEF MapOK, Exact

\* deleteByIndex: the row that moves is found at its new place.
LEMMA DeleteExact ==
    ASSUME MapOK, Exact, NEW k \in Keys, deleteByIndex(k)
    PROVE  MapOK' /\ Exact'
<1> DEFINE d == keyMap[k]
           last == data[Len(data)]
<1>1. CASE d = 0
  BY <1>1 DEF deleteByIndex, MapOK, Exact, VectorOfRows
<1>2. CASE d # 0
  <2>1. d \in DOMAIN data /\ data[d].key = k
    BY <1>2 DEF Exact
  <2>2. /\ Len(data) \in Nat /\ Len(data) \in DOMAIN data
        /\ DOMAIN data = 1 .. Len(data)
    BY <2>1, RowsLen DEF MapOK
  <2>3. last.key \in Keys /\ keyMap[last.key] = Len(data)
    BY <2>2 DEF MapOK, VectorOfRows, IsRow, Exact
  <2>4. /\ data' = PopBack([data EXCEPT ![d] = last])
        /\ keyMap' = [keyMap EXCEPT ![last.key] = d, ![k] = 0]
    BY <1>2 DEF deleteByIndex
  <2>5. /\ VectorOfRows'
        /\ Len(data') = Len(data) - 1
        /\ \A j \in DOMAIN data' : data'[j] = IF j = d THEN last ELSE data[j]
    BY <2>1, <2>4, SwapAndPop DEF MapOK
  <2>6. DOMAIN data' = 1 .. (Len(data) - 1)
    BY <2>5 DEF VectorOfRows
  <2> HIDE DEF d, last
  <2>7. d \in Nat
    BY <2>1, <2>2
  <2>8. keyMap' \in [Keys -> Nat]
    BY <2>3, <2>4, <2>7 DEF MapOK
  <2>9. \A j \in Keys : keyMap'[j] = IF j = k THEN 0
                                     ELSE IF j = last.key THEN d ELSE keyMap[j]
    BY <2>3, <2>4 DEF MapOK
  <2>10. ASSUME NEW j \in Keys, keyMap'[j] # 0
         PROVE  keyMap'[j] \in DOMAIN data' /\ data'[keyMap'[j]].key = j
    <3>1. j # k
      BY <2>9, <2>10
    <3>2. CASE j = last.key
      <4>1. d # Len(data)
        BY <2>1, <3>1, <3>2 DEF last
      <4>2. d \in DOMAIN data'
        BY <2>1, <2>2, <2>6, <4>1
      <4> QED
        BY <2>5, <2>9, <3>1, <3>2, <4>2
    <3>3. CASE j # last.key
      <4>1. keyMap'[j] = keyMap[j]
        BY <2>9, <3>1, <3>3
      <4>2. keyMap[j] \in DOMAIN data /\ data[keyMap[j]].key = j
        BY <2>10, <4>1 DEF Exact
      <4>3. keyMap[j] # Len(data) /\ keyMap[j] # d
        BY <2>1, <3>1, <3>3, <4>2 DEF last
      <4>4. keyMap[j] \in DOMAIN data'
        BY <2>2, <2>6, <4>2, <4>3
      <4> QED
        BY <2>5, <4>1, <4>2, <4>3, <4>4
    <3> QED
      BY <3>2, <3>3
  <2>11. ASSUME NEW i \in DOMAIN data'
         PROVE  keyMap'[data'[i].key] = i
    <3>1. i \in DOMAIN data /\ i # Len(data)
      BY <2>2, <2>6
    <3>2. CASE i = d
      <4>1. data'[i] = last
        BY <2>5, <3>2
      <4>2. last.key # k
        BY <2>3, <3>1, <3>2 DEF d
      <4> QED
        BY <2>3, <2>9, <3>2, <4>1, <4>2
    <3>3. CASE i # d
      <4>1. data'[i] = data[i]
        BY <2>5, <3>3
      <4>2. data[i].key \in Keys /\ keyMap[data[i].key] = i
        BY <3>1 DEF MapOK, VectorOfRows, IsRow, Exact
      <4>3. data[i].key # k /\ data[i].key # last.key
        BY <2>3, <3>1, <3>3, <4>2 DEF d
      <4> QED
        BY <2>9, <4>1, <4>2, <4>3
    <3> QED
      BY <3>2, <3>3
  <2> QED
    BY <2>5, <2>8, <2>10, <2>11 DEF MapOK, Exact
<1> QED
  BY <1>1, <1>2

\* duplicateByKey
LEMMA DuplicateExact ==
    ASSUME MapOK, Exact, NEW src \in Keys, NEW dst \in Keys, duplicateByKey(src, dst)
    PROVE  MapOK' /\ Exact'
<1>1. CASE CanDuplicate(src, dst)
  BY <1>1, PushBackExact DEF duplicateByKey, CanDuplicate
<1>2. CASE ~CanDuplicate(src, dst)
  BY <1>2 DEF duplicateByKey, MapOK, Exact, VectorOfRows
<1> QED
  BY <1>1, <1>2

\* Object::setKey keeps the rows, and the map exact unless the key is another row's.
LEMMA SetKeyExact ==
    ASSUME MapOK, Exact, NEW i \in DOMAIN data, NEW k \in Keys, setKey(i, k)
    PROVE  MapOK' /\ (~Collides(i, k) => Exact')
<1> DEFINE old == data[i].key
           r == [data[i] EXCEPT !.key = k]
<1>1. old \in Keys /\ keyMap[old] = i /\ IsRow(data[i])
  BY DEF MapOK, VectorOfRows, IsRow, Exact
<1>2. IsRow(r) /\ r.key = k
  BY <1>1 DEF IsRow
<1>3. data' = [data EXCEPT ![i] = r]
  BY DEF setKey
<1> HIDE DEF r
<1>4. /\ VectorOfRows'
      /\ DOMAIN data' = DOMAIN data
      /\ data'[i] = r
      /\ \A j \in DOMAIN data : j # i => data'[j] = data[j]
  BY <1>2, <1>3, ReplaceRow DEF MapOK
<1>5. keyMap' \in [Keys -> Nat]
  BY <1>1 DEF setKey, MapOK
<1>6. i # 0
  BY RowsLen DEF MapOK
<1>7. ASSUME ~Collides(i, k) PROVE Exact'
  <2>1. keyMap[k] = 0 \/ k = old
    BY <1>7, <1>6 DEF Collides, Exact
  <2>2. \A j \in Keys : keyMap'[j] = IF j = k THEN i
                                     ELSE IF j = old THEN 0 ELSE keyMap[j]
    BY <1>1, <2>1 DEF setKey, MapOK
  <2>3. \A j \in Keys :
           keyMap'[j] # 0 => keyMap'[j] \in DOMAIN data' /\ data'[keyMap'[j]].key = j
    BY <1>2, <1>4, <2>2 DEF Exact
  <2>4. \A j \in DOMAIN data' : keyMap'[data'[j].key] = j
    <3> SUFFICES ASSUME NEW j \in DOMAIN data' PROVE keyMap'[data'[j].key] = j
      OBVIOUS
    <3>1. CASE j = i
      BY <1>2, <1>4, <2>2, <3>1
    <3>2. CASE j # i
      <4>1. data'[j] = data[j] /\ data[j].key \in Keys /\ keyMap[data[j].key] = j
        BY <1>4, <3>2 DEF MapOK, VectorOfRows, IsRow, Exact
      <4>2. data[j].key # old /\ data[j].key # k
        <5>1. j # 0
          BY <1>4, RowsLen DEF MapOK
        <5> QED
          BY <1>1, <2>1, <3>2, <4>1, <5>1
      <4> QED
        BY <2>2, <4>1, <4>2
    <3> QED
      BY <3>1, <3>2
  <2> QED
    BY <2>3, <2>4 DEF Exact
<1> QED
  BY <1>4, <1>5, <1>7 DEF MapOK
-----------------------------------------------------------------------------
(* The statements keep the invariant.                                      *)

\* End and Begin leave no keys to treat.
LEMMA NoTodo ==
    ASSUME todo' = <<>>, phase' # "collect"
    PROVE  TodoOK'
BY DEF TodoOK

\* A statement that comes is one the client may send.
LEMMA StartInv ==
    ASSUME TableInv, NEW s \in Statements,
           Insert(s) \/ Truncate(s) \/ Collect(s) \/ StartRows(s)
    PROVE  TableInv'
<1>1. stmt' = s /\ phase = "idle"
  BY DEF Insert, Truncate, Collect, StartRows, Start
<1>2. MapOK /\ Exact
  BY <1>1 DEF TableInv, MapOK, Exact, KeyMapExact
<1>3. cursor' = 1 /\ todo' = <<>>
  BY DEF Insert, Truncate, Collect, StartRows, End, Begin
<1>4. CASE Insert(s) \/ Truncate(s) \/ StartRows(s)
  <2>1. phase' # "collect"
    BY <1>4 DEF Insert, Truncate, StartRows, End, Begin
  <2>2. MapOK' /\ Exact'
    <3>1. CASE Insert(s)
      <4>1. s.key \in Keys
        BY <3>1, TableAssumption DEF Insert
      <4>2. CASE keyMap[s.key] = 0
        BY <1>2, <3>1, <4>1, <4>2, PushBackExact DEF Insert
      <4>3. CASE keyMap[s.key] # 0
        BY <1>2, <3>1, <4>3, SameTable DEF Insert
      <4> QED
        BY <4>2, <4>3
    <3>2. CASE Truncate(s)
      <4>1. data' = <<>> /\ keyMap' = [k \in Keys |-> 0]
        BY <3>2 DEF Truncate
      <4>2. data' \in Seq({}) /\ DOMAIN data' = {}
        BY <4>1
      <4> QED
        BY <4>1, <4>2 DEF MapOK, Exact, VectorOfRows
    <3>3. CASE StartRows(s)
      BY <1>2, <3>3, SameTable DEF StartRows
    <3> QED
      BY <1>4, <3>1, <3>2, <3>3
  <2> QED
    BY <1>1, <1>3, <2>1, <2>2, NoTodo DEF TableInv, MapOK, Exact, KeyMapExact
<1>5. CASE Collect(s)
  <2>1. data' = data /\ keyMap' = keyMap
    BY <1>5 DEF Collect
  <2>2. s.type = "Duplicate" =>
           \A j \in DOMAIN data :
               evalCondition(s.cond, data[j]) => CopyKey[data[j].key] \in Keys
    BY <1>2, <1>5, TableAssumption DEF Collect, CopiesInBound, MapOK, VectorOfRows, IsRow
  <2>3. TodoOK'
    <3>1. todo' \in Seq(Keys) /\ DOMAIN todo' = {}
      BY <1>3
    <3>2. stmt'.type = "Duplicate" =>
             \A j \in DOMAIN data' :
                 evalCondition(stmt'.cond, data'[j]) => CopyKey[data'[j].key] \in Keys
      BY <1>1, <2>1, <2>2
    <3> QED
      BY <3>1, <3>2 DEF TodoOK
  <2> QED
    BY <1>1, <1>2, <1>3, <2>1, <2>3 DEF TableInv, MapOK, Exact, KeyMapExact, VectorOfRows
<1> QED
  BY <1>4, <1>5

\* Collecting the keys touches neither the rows nor the map.
LEMMA CollectInv ==
    ASSUME TableInv, CollectRow \/ CollectDone
    PROVE  TableInv'
<1>1. /\ data' = data /\ keyMap' = keyMap /\ stmt' = stmt
      /\ phase = "collect" /\ phase' # "collided"
  BY DEF CollectRow, CollectDone, End, NextRow
<1>2. cursor' \in Nat \ {0}
  BY DEF TableInv, CollectRow, CollectDone, End, NextRow
<1>3. VectorOfRows' /\ keyMap' \in [Keys -> Nat] /\ KeyMapExact'
  BY <1>1 DEF TableInv, VectorOfRows, KeyMapExact
<1>4. TodoOK'
  <2>1. CASE todo' = todo
    BY <1>1, <2>1 DEF TableInv, TodoOK, evalCondition, Holds, Compare
  <2>2. CASE CollectRow /\ phase' = "idle" /\ todo' = <<>>
    BY <2>2, NoTodo
  <2>3. CASE /\ CollectRow /\ Wants(data[cursor])
             /\ todo' = Append(todo, data[cursor].key)
    <3> DEFINE k == data[cursor].key
    <3>1. cursor \in DOMAIN data
      BY <2>3, RowsLen DEF TableInv, CollectRow
    <3>2. k \in Keys /\ todo \in Seq(Keys)
      BY <3>1 DEF TableInv, VectorOfRows, IsRow, TodoOK
    <3>3. stmt.type = "Duplicate" => CopyKey[k] \in Keys
      BY <1>1, <2>3, <3>1 DEF Wants, TableInv, TodoOK
    <3>4. /\ todo' \in Seq(Keys) /\ DOMAIN todo' = 1 .. (Len(todo) + 1)
          /\ \A j \in 1 .. Len(todo) : todo'[j] = todo[j]
          /\ todo'[Len(todo) + 1] = k /\ Len(todo) \in Nat
      BY <2>3, <3>2
    <3>5. stmt.type = "Duplicate" => \A j \in DOMAIN todo' : CopyKey[todo'[j]] \in Keys
      <4> SUFFICES ASSUME stmt.type = "Duplicate", NEW j \in DOMAIN todo'
                   PROVE  CopyKey[todo'[j]] \in Keys
        OBVIOUS
      <4>1. CASE j = Len(todo) + 1
        BY <3>3, <3>4, <4>1
      <4>2. CASE j \in 1 .. Len(todo)
        <5>1. j \in DOMAIN todo /\ todo'[j] = todo[j]
          BY <3>2, <3>4, <4>2
        <5> QED
          BY <5>1 DEF TableInv, TodoOK
      <4> QED
        BY <3>4, <4>1, <4>2
    <3> QED
      BY <1>1, <3>4, <3>5 DEF TableInv, TodoOK, evalCondition, Holds, Compare
  <2> QED
    BY <2>1, <2>2, <2>3 DEF CollectRow, CollectDone, End
<1> QED
  BY <1>1, <1>2, <1>3, <1>4 DEF TableInv

\* So do the deletion and the copy of one row, whose key leaves the list.
LEMMA KeyStepInv ==
    ASSUME TableInv, DeleteKey \/ DuplicateKey
    PROVE  TableInv'
<1> DEFINE k == Head(todo)
<1>1. /\ phase = "keys" /\ phase' = phase /\ stmt' = stmt /\ cursor' = cursor
      /\ todo # <<>> /\ todo' = Tail(todo)
  BY DEF DeleteKey, DuplicateKey, NextKey
<1>2. MapOK /\ Exact
  BY <1>1 DEF TableInv, MapOK, Exact, KeyMapExact
<1>3. todo \in Seq(Keys)
  BY DEF TableInv, TodoOK
<1>4. /\ k \in Keys /\ Tail(todo) \in Seq(Keys) /\ 1 \in DOMAIN todo /\ k = todo[1]
      /\ \A j \in DOMAIN Tail(todo) : j + 1 \in DOMAIN todo /\ Tail(todo)[j] = todo[j + 1]
  BY <1>1, <1>3
<1>5. MapOK' /\ Exact'
  <2>1. CASE DeleteKey
    BY <1>2, <1>4, <2>1, DeleteExact DEF DeleteKey
  <2>2. CASE DuplicateKey
    <3>1. CopyKey[k] \in Keys
      BY <1>4, <2>2 DEF DuplicateKey, TableInv, TodoOK
    <3> QED
      BY <1>2, <1>4, <2>2, <3>1, DuplicateExact DEF DuplicateKey
  <2> QED
    BY <2>1, <2>2
<1>6. TodoOK'
  BY <1>1, <1>4 DEF TableInv, TodoOK
<1> QED
  BY <1>1, <1>5, <1>6 DEF TableInv, MapOK, Exact, KeyMapExact

\* A visit to a row changes its values, or its key.
LEMMA VisitRowInv ==
    ASSUME TableInv, VisitRow
    PROVE  TableInv'
<1>1. /\ phase = "rows" /\ stmt' = stmt /\ cursor' \in Nat \ {0}
      /\ phase' \in {"idle", "rows", "collided"}
  BY DEF TableInv, VisitRow, End, NextRow
<1>2. MapOK /\ Exact
  BY <1>1 DEF TableInv, MapOK, Exact, KeyMapExact
<1>3. cursor \in DOMAIN data
  BY RowsLen DEF TableInv, VisitRow
<1>4. TodoOK'
  <2>1. CASE todo' = todo
    BY <1>1, <2>1 DEF TableInv, TodoOK
  <2>2. CASE todo' = <<>>
    BY <1>1, <2>2, NoTodo
  <2> QED
    BY <2>1, <2>2 DEF VisitRow, End
<1>5. MapOK' /\ (phase' # "collided" => Exact')
  <2>1. CASE data' = data /\ keyMap' = keyMap
    BY <1>2, <2>1, SameTable
  <2>2. CASE data' = [data EXCEPT ![cursor].datum = Written(stmt, @)] /\ keyMap' = keyMap
    <3> DEFINE r == [data[cursor] EXCEPT !.datum = Written(stmt, @)]
    <3>1. IsRow(r) /\ r.key = data[cursor].key
      BY <1>2, <1>3 DEF MapOK, VectorOfRows, IsRow
    <3>2. data' = [data EXCEPT ![cursor] = r]
      BY <2>2
    <3> HIDE DEF r
    <3>3. /\ VectorOfRows' /\ DOMAIN data' = DOMAIN data /\ data'[cursor] = r
          /\ \A j \in DOMAIN data : j # cursor => data'[j] = data[j]
      BY <1>2, <1>3, <3>1, <3>2, ReplaceRow DEF MapOK
    <3>4. \A j \in DOMAIN data : data'[j].key = data[j].key
      BY <3>1, <3>3
    <3> QED
      BY <1>2, <2>2, <3>3, <3>4 DEF MapOK, Exact
  <2>3. CASE /\ stmt.type = "UpdateKey" /\ setKey(cursor, stmt.key)
             /\ phase' = IF Collides(cursor, stmt.key) THEN "collided" ELSE phase
    <3>1. stmt.key \in Keys
      BY <2>3, TableAssumption DEF TableInv, NoStatement
    <3> QED
      BY <1>2, <1>3, <2>3, <3>1, SetKeyExact
  <2> QED
    BY <2>1, <2>2, <2>3 DEF VisitRow
<1> QED
  BY <1>1, <1>4, <1>5 DEF TableInv, MapOK, Exact, KeyMapExact

\* The end of a statement changes no row.
LEMMA DoneInv ==
    ASSUME TableInv, KeysDone \/ RowsDone \/ UNCHANGED tvars
    PROVE  TableInv'
<1>1. data' = data /\ keyMap' = keyMap /\ stmt' = stmt
  BY DEF KeysDone, RowsDone, tvars, queryVars
<1>2. \/ phase' = phase /\ cursor' = cursor /\ todo' = todo
      \/ phase' = "idle" /\ cursor' = 1 /\ todo' = <<>> /\ phase # "collided"
  BY DEF KeysDone, RowsDone, End, tvars, queryVars
<1>3. TodoOK'
  BY <1>1, <1>2, NoTodo DEF TableInv, TodoOK, evalCondition, Holds, Compare
<1> QED
  BY <1>1, <1>2, <1>3 DEF TableInv, VectorOfRows, KeyMapExact

\* Every step keeps the invariant.
LEMMA TableStep == TableInv /\ [TableNext]_tvars => TableInv'
BY StartInv, CollectInv, KeyStepInv, VisitRowInv, DoneInv DEF TableNext, StartStatement

\* After every step of every sequence of statements, the map that finds a row by its
\* key and the vector of rows agree, until an UPDATE gives a row another row's key.
THEOREM KeyMapAlwaysExact == TableSpec => []KeyMapExact
<1>1. TableInit => TableInv
  <2> SUFFICES ASSUME TableInit PROVE TableInv
    OBVIOUS
  <2>1. data \in Seq({}) /\ DOMAIN data = {}
    BY DEF TableInit
  <2>2. todo \in Seq(Keys) /\ DOMAIN todo = {}
    BY DEF TableInit
  <2> QED
    BY <2>1, <2>2 DEF TableInit, TableInv, VectorOfRows, TodoOK, KeyMapExact
<1>2. TableInv /\ [TableNext]_tvars => TableInv'
  BY TableStep
<1>3. TableInv => KeyMapExact
  BY DEF TableInv
<1> QED
  BY <1>1, <1>2, <1>3, PTL DEF TableSpec

-----------------------------------------------------------------------------
(* Sums.  MapThenSumSet(op, S) is the value at S of a recursive function   *)
(* on the subsets of S; SumTable is that function for an op given as a     *)
(* function f.                                                             *)

pick(s) == CHOOSE x \in s : TRUE
SumStep(f, S, g) == [s \in SUBSET S |-> IF s = {} THEN 0 ELSE f[pick(s)] + g[s \ {pick(s)}]]
SumTable(f, S) == CHOOSE g : g = SumStep(f, S, g)

\* One member less.
LEMMA OneLess ==
    ASSUME NEW S, IsFiniteSet(S), NEW s \in SUBSET S, NEW x \in s
    PROVE  /\ Cardinality(s) \in Nat /\ s \ {x} \in SUBSET S
           /\ Cardinality(s \ {x}) \in Nat
           /\ Cardinality(s \ {x}) = Cardinality(s) - 1
<1>1. IsFiniteSet(s)
  BY FS_Subset
<1>2. Cardinality(s) \in Nat
  BY <1>1, FS_CardinalityType
<1>3. IsFiniteSet(s \ {x}) /\ Cardinality(s \ {x}) = Cardinality(s) - 1
  BY <1>1, FS_RemoveElement
<1>4. Cardinality(s \ {x}) \in Nat
  BY <1>3, FS_CardinalityType
<1> QED BY <1>2, <1>3, <1>4

\* The recursion has a solution, whose values are integers.
LEMMA SumTableEquation ==
    ASSUME NEW S, IsFiniteSet(S), NEW f \in [S -> Int]
    PROVE  /\ SumTable(f, S) = SumStep(f, S, SumTable(f, S))
           /\ SumTable(f, S) \in [SUBSET S -> Int]
<1> DEFINE val(g, s) == IF s = {} THEN 0 ELSE f[pick(s)] + g[s \ {pick(s)}]
           UpTo(g, n) == \A s \in SUBSET S : Cardinality(s) <= n => g[s] = val(g, s)
           Good == {n \in Nat : \E g \in [SUBSET S -> Int] : UpTo(g, n)}
<1>1. \A s \in SUBSET S : s # {} => pick(s) \in s
  BY DEF pick
<1>2. \A s \in SUBSET S : Cardinality(s) \in Nat
  BY FS_Subset, FS_CardinalityType
<1>3. ASSUME NEW n \in Nat, \A m \in Nat : m < n => m \in Good
      PROVE  n \in Good
  <2>1. CASE n = 0
    <3> DEFINE g == [s \in SUBSET S |-> 0]
    <3>1. g \in [SUBSET S -> Int]
      OBVIOUS
    <3>2. ASSUME NEW s \in SUBSET S, Cardinality(s) <= 0 PROVE g[s] = val(g, s)
      <4>1. s = {}
        BY <1>2, <3>2, FS_EmptySet, FS_Subset
      <4> QED BY <4>1
    <3> QED BY <2>1, <3>1, <3>2
  <2>2. CASE n # 0
    <3>a. n - 1 \in Nat /\ n - 1 < n
      BY <2>2
    <3>b. n - 1 \in Good
      <4> HIDE DEF Good
      <4> QED BY <1>3, <3>a
    <3>1. PICK g \in [SUBSET S -> Int] : UpTo(g, n - 1)
      <4> HIDE DEF UpTo
      <4> QED BY <3>b
    <3> DEFINE h == [s \in SUBSET S |-> val(g, s)]
    <3>2. h \in [SUBSET S -> Int]
      <4>1. ASSUME NEW s \in SUBSET S PROVE val(g, s) \in Int
        <5>1. CASE s = {}
          BY <5>1
        <5>2. CASE s # {}
          <6>1. pick(s) \in S /\ s \ {pick(s)} \in SUBSET S
            BY <1>1, <5>2
          <6> QED BY <3>1, <5>2, <6>1
        <5> QED BY <5>1, <5>2
      <4> HIDE DEF val
      <4> QED BY <4>1
    <3>3. ASSUME NEW s \in SUBSET S, Cardinality(s) <= n PROVE h[s] = val(h, s)
      <4>1. CASE s = {}
        BY <4>1
      <4>2. CASE s # {}
        <5> DEFINE r == s \ {pick(s)}
        <5>1. r \in SUBSET S /\ Cardinality(r) \in Nat /\ Cardinality(r) = Cardinality(s) - 1
          BY <1>1, <4>2, OneLess
        <5>a. Cardinality(s) \in Nat /\ Cardinality(s) <= n
          BY <1>2, <3>3
        <5>b. Cardinality(r) <= n - 1
          <6> HIDE DEF r
          <6> QED BY <5>1, <5>a
        <5>2. g[r] = val(g, r)
          <6> HIDE DEF r, val
          <6> QED BY <3>1, <5>1, <5>b
        <5>3. h[r] = val(g, r) /\ h[s] = val(g, s)
          BY <5>1
        <5>4. val(g, s) = f[pick(s)] + g[r] /\ val(h, s) = f[pick(s)] + h[r]
          BY <4>2
        <5> HIDE DEF h, val, r
        <5> QED BY <5>2, <5>3, <5>4
      <4> QED BY <4>1, <4>2
    <3> HIDE DEF h
    <3> QED BY <3>2, <3>3
  <2> QED BY <2>1, <2>2
<1> HIDE DEF Good
<1>4. \A n \in Nat : n \in Good
  BY <1>3, StrongInduction
<1>5. PICK g \in [SUBSET S -> Int] : UpTo(g, Cardinality(S))
  BY <1>2, <1>4 DEF Good
<1>6. g = SumStep(f, S, g)
  <2>1. ASSUME NEW s \in SUBSET S PROVE g[s] = val(g, s)
    <3>1. Cardinality(s) <= Cardinality(S)
      BY FS_Subset
    <3> QED BY <1>5, <3>1
  <2> HIDE DEF val
  <2>2. g = [s \in SUBSET S |-> val(g, s)]
    BY <2>1
  <2> QED BY <2>2 DEF SumStep, val
<1>7. SumTable(f, S) = SumStep(f, S, SumTable(f, S))
  <2> HIDE DEF UpTo
  <2> QED BY <1>6 DEF SumTable
<1> DEFINE t == SumTable(f, S)
<1> HIDE DEF t
<1>8. ASSUME NEW s \in SUBSET S PROVE t[s] = val(t, s)
  <2>1. t = SumStep(f, S, t)
    BY <1>7 DEF t
  <2> QED BY <2>1 DEF SumStep
<1>9. t \in [SUBSET S -> Int]
  <2> DEFINE Typed == {n \in Nat : \A s \in SUBSET S : Cardinality(s) = n => t[s] \in Int}
  <2>1. ASSUME NEW n \in Nat, \A m \in Nat : m < n => m \in Typed
        PROVE  n \in Typed
    <3>1. SUFFICES ASSUME NEW s \in SUBSET S, Cardinality(s) = n PROVE t[s] \in Int
      OBVIOUS
    <3>2. CASE s = {}
      <4>1. val(t, s) = 0
        BY <3>2
      <4>2. t[s] = 0
        <5> HIDE DEF val
        <5> QED BY <1>8, <4>1
      <4> QED BY <4>2
    <3>3. CASE s # {}
      <4> DEFINE r == s \ {pick(s)}
      <4>1. /\ r \in SUBSET S /\ Cardinality(r) \in Nat /\ Cardinality(r) = Cardinality(s) - 1
            /\ pick(s) \in S
        BY <1>1, <3>3, OneLess
      <4>2. t[s] = f[pick(s)] + t[r]
        BY <1>8, <3>3
      <4> HIDE DEF r
      <4>3. t[r] \in Int
        BY <2>1, <3>1, <4>1
      <4>4. f[pick(s)] \in Int
        BY <4>1
      <4> QED BY <4>2, <4>3, <4>4
    <3> QED BY <3>2, <3>3
  <2> HIDE DEF Typed
  <2>2. \A n \in Nat : n \in Typed
    BY <2>1, StrongInduction
  <2>3. \A s \in SUBSET S : t[s] \in Int
    BY <1>2, <2>2 DEF Typed
  <2>4. t = SumStep(f, S, t)
    BY <1>7 DEF t
  <2>5. DOMAIN t = SUBSET S /\ t = [s \in SUBSET S |-> t[s]]
    BY <2>4 DEF SumStep
  <2> QED BY <2>3, <2>5
<1> QED BY <1>7, <1>9 DEF t

\* The sum does not depend on the member that is taken first.
LEMMA SumSplit ==
    ASSUME NEW S, IsFiniteSet(S), NEW f \in [S -> Int], NEW s \in SUBSET S, NEW x \in s
    PROVE  SumTable(f, S)[s] = f[x] + SumTable(f, S)[s \ {x}]
<1> DEFINE t == SumTable(f, S)
           Splits(u, y) == t[u] = f[y] + t[u \ {y}]
           Good == {n \in Nat : \A u \in SUBSET S : \A y \in u :
                                    Cardinality(u) = n => Splits(u, y)}
<1>1. t = SumStep(f, S, t) /\ t \in [SUBSET S -> Int]
  BY SumTableEquation
<1> HIDE DEF t
<1>2. \A u \in SUBSET S : u # {} => pick(u) \in u /\ Splits(u, pick(u))
  BY <1>1 DEF SumStep, pick
<1>3. ASSUME NEW n \in Nat, \A m \in Nat : m < n => m \in Good
      PROVE  n \in Good
  <2> SUFFICES ASSUME NEW u \in SUBSET S, NEW y \in u, Cardinality(u) = n
               PROVE  Splits(u, y)
    OBVIOUS
  <2> DEFINE p == pick(u)
  <2>1. p \in u /\ Splits(u, p)
    BY <1>2
  <2>2. CASE y = p
    BY <2>1, <2>2
  <2>3. CASE y # p
    <3> DEFINE a == u \ {p}
               b == u \ {y}
               c == a \ {y}
    <3>1. /\ a \in SUBSET S /\ Cardinality(a) \in Nat /\ Cardinality(a) = n - 1
          /\ b \in SUBSET S /\ Cardinality(b) \in Nat /\ Cardinality(b) = n - 1
      BY <2>1, OneLess
    <3>2. y \in a /\ p \in b /\ c \in SUBSET S /\ c = b \ {p}
      BY <2>1, <2>3
    <3> HIDE DEF a, b, c, p, Splits
    <3>3. n - 1 \in Good
      <4> HIDE DEF Good
      <4> QED BY <1>3, <3>1
    <3>4. Splits(a, y) /\ Splits(b, p)
      BY <3>1, <3>2, <3>3
    <3>5. t[a] = f[y] + t[c] /\ t[b] = f[p] + t[c] /\ t[u] = f[p] + t[a]
      BY <2>1, <3>2, <3>4 DEF Splits, a, b, c
    <3>6. f[y] \in Int /\ f[p] \in Int /\ t[c] \in Int
      BY <1>1, <2>1, <3>2
    <3>7. t[u] = f[y] + t[b]
      BY <3>5, <3>6
    <3> QED BY <3>7 DEF Splits, b
  <2> QED BY <2>2, <2>3
<1> HIDE DEF Good
<1>4. \A n \in Nat : n \in Good
  BY <1>3, StrongInduction
<1>5. Cardinality(s) \in Nat
  BY FS_Subset, FS_CardinalityType
<1>6. Splits(s, x)
  <2> HIDE DEF Splits
  <2> QED BY <1>4, <1>5 DEF Good
<1> QED BY <1>6 DEF t

\* The sum of the negations is the negation of the sum.
Opposite(f, g, T) == \A x \in T : f[x] = 0 - g[x]

LEMMA SumNegates ==
    ASSUME NEW S, IsFiniteSet(S), NEW T \in SUBSET S, NEW f \in [S -> Int],
           NEW g \in [T -> Int], Opposite(f, g, T)
    PROVE  Opposite(SumTable(f, S), SumTable(g, T), SUBSET T)
<1> DEFINE t == SumTable(f, S)
           q == SumTable(g, T)
           Good == {n \in Nat : \A s \in SUBSET T : Cardinality(s) = n => t[s] = 0 - q[s]}
<1>1. IsFiniteSet(T)
  BY FS_Subset
<1>2. /\ t = SumStep(f, S, t) /\ t \in [SUBSET S -> Int]
      /\ q = SumStep(g, T, q) /\ q \in [SUBSET T -> Int]
  BY <1>1, SumTableEquation
<1> HIDE DEF t, q
<1>3. ASSUME NEW n \in Nat, \A m \in Nat : m < n => m \in Good
      PROVE  n \in Good
  <2> SUFFICES ASSUME NEW s \in SUBSET T, Cardinality(s) = n PROVE t[s] = 0 - q[s]
    OBVIOUS
  <2>1. CASE s = {}
    <3>1. t[s] = 0 /\ q[s] = 0
      BY <1>2, <2>1 DEF SumStep
    <3> QED BY <3>1
  <2>2. CASE s # {}
    <3> DEFINE p == pick(s)
               r == s \ {p}
    <3>1. p \in s
      BY <2>2 DEF pick
    <3>2. r \in SUBSET T /\ Cardinality(r) \in Nat /\ Cardinality(r) = n - 1
      BY <1>1, <3>1, OneLess
    <3>3. t[s] = f[p] + t[r] /\ q[s] = g[p] + q[r]
      BY <1>2, <2>2 DEF SumStep
    <3> HIDE DEF p, r
    <3>4. t[r] = 0 - q[r]
      <4>1. n - 1 \in Good
        <5> HIDE DEF Good
        <5> QED BY <1>3, <3>2
      <4> QED BY <3>2, <4>1
    <3>5. f[p] = 0 - g[p] /\ g[p] \in Int /\ q[r] \in Int
      BY <1>2, <3>1, <3>2 DEF Opposite
    <3> QED BY <3>3, <3>4, <3>5
  <2> QED BY <2>1, <2>2
<1> HIDE DEF Good
<1>4. \A n \in Nat : n \in Good
  BY <1>3, StrongInduction
<1>5. ASSUME NEW s \in SUBSET T PROVE t[s] = 0 - q[s]
  <2>1. Cardinality(s) \in Nat
    BY <1>1, FS_Subset, FS_CardinalityType
  <2> QED BY <1>4, <2>1 DEF Good
<1> QED BY <1>5 DEF t, q, Opposite

\* The two sums of module Table in terms of SumTable.
LEMMA SumFromIs ==
    ASSUME NEW datum, NEW src, NEW i, NEW f, \A j \in i .. Len(src) : f[j] = datum[src[j]]
    PROVE  SumFrom(datum, src, i) = SumTable(f, i .. Len(src))[i .. Len(src)]
<1> DEFINE S == i .. Len(src)
           Step(g) == [s \in SUBSET S |-> IF s = {} THEN 0
                                          ELSE datum[src[CHOOSE x \in s : TRUE]]
                                               + g[s \ {CHOOSE x \in s : TRUE}]]
<1>1. SumFrom(datum, src, i) = (CHOOSE g : g = Step(g))[S]
  BY Zenon DEF SumFrom, MapThenSumSet, MapThenFoldSet
<1>2. ASSUME NEW g PROVE Step(g) = SumStep(f, S, g)
  BY DEF SumStep, pick
<1> HIDE DEF Step, S
<1>3. SumTable(f, S) = CHOOSE g : g = Step(g)
  BY <1>2, Zenon DEF SumTable
<1> QED BY <1>1, <1>3 DEF S

LEMMA ExactSumIs ==
    ASSUME NEW s, NEW row, NEW f,
           \A j \in DOMAIN s.src : f[j] = (IF s.type = "Sub" /\ j > 1 THEN -1 ELSE 1)
                                          * row.datum[s.src[j]]
    PROVE  ExactSum(s, row) = SumTable(f, DOMAIN s.src)[DOMAIN s.src]
<1> DEFINE S == DOMAIN s.src
           term(j) == (IF s.type = "Sub" /\ j > 1 THEN -1 ELSE 1) * row.datum[s.src[j]]
           Step(g) == [u \in SUBSET S |-> IF u = {} THEN 0
                                          ELSE term(CHOOSE x \in u : TRUE)
                                               + g[u \ {CHOOSE x \in u : TRUE}]]
<1>1. ExactSum(s, row) = (CHOOSE g : g = Step(g))[S]
  BY Zenon DEF ExactSum, MapThenSumSet, MapThenFoldSet
<1>2. \A j \in S : f[j] = term(j)
  OBVIOUS
<1> HIDE DEF term
<1>3. ASSUME NEW g PROVE Step(g) = SumStep(f, S, g)
  BY <1>2 DEF SumStep, pick
<1> HIDE DEF Step, S
<1>4. SumTable(f, S) = CHOOSE g : g = Step(g)
  BY <1>3, Zenon DEF SumTable
<1> QED BY <1>1, <1>4 DEF S

-----------------------------------------------------------------------------
(* What a statement makes of the values of a row.                          *)

\* The only multiple of k nearer to 0 than k is 0.
LEMMA SmallMultiple ==
    ASSUME NEW k \in Nat \ {0}, NEW p \in Int, -k < k * p, k * p < k
    PROVE  p = 0
<1>1. CASE p >= 1
  BY <1>1
<1>2. CASE p <= -1
  BY <1>2
<1> QED BY <1>1, <1>2

\* Division with remainder.
LEMMA Remainder ==
    ASSUME NEW k \in Nat \ {0}, NEW m \in Int
    PROVE  /\ m \div k \in Int /\ m % k \in 0 .. (k - 1)
           /\ m = k * (m \div k) + (m % k)
OBVIOUS

\* A multiple of k leaves no remainder.
LEMMA MultipleRemainder ==
    ASSUME NEW k \in Nat \ {0}, NEW p \in Int
    PROVE  (k * p) % k = 0
<1> DEFINE m == k * p
           d == m \div k
           r == m % k
<1>1. m \in Int
  OBVIOUS
<1>2. d \in Int /\ r \in Int /\ 0 <= r /\ r < k /\ m = k * d + r
  <2> HIDE DEF m
  <2>1. d \in Int /\ r \in 0 .. (k - 1) /\ m = k * d + r
    BY <1>1, Remainder, Zenon
  <2> QED BY <2>1
<1>3. m = k * p
  OBVIOUS
<1> HIDE DEF m, d, r
<1>4. p - d \in Int /\ k * (p - d) = r
  BY <1>2, <1>3
<1>5. p - d = 0
  BY <1>2, <1>4, SmallMultiple
<1>6. r = 0
  BY <1>4, <1>5
<1> QED BY <1>6 DEF r, m

\* static_cast<int> gives the one value that differs by a multiple of 2 * Half.
LEMMA ToValueExact ==
    ASSUME NEW n \in Int
    PROVE  /\ ToValue(n) \in Value
           /\ (ToValue(n) - n) % (2 * Half) = 0
           /\ ToValue(n) = CHOOSE v \in Value : (v - n) % (2 * Half) = 0
<1> DEFINE k == 2 * Half
           d == (n + Half) \div k
           r == (n + Half) % k
           w == ToValue(n)
<1>1. Half \in Nat \ {0} /\ k \in Nat \ {0} /\ k = 2 * Half
  BY TableAssumption
<1>2. d \in Int /\ r \in Int /\ 0 <= r /\ r < k /\ n + Half = k * d + r
  <2> HIDE DEF k
  <2>1. n + Half \in Int
    BY <1>1
  <2>2. d \in Int /\ r \in 0 .. (k - 1) /\ n + Half = k * d + r
    BY <1>1, <2>1, Remainder, Zenon
  <2> QED BY <1>1, <2>2
<1>3. w = r - Half
  BY DEF ToValue
<1> HIDE DEF k, d, r, w
<1>4. w \in Value
  BY <1>1, <1>2, <1>3 DEF Value
<1>5. (w - n) % k = 0
  <2>1. w - n = k * (0 - d) /\ 0 - d \in Int
    BY <1>1, <1>2, <1>3
  <2> QED BY <1>1, <2>1, MultipleRemainder
<1>6. ASSUME NEW v \in Value, (v - n) % k = 0 PROVE v = w
  <2> DEFINE e == (v - n) \div k
  <2>1. v \in Int /\ v >= -Half /\ v < Half
    BY <1>1 DEF Value
  <2>2. e \in Int /\ v - n = k * e + 0
    <3>1. v - n \in Int
      BY <2>1
    <3>2. e \in Int /\ v - n = k * e + ((v - n) % k)
      BY <1>1, <3>1, Remainder, Zenon
    <3> QED BY <1>6, <3>2
  <2> HIDE DEF e
  <2>3. e + d \in Int /\ v - w = k * (e + d)
    BY <1>1, <1>2, <1>3, <2>1, <2>2
  <2>4. -k < v - w /\ v - w < k
    BY <1>1, <1>2, <1>3, <2>1
  <2>5. e + d = 0
    BY <1>1, <2>3, <2>4, SmallMultiple
  <2> QED BY <1>1, <1>2, <1>3, <2>1, <2>3, <2>5
<1>7. w = CHOOSE v \in Value : (v - n) % k = 0
  BY <1>4, <1>5, <1>6
<1> QED BY <1>4, <1>5, <1>7 DEF w, k

\* The 64-bit sums of ADD and SUB are the sum and the difference of the fields.
LEMMA SumsOfRow ==
    ASSUME NEW s, s.src \in Seq(Nat), s.src # <<>>, s.type \in {"Add", "Sub"},
           NEW row, row.datum \in Seq(Value),
           \A i \in DOMAIN s.src : s.src[i] \in DOMAIN row.datum
    PROVE  /\ ExactSum(s, row) \in Int
           /\ s.type = "Add" => SumFrom(row.datum, s.src, 1) = ExactSum(s, row)
           /\ s.type = "Sub" => row.datum[s.src[1]] - SumFrom(row.datum, s.src, 2)
                                = ExactSum(s, row)
<1> DEFINE n == Len(s.src)
           D == DOMAIN s.src
           val(j) == row.datum[s.src[j]]
           f == [j \in D |-> (IF s.type = "Sub" /\ j > 1 THEN -1 ELSE 1) * val(j)]
<1>1. n \in Nat /\ n # 0 /\ D = 1 .. n
  BY EmptySeq
<1>2. \A j \in D : val(j) \in Int
  BY TableAssumption DEF Value
<1>3. IsFiniteSet(D) /\ D \in SUBSET D
  BY <1>1, FS_Interval
<1>4. f \in [D -> Int]
  BY <1>2
<1>5. ExactSum(s, row) = SumTable(f, D)[D]
  BY ExactSumIs
<1>6. SumTable(f, D) \in [SUBSET D -> Int]
  BY <1>3, <1>4, SumTableEquation
<1>7. ASSUME s.type = "Add" PROVE SumFrom(row.datum, s.src, 1) = ExactSum(s, row)
  <2>1. ASSUME NEW j \in D PROVE f[j] = row.datum[s.src[j]]
    <3>1. val(j) \in Int /\ f[j] = 1 * val(j)
      BY <1>2, <1>7
    <3>2. f[j] = val(j)
      <4> HIDE DEF val, f
      <4> QED BY <3>1
    <3> QED BY <3>2
  <2> HIDE DEF f
  <2>2. SumFrom(row.datum, s.src, 1) = SumTable(f, 1 .. n)[1 .. n]
    BY <1>1, <2>1, SumFromIs
  <2> QED BY <1>1, <1>5, <2>2
<1>8. ASSUME s.type = "Sub"
      PROVE  row.datum[s.src[1]] - SumFrom(row.datum, s.src, 2) = ExactSum(s, row)
  <2> DEFINE T == 2 .. n
             g == [j \in T |-> val(j)]
  <2>1. T \in SUBSET D /\ D \ {1} = T /\ 1 \in D
    BY <1>1
  <2>2. g \in [T -> Int] /\ \A j \in T : f[j] = 0 - g[j]
    BY <1>2, <1>8, <2>1
  <2>3. f[1] = val(1)
    BY <1>1, <1>2
  <2>4. SumFrom(row.datum, s.src, 2) = SumTable(g, T)[T]
    BY SumFromIs
  <2> HIDE DEF f, g, T, val
  <2>5. SumTable(f, D)[D] = f[1] + SumTable(f, D)[T]
    <3> HIDE DEF D
    <3>1. \A u \in SUBSET D : \A x \in u :
              SumTable(f, D)[u] = f[x] + SumTable(f, D)[u \ {x}]
      BY <1>3, <1>4, SumSplit
    <3>2. SumTable(f, D)[D] = f[1] + SumTable(f, D)[D \ {1}]
      BY <2>1, <3>1
    <3> QED BY <2>1, <3>2
  <2>6. SumTable(f, D)[T] = 0 - SumTable(g, T)[T]
    <3> HIDE DEF D
    <3>1. Opposite(f, g, T)
      BY <2>2 DEF Opposite
    <3>2. Opposite(SumTable(f, D), SumTable(g, T), SUBSET T)
      BY <1>3, <1>4, <2>1, <2>2, <3>1, SumNegates
    <3> QED BY <3>2 DEF Opposite
  <2>7. IsFiniteSet(T) /\ SumTable(g, T)[T] \in Int
    <3>1. IsFiniteSet(T)
      BY <1>3, <2>1, FS_Subset
    <3>2. SumTable(g, T) \in [SUBSET T -> Int]
      BY <2>2, <3>1, SumTableEquation
    <3> QED BY <3>1, <3>2
  <2>8. val(1) \in Int
    BY <1>2, <2>1
  <2>9. val(1) - SumFrom(row.datum, s.src, 2) = ExactSum(s, row)
    BY <1>5, <2>3, <2>4, <2>5, <2>6, <2>7, <2>8
  <2> QED BY <2>9 DEF val
<1>9. ExactSum(s, row) \in Int
  BY <1>3, <1>5, <1>6
<1> QED BY <1>7, <1>8, <1>9

\* UPDATE, ADD, SUB and SWAP write the values that are expected.
LEMMA WrittenIs ==
    ASSUME NEW s \in Statements, s.type \in {"Update", "Add", "Sub", "Swap"},
           NEW row \in Row, \A f \in FieldsUsed(s) : f <= Len(row.datum)
    PROVE  /\ Written(s, row.datum) \in Seq(Value)
           /\ [row EXCEPT !.datum = Written(s, @)] = Changed(s, row)
<1> DEFINE d == row.datum
           w == Written(s, d)
           after == [f \in DOMAIN d |-> FieldAfter(s, row, f)]
<1>1. /\ d \in Seq(Value) /\ s.val \in Value
      /\ s.src \in Seq(Nat \ {0}) /\ s.dst \in Nat \ {0}
      /\ s.type \in {"Add", "Sub"} => s.src # <<>>
      /\ s.type = "Swap" => Len(s.src) = 1
  BY TableAssumption DEF Row, Statement
<1>2. Len(d) \in Nat /\ DOMAIN d = 1 .. Len(d) /\ \A f \in DOMAIN d : d[f] \in Value
  BY <1>1
<1>3. s.type = "Swap" => 1 \in DOMAIN s.src
  BY <1>1
<1>4. \A i \in DOMAIN s.src : s.src[i] \in Nat \ {0}
  BY <1>1
<1>5. ~(s.type = "Swap" /\ s.src[1] = s.dst) =>
          /\ s.dst \in DOMAIN d
          /\ s.type # "Update" => \A i \in DOMAIN s.src : s.src[i] \in DOMAIN d
  BY <1>1, <1>2, <1>4 DEF FieldsUsed, FieldsNamed
<1>6. w = after /\ \A f \in DOMAIN d : w[f] \in Value
  <2>1. CASE s.type = "Update"
    <3>1. w = [d EXCEPT ![s.dst] = s.val]
      BY <2>1 DEF Written
    <3>2. \A f \in DOMAIN d : FieldAfter(s, row, f) = IF f = s.dst THEN s.val ELSE d[f]
      BY <2>1 DEF FieldAfter
    <3> HIDE DEF w
    <3> QED BY <1>1, <1>2, <3>1, <3>2
  <2>2. CASE s.type \in {"Add", "Sub"}
    <3> DEFINE e == ExactSum(s, row)
    <3>1. /\ e \in Int
          /\ s.type = "Add" => SumFrom(d, s.src, 1) = e
          /\ s.type = "Sub" => d[s.src[1]] - SumFrom(d, s.src, 2) = e
      <4>1. s.src \in Seq(Nat) /\ \A i \in DOMAIN s.src : s.src[i] \in DOMAIN d
        BY <1>1, <1>5, <2>2
      <4> QED BY <1>1, <2>2, <4>1, SumsOfRow
    <3>2. w = [d EXCEPT ![s.dst] = ToValue(e)]
      BY <2>2, <3>1 DEF Written, Added, Subtracted
    <3>3. \A f \in DOMAIN d : FieldAfter(s, row, f) =
              IF f = s.dst THEN CHOOSE v \in Value : (v - e) % (2 * Half) = 0 ELSE d[f]
      BY <2>2 DEF FieldAfter
    <3> HIDE DEF w, e
    <3>4. /\ ToValue(e) \in Value
          /\ ToValue(e) = CHOOSE v \in Value : (v - e) % (2 * Half) = 0
      BY <3>1, ToValueExact
    <3>5. \A f \in DOMAIN d : FieldAfter(s, row, f) = IF f = s.dst THEN ToValue(e) ELSE d[f]
      BY <3>3, <3>4
    <3> QED BY <1>2, <3>2, <3>4, <3>5
  <2>3. CASE s.type = "Swap"
    <3> DEFINE x == s.src[1]
    <3>1. w = IF x = s.dst THEN d ELSE [d EXCEPT ![s.dst] = d[x], ![x] = d[s.dst]]
      BY <2>3 DEF Written, Swapped
    <3>2. \A f \in DOMAIN d : FieldAfter(s, row, f) =
              IF f = s.dst THEN d[x] ELSE IF f = x THEN d[s.dst] ELSE d[f]
      BY <2>3 DEF FieldAfter
    <3>3. x # s.dst => x \in DOMAIN d /\ s.dst \in DOMAIN d
      BY <1>3, <1>5, <2>3
    <3> HIDE DEF w, x, d
    <3>4. CASE x = s.dst
      <4>1. w = d /\ \A f \in DOMAIN d : FieldAfter(s, row, f) = d[f]
        BY <3>1, <3>2, <3>4
      <4>2. d = [f \in DOMAIN d |-> d[f]]
        BY <1>1
      <4>3. w = after
        BY <4>1, <4>2
      <4> QED BY <1>2, <4>1, <4>3
    <3>5. CASE x # s.dst
      <4>1. DOMAIN w = DOMAIN d /\ w = [f \in DOMAIN w |-> w[f]]
        BY <3>1, <3>5
      <4>2. \A f \in DOMAIN d :
                w[f] = IF f = s.dst THEN d[x] ELSE IF f = x THEN d[s.dst] ELSE d[f]
        BY <3>1, <3>3, <3>5
      <4>3. \A f \in DOMAIN d : w[f] = FieldAfter(s, row, f)
        BY <3>2, <4>2
      <4>4. \A f \in DOMAIN d : w[f] \in Value
        BY <1>2, <3>3, <3>5, <4>2
      <4> QED BY <4>1, <4>3, <4>4
    <3> QED BY <3>4, <3>5
  <2> QED BY <2>1, <2>2, <2>3
<1>7. w \in Seq(Value)
  <2> HIDE DEF w
  <2>1. w \in [1 .. Len(d) -> Value]
    BY <1>2, <1>6
  <2> QED BY <1>2, <2>1
<1> HIDE DEF w
<1>8. [row EXCEPT !.datum = w] = Changed(s, row)
  BY <1>6 DEF Changed
<1> QED BY <1>7, <1>8 DEF w

-----------------------------------------------------------------------------
(* Types.                                                                  *)

\* The rows are visited for a statement that visits rows.
RowsPhase == phase = "rows" => stmt.type \in RowTypes

TableTInv == TableTypeOK /\ RowsPhase /\ TableInv

\* The statement is one that the client may send, or none yet.
LEMMA StatementTyped == Statements \subseteq Statement /\ NoStatement \in Statement
<1>1. 0 \in Value /\ 1 \in Nat \ {0}
  BY TableAssumption DEF Value
<1>2. <<>> \in Seq(Condition) /\ <<>> \in Seq(Value) /\ <<>> \in Seq(Nat \ {0})
  OBVIOUS
<1> QED BY <1>1, <1>2, TableAssumption DEF NoStatement, Statement

\* A vector of rows with the types of rows.
LEMMA RowsTyped ==
    ASSUME data \in Seq(Row)
    PROVE  /\ Len(data) \in Nat /\ DOMAIN data = 1 .. Len(data)
           /\ \A i \in DOMAIN data : data[i] \in Row
OBVIOUS

\* insertByIndex
LEMMA PushBackTyped ==
    ASSUME data \in Seq(Row), NEW k \in Keys, NEW datum \in Seq(Value), PushBack(k, datum)
    PROVE  data' \in Seq(Row)
<1>1. [key |-> k, datum |-> datum] \in Row
  BY DEF Row
<1> QED BY <1>1, AppendProperties DEF PushBack

\* deleteByIndex
LEMMA DeleteTyped ==
    ASSUME data \in Seq(Row), MapOK, Exact, NEW k \in Keys, deleteByIndex(k)
    PROVE  data' \in Seq(Row)
<1>1. CASE keyMap[k] = 0
  BY <1>1 DEF deleteByIndex
<1>2. CASE keyMap[k] # 0
  <2> DEFINE d == keyMap[k]
             e == [data EXCEPT ![d] = data[Len(data)]]
  <2>1. d \in DOMAIN data
    BY <1>2 DEF Exact
  <2>2. Len(data) \in DOMAIN data /\ Len(data) \in Nat
    BY <2>1, RowsTyped
  <2>3. e \in Seq(Row) /\ Len(e) = Len(data)
    <3>1. data[Len(data)] \in Row
      BY <2>2, RowsTyped
    <3> QED BY <2>1, <3>1
  <2>4. data' = PopBack(e)
    BY <1>2 DEF deleteByIndex
  <2> HIDE DEF e, d
  <2> DEFINE n == Len(e) - 1
  <2>5. n \in Nat /\ n <= Len(e)
    BY <2>2, <2>3, RowsTyped
  <2> HIDE DEF n
  <2>6. SubSeq(e, 1, n) \in Seq(Row)
    BY <2>3, <2>5
  <2> QED BY <2>4, <2>6 DEF PopBack, n
<1> QED BY <1>1, <1>2

\* A row is overwritten in place.
LEMMA ReplaceTyped ==
    ASSUME data \in Seq(Row), NEW i \in DOMAIN data, NEW r \in Row,
           data' = [data EXCEPT ![i] = r]
    PROVE  data' \in Seq(Row)
OBVIOUS

\* The vector stays one of rows.
LEMMA DataTyped ==
    ASSUME TableTInv, TableNext
    PROVE  data' \in Seq(Row)
<1>a. data \in Seq(Row) /\ TableInv /\ RowsPhase
  BY DEF TableTInv, TableTypeOK
<1>1. CASE data' = data
  BY <1>a, <1>1
<1>2. ASSUME NEW s \in Statements, Insert(s) PROVE data' \in Seq(Row)
  <2>1. CASE keyMap[s.key] = 0
    <3>1. s.key \in Keys /\ s.datum \in Seq(Value) /\ PushBack(s.key, s.datum)
      BY <1>2, <2>1, TableAssumption DEF Insert, Statement
    <3> QED BY <1>a, <3>1, PushBackTyped
  <2> QED BY <1>a, <1>2, <2>1 DEF Insert
<1>3. ASSUME NEW s \in Statements, Truncate(s) PROVE data' \in Seq(Row)
  BY <1>3 DEF Truncate
<1>4. CASE DeleteKey \/ DuplicateKey
  <2> DEFINE k == Head(todo)
  <2>1. phase = "keys" /\ todo # <<>> /\ todo \in Seq(Keys)
    BY <1>a, <1>4 DEF DeleteKey, DuplicateKey, TableInv, TodoOK
  <2>2. k \in Keys /\ MapOK /\ Exact
    BY <1>a, <2>1 DEF TableInv, MapOK, Exact, KeyMapExact
  <2>3. CASE DeleteKey
    BY <1>a, <2>2, <2>3, DeleteTyped DEF DeleteKey
  <2>4. CASE DuplicateKey /\ CanDuplicate(k, CopyKey[k])
    <3>1. CopyKey[k] \in Keys
      <4>1. 1 \in DOMAIN todo /\ k = todo[1]
        BY <2>1
      <4> QED BY <1>a, <2>4, <4>1 DEF TableInv, TodoOK, DuplicateKey
    <3>2. keyMap[k] \in DOMAIN data
      BY <2>2, <2>4 DEF CanDuplicate, Exact
    <3>3. data[keyMap[k]].datum \in Seq(Value)
      BY <1>a, <3>2, RowsTyped DEF Row
    <3>4. PushBack(CopyKey[k], data[keyMap[k]].datum)
      BY <2>4 DEF DuplicateKey, duplicateByKey
    <3> QED BY <1>a, <3>1, <3>3, <3>4, PushBackTyped
  <2>5. CASE DuplicateKey /\ ~CanDuplicate(k, CopyKey[k])
    BY <1>a, <2>5 DEF DuplicateKey, duplicateByKey
  <2> QED BY <1>4, <2>3, <2>4, <2>5
<1>5. CASE VisitRow
  <2>1. cursor \in DOMAIN data /\ data[cursor] \in Row
    <3>1. cursor \in Nat \ {0} /\ cursor <= Len(data)
      BY <1>a, <1>5 DEF VisitRow, TableInv
    <3> QED BY <1>a, <3>1, RowsTyped
  <2>2. CASE data' = data
    BY <1>a, <2>2
  <2>3. CASE /\ ~RowThrows(stmt, data[cursor]) /\ evalCondition(stmt.cond, data[cursor])
             /\ stmt.type # "UpdateKey"
             /\ data' = [data EXCEPT ![cursor].datum = Written(stmt, @)]
    <3>1. stmt \in Statements /\ stmt.type \in {"Update", "Add", "Sub", "Swap"}
      BY <1>a, <1>5, <2>3 DEF TableInv, RowsPhase, RowTypes, VisitRow, NoStatement
    <3>2. \A f \in FieldsUsed(stmt) : f <= Len(data[cursor].datum)
      <4>1. Len(data[cursor].datum) \in Nat
        BY <2>1 DEF Row
      <4>2. \A f \in FieldsUsed(stmt) : f \in Nat
        BY <3>1, TableAssumption DEF Statement, FieldsUsed, FieldsNamed
      <4> QED BY <2>3, <4>1, <4>2 DEF RowThrows
    <3> DEFINE w == Written(stmt, data[cursor].datum)
    <3>3. w \in Seq(Value)
      BY <2>1, <3>1, <3>2, WrittenIs
    <3>4. data' = [data EXCEPT ![cursor] = [data[cursor] EXCEPT !.datum = w]]
      BY <2>3
    <3> HIDE DEF w
    <3>5. [data[cursor] EXCEPT !.datum = w] \in Row
      BY <2>1, <3>3 DEF Row
    <3> QED BY <1>a, <2>1, <3>4, <3>5, ReplaceTyped
  <2>4. CASE setKey(cursor, stmt.key) /\ stmt.type = "UpdateKey"
    <3>1. stmt.key \in Keys
      BY <1>a, <2>4, TableAssumption DEF TableInv, NoStatement
    <3>2. [data[cursor] EXCEPT !.key = stmt.key] \in Row
      BY <2>1, <3>1 DEF Row
    <3>3. data' = [data EXCEPT ![cursor] = [data[cursor] EXCEPT !.key = stmt.key]]
      BY <2>4 DEF setKey
    <3> QED BY <1>a, <2>1, <3>2, <3>3, ReplaceTyped
  <2> QED BY <1>5, <2>2, <2>3, <2>4 DEF VisitRow
<1> QED
  BY <1>1, <1>2, <1>3, <1>4, <1>5
     DEF TableNext, StartStatement, Collect, StartRows, CollectRow, CollectDone,
         KeysDone, RowsDone, tvars

\* So does every step keep the types.
LEMMA TypeStep ==
    ASSUME TableTInv, TableNext
    PROVE  TableTInv'
<1>1. TableInv'
  BY TableStep DEF TableTInv
<1>2. data' \in Seq(Row)
  BY DataTyped
<1>3. stmt' \in Statement /\ keyMap' \in [Keys -> Nat] /\ cursor' \in Nat \ {0}
  BY <1>1, StatementTyped DEF TableInv
<1>4. todo' \in Seq(Keys)
  BY <1>1 DEF TableInv, TodoOK
<1>5. before' \in Seq(Row)
  <2>1. before' \in {before, data}
    BY DEF TableNext, StartStatement, Insert, Truncate, Collect, StartRows, Start,
           CollectRow, CollectDone, DeleteKey, DuplicateKey, KeysDone, VisitRow,
           RowsDone, NextRow, NextKey, tvars, queryVars
  <2> QED BY <2>1 DEF TableTInv, TableTypeOK
<1>6. phase' \in {"idle", "collect", "keys", "rows", "collided"}
  BY DEF TableTInv, TableTypeOK,
         TableNext, StartStatement, Insert, Truncate, Collect, StartRows, Start, End,
         Begin, CollectRow, CollectDone, DeleteKey, DuplicateKey, KeysDone, VisitRow,
         RowsDone, NextRow, NextKey, tvars, queryVars
<1>7. counter' \in Nat
  <2>1. counter \in Nat
    BY DEF TableTInv, TableTypeOK
  <2>2. counter' \in {counter, 0, 1, counter + 0, counter + 1}
    BY DEF TableNext, StartStatement, Insert, Truncate, Collect, StartRows, Start, End,
           Begin, CollectRow, CollectDone, DeleteKey, DuplicateKey, KeysDone, VisitRow,
           RowsDone, NextRow, NextKey, tvars, queryVars
  <2> QED BY <2>1, <2>2
<1>8. failed' \in BOOLEAN
  <2>1. failed \in BOOLEAN
    BY DEF TableTInv, TableTypeOK
  <2>2. failed' \in {failed, TRUE, FALSE}
    BY DEF TableNext, StartStatement, Insert, Truncate, Collect, StartRows, Start, End,
           Begin, CollectRow, CollectDone, DeleteKey, DuplicateKey, KeysDone, VisitRow,
           RowsDone, NextRow, NextKey, tvars, queryVars
  <2> QED BY <2>1, <2>2
<1>9. RowsPhase'
  BY DEF TableTInv, RowsPhase,
         TableNext, StartStatement, Insert, Truncate, Collect, StartRows, Start, End,
         Begin, CollectRow, CollectDone, DeleteKey, DuplicateKey, KeysDone, VisitRow,
         RowsDone, NextRow, NextKey, tvars, queryVars
<1> QED
  BY <1>1, <1>2, <1>3, <1>4, <1>5, <1>6, <1>7, <1>8, <1>9 DEF TableTInv, TableTypeOK

LEMMA TypeInit == TableInit => TableTInv
<1> SUFFICES ASSUME TableInit PROVE TableTInv
  OBVIOUS
<1>1. data \in Seq({}) /\ DOMAIN data = {} /\ data \in Seq(Row)
  BY DEF TableInit
<1>2. todo \in Seq(Keys) /\ DOMAIN todo = {}
  BY DEF TableInit
<1>3. TableInv
  BY <1>1, <1>2 DEF TableInit, TableInv, VectorOfRows, TodoOK, KeyMapExact
<1>4. before \in Seq(Row)
  BY DEF TableInit
<1>5. stmt \in Statement /\ stmt = NoStatement
  BY StatementTyped DEF TableInit
<1>6. TableTypeOK
  <2>1. keyMap \in [Keys -> Nat] /\ cursor \in Nat \ {0}
    BY <1>3 DEF TableInv
  <2>2. phase = "idle" /\ counter \in Nat /\ failed \in BOOLEAN
    BY DEF TableInit
  <2> QED BY <1>1, <1>2, <1>4, <1>5, <2>1, <2>2 DEF TableTypeOK
<1>7. RowsPhase
  BY DEF TableInit, RowsPhase
<1> QED BY <1>3, <1>6, <1>7 DEF TableTInv

-----------------------------------------------------------------------------
(* The lists of keys, and the rows a statement has come to.                *)

RowsIn(d) == {d[i] : i \in DOMAIN d}
OneRowPerKey(d) == \A i, j \in DOMAIN d : d[i].key = d[j].key => i = j
CopyOf(r) == [r EXCEPT !.key = CopyKey[@]]

\* The rows whose keys DELETE or DUPLICATE collects.
Treated(rows, s) == IF s.type = "Delete" THEN Wanted(rows, s) ELSE Copied(rows, s)

InList(t, k) == \E j \in DOMAIN t : t[j] = k
EachOnce(t) == \A i, j \in DOMAIN t : t[i] = t[j] => i = j
UpTo(T, c) == {i \in T : i < c}

\* A list of keys of rows that are to be treated.
Listed(rows, s, t) ==
    /\ rows \in Seq(Row) /\ t \in Seq(Keys) /\ OneRowPerKey(rows) /\ EachOnce(t)
    /\ s.type \in {"Delete", "Duplicate"} /\ ~Contradicts(s.cond)
    /\ \A j \in DOMAIN t : \E i \in Treated(rows, s) : t[j] = rows[i].key
    /\ s.type = "Duplicate" =>
          \A i \in Treated(rows, s) : CopyKey[rows[i].key] \in Keys

\* The rows before c are collected.
CollectedTo(rows, s, t, c) ==
    /\ Listed(rows, s, t)
    /\ c \in 1 .. (Len(rows) + 1)
    /\ \A i \in DOMAIN rows : InList(t, rows[i].key) <=> i \in UpTo(Treated(rows, s), c)
    /\ Len(t) = Cardinality(UpTo(Treated(rows, s), c))

\* The rows are treated, except those whose keys are still in the list.
TreatedBut(rows, s, t, d, n) ==
    /\ Listed(rows, s, t)
    /\ n + Len(t) = Cardinality(Treated(rows, s))
    /\ s.type = "Delete" =>
          RowsIn(d) = {rows[i] : i \in {j \in DOMAIN rows :
                                   j \in Treated(rows, s) => InList(t, rows[j].key)}}
    /\ s.type = "Duplicate" =>
          RowsIn(d) = RowsIn(rows) \cup
                      {CopyOf(rows[i]) : i \in {j \in Treated(rows, s) :
                                                   ~InList(t, rows[j].key)}}

\* The rows before c are visited, and none of them was too short.
VisitedTo(rows, s, d, c, n) ==
    /\ s.type \in RowTypes /\ ~Contradicts(s.cond)
    /\ c \in 1 .. (Len(rows) + 1) /\ DOMAIN d = DOMAIN rows
    /\ \A i \in DOMAIN rows : d[i] = IF i \in UpTo(Wanted(rows, s), c)
                                     THEN After(s, rows[i]) ELSE rows[i]
    /\ n = Cardinality(UpTo(Wanted(rows, s), c))
    /\ \A i \in DOMAIN rows : i < c => ~RowThrows(s, rows[i])

LEMMA InAppend ==
    ASSUME NEW t \in Seq(Keys), NEW k \in Keys
    PROVE  /\ Append(t, k) \in Seq(Keys) /\ Len(Append(t, k)) = Len(t) + 1
           /\ \A x : InList(Append(t, k), x) <=> InList(t, x) \/ x = k
           /\ EachOnce(t) /\ ~InList(t, k) => EachOnce(Append(t, k))
           /\ \A j \in DOMAIN Append(t, k) : Append(t, k)[j] = k \/ InList(t, Append(t, k)[j])
<1> DEFINE a == Append(t, k)
<1>1. /\ a \in Seq(Keys) /\ Len(a) = Len(t) + 1 /\ Len(t) \in Nat
      /\ \A j \in 1 .. Len(t) : a[j] = t[j]
      /\ a[Len(t) + 1] = k
  BY AppendProperties
<1> HIDE DEF a
<1>2. DOMAIN t = 1 .. Len(t) /\ DOMAIN a = 1 .. (Len(t) + 1)
  BY <1>1
<1>3. \A j \in DOMAIN a : (j \in DOMAIN t /\ a[j] = t[j]) \/ (a[j] = k /\ j = Len(t) + 1)
  BY <1>1, <1>2
<1>4. \A j \in DOMAIN t : j \in DOMAIN a /\ a[j] = t[j]
  BY <1>1, <1>2
<1>5. \A x : InList(a, x) <=> InList(t, x) \/ x = k
  <2>1. Len(t) + 1 \in DOMAIN a
    BY <1>1, <1>2
  <2> QED BY <1>1, <1>3, <1>4, <2>1 DEF InList
<1>6. EachOnce(t) /\ ~InList(t, k) => EachOnce(a)
  BY <1>3 DEF EachOnce, InList
<1>7. \A j \in DOMAIN a : a[j] = k \/ InList(t, a[j])
  BY <1>3 DEF InList
<1> QED BY <1>1, <1>5, <1>6, <1>7 DEF a

LEMMA InTail ==
    ASSUME NEW t \in Seq(Keys), t # <<>>, EachOnce(t)
    PROVE  /\ Tail(t) \in Seq(Keys) /\ Len(Tail(t)) \in Nat /\ Len(t) = Len(Tail(t)) + 1
           /\ Head(t) \in Keys /\ InList(t, Head(t))
           /\ EachOnce(Tail(t))
           /\ \A x : InList(Tail(t), x) <=> InList(t, x) /\ x # Head(t)
<1> DEFINE a == Tail(t)
           h == Head(t)
<1>1. /\ a \in Seq(Keys) /\ Len(a) = Len(t) - 1 /\ Len(t) \in Nat /\ Len(t) # 0
      /\ h = t[1] /\ h \in Keys
  BY EmptySeq
<1>2. \A j \in 1 .. Len(a) : a[j] = t[j + 1]
  OBVIOUS
<1> HIDE DEF a, h
<1>3. DOMAIN t = 1 .. Len(t) /\ DOMAIN a = 1 .. (Len(t) - 1) /\ 1 \in DOMAIN t
  BY <1>1
<1>4. \A j \in DOMAIN a : j + 1 \in DOMAIN t /\ a[j] = t[j + 1] /\ j + 1 # 1
  BY <1>1, <1>2, <1>3
<1>5. \A j \in DOMAIN t : j # 1 => j - 1 \in DOMAIN a /\ a[j - 1] = t[j]
  BY <1>1, <1>2, <1>3
<1>6. EachOnce(a)
  <2> SUFFICES ASSUME NEW i \in DOMAIN a, NEW j \in DOMAIN a, a[i] = a[j] PROVE i = j
    BY DEF EachOnce
  <2>1. i + 1 = j + 1
    BY <1>4 DEF EachOnce
  <2> QED BY <1>3, <2>1
<1>7. ASSUME NEW x PROVE InList(a, x) <=> InList(t, x) /\ x # h
  <2>1. ASSUME NEW j \in DOMAIN a, a[j] = x PROVE InList(t, x) /\ x # h
    BY <1>1, <1>3, <1>4, <2>1 DEF InList, EachOnce
  <2>2. ASSUME NEW j \in DOMAIN t, t[j] = x, x # h PROVE InList(a, x)
    <3>1. j # 1
      BY <1>1, <2>2
    <3> QED BY <1>5, <2>2, <3>1 DEF InList
  <2> QED BY <2>1, <2>2 DEF InList
<1>8. InList(t, h)
  BY <1>1, <1>3 DEF InList
<1> QED BY <1>1, <1>6, <1>7, <1>8 DEF a, h

\* The members of T before c, and how many they are.
LEMMA UpToFirst ==
    ASSUME NEW n \in Nat, NEW T \in SUBSET (1 .. n)
    PROVE  UpTo(T, 1) = {} /\ Cardinality(UpTo(T, 1)) = 0 /\ UpTo(T, n + 1) = T
<1>1. \A i \in T : ~(i < 1) /\ i < n + 1
  OBVIOUS
<1>2. UpTo(T, 1) = {} /\ UpTo(T, n + 1) = T
  BY <1>1, Zenon DEF UpTo
<1> QED BY <1>2, FS_EmptySet

LEMMA UpToNext ==
    ASSUME NEW n \in Nat, NEW T \in SUBSET (1 .. n), NEW c \in 1 .. n
    PROVE  /\ Cardinality(UpTo(T, c)) \in Nat
           /\ \A i \in T : i \in UpTo(T, c + 1) <=> i \in UpTo(T, c) \/ i = c
           /\ c \notin UpTo(T, c)
           /\ Cardinality(UpTo(T, c + 1)) =
                  Cardinality(UpTo(T, c)) + (IF c \in T THEN 1 ELSE 0)
<1> DEFINE U == UpTo(T, c)
           V == UpTo(T, c + 1)
<1>1. IsFiniteSet(U) /\ c \notin U
  <2>1. U \in SUBSET (1 .. n)
    BY Zenon DEF UpTo
  <2>2. IsFiniteSet(1 .. n)
    BY FS_Interval
  <2>3. IsFiniteSet(U)
    <3> HIDE DEF U
    <3> QED BY <2>1, <2>2, FS_Subset, Zenon
  <2> QED BY <2>3 DEF UpTo
<1>2. Cardinality(U) \in Nat
  BY <1>1, FS_CardinalityType
<1>3. V = IF c \in T THEN U \cup {c} ELSE U
  <2>1. \A i \in T : i < c + 1 <=> i < c \/ i = c
    OBVIOUS
  <2>2. \A i : i \in V <=> i \in U \/ (i = c /\ c \in T)
    BY <2>1, Zenon DEF UpTo
  <2> HIDE DEF U, V
  <2> QED BY <2>2
<1> HIDE DEF U, V
<1>4. Cardinality(U \cup {c}) = Cardinality(U) + 1
  BY <1>1, FS_AddElement
<1>5. Cardinality(V) = Cardinality(U) + (IF c \in T THEN 1 ELSE 0)
  BY <1>2, <1>3, <1>4
<1>6. \A i \in T : i \in V <=> i \in U \/ i = c
  BY <1>3
<1> QED BY <1>1, <1>2, <1>5, <1>6 DEF U, V

LEMMA TreatedRows ==
    ASSUME NEW rows \in Seq(Row), NEW s
    PROVE  /\ Len(rows) \in Nat /\ DOMAIN rows = 1 .. Len(rows)
           /\ \A i \in DOMAIN rows : rows[i] \in Row
           /\ Treated(rows, s) \in SUBSET (1 .. Len(rows))
           /\ Wanted(rows, s) \in SUBSET (1 .. Len(rows))
BY DEF Treated, Wanted, Copied

\* Nothing is collected at the start.
LEMMA CollectFirst ==
    ASSUME NEW rows \in Seq(Row), OneRowPerKey(rows), NEW s,
           s.type \in {"Delete", "Duplicate"}, ~Contradicts(s.cond),
           s.type = "Duplicate" =>
               \A i \in Treated(rows, s) : CopyKey[rows[i].key] \in Keys
    PROVE  CollectedTo(rows, s, <<>>, 1)
<1>1. Len(rows) \in Nat /\ Treated(rows, s) \in SUBSET (1 .. Len(rows))
  BY TreatedRows
<1>2. UpTo(Treated(rows, s), 1) = {} /\ Cardinality(UpTo(Treated(rows, s), 1)) = 0
  BY <1>1, UpToFirst
<1>3. <<>> \in Seq(Keys) /\ DOMAIN <<>> = {} /\ Len(<<>>) = 0
  OBVIOUS
<1>4. EachOnce(<<>>) /\ \A k : ~InList(<<>>, k)
  BY <1>3 DEF EachOnce, InList
<1>5. Listed(rows, s, <<>>)
  BY <1>3, <1>4 DEF Listed
<1> QED BY <1>1, <1>2, <1>3, <1>4, <1>5 DEF CollectedTo

\* The next row's key is collected if the row is to be treated.
LEMMA CollectNext ==
    ASSUME NEW rows, NEW s, NEW t, NEW c \in DOMAIN rows, CollectedTo(rows, s, t, c)
    PROVE  CollectedTo(rows, s, IF c \in Treated(rows, s) THEN Append(t, rows[c].key)
                                ELSE t, c + 1)
<1> DEFINE T == Treated(rows, s)
           k == rows[c].key
           a == IF c \in T THEN Append(t, k) ELSE t
<1>1. /\ Listed(rows, s, t) /\ rows \in Seq(Row) /\ t \in Seq(Keys)
      /\ OneRowPerKey(rows) /\ EachOnce(t)
      /\ \A i \in DOMAIN rows : InList(t, rows[i].key) <=> i \in UpTo(T, c)
      /\ Len(t) = Cardinality(UpTo(T, c))
  BY DEF CollectedTo, Listed
<1>2. /\ Len(rows) \in Nat /\ DOMAIN rows = 1 .. Len(rows)
      /\ T \in SUBSET (1 .. Len(rows)) /\ k \in Keys
  BY <1>1, TreatedRows DEF Row
<1> HIDE DEF T
<1>3. /\ Cardinality(UpTo(T, c)) \in Nat
      /\ \A i \in T : i \in UpTo(T, c + 1) <=> i \in UpTo(T, c) \/ i = c
      /\ c \notin UpTo(T, c)
      /\ Cardinality(UpTo(T, c + 1)) = Cardinality(UpTo(T, c)) + (IF c \in T THEN 1 ELSE 0)
  BY <1>2, UpToNext
<1>4. UpTo(T, c + 1) \subseteq T /\ UpTo(T, c) \subseteq T
  BY DEF UpTo
<1>5. ~InList(t, k)
  BY <1>1, <1>3
<1>6. c + 1 \in 1 .. (Len(rows) + 1)
  BY <1>2
<1>7. /\ Append(t, k) \in Seq(Keys) /\ Len(Append(t, k)) = Len(t) + 1
      /\ \A x : InList(Append(t, k), x) <=> InList(t, x) \/ x = k
      /\ EachOnce(t) /\ ~InList(t, k) => EachOnce(Append(t, k))
      /\ \A j \in DOMAIN Append(t, k) : Append(t, k)[j] = k \/ InList(t, Append(t, k)[j])
  BY <1>1, <1>2, InAppend
<1>8. CASE c \in T
  <2> DEFINE b == Append(t, k)
  <2>1. \A j \in DOMAIN b : \E i \in T : b[j] = rows[i].key
    <3>1. \A x : InList(t, x) => \E i \in T : x = rows[i].key
      BY <1>1 DEF Listed, InList, T
    <3> QED BY <1>7, <1>8, <3>1
  <2> HIDE DEF b, k
  <2>2. \A i \in DOMAIN rows : InList(b, rows[i].key) <=> i \in UpTo(T, c + 1)
    <3> SUFFICES ASSUME NEW i \in DOMAIN rows
                 PROVE  InList(b, rows[i].key) <=> i \in UpTo(T, c + 1)
      OBVIOUS
    <3>1. rows[i].key = k <=> i = c
      BY <1>1 DEF OneRowPerKey, k
    <3>2. InList(b, rows[i].key) <=> i \in UpTo(T, c) \/ i = c
      BY <1>1, <1>7, <3>1 DEF b
    <3> QED BY <1>3, <1>4, <1>8, <3>2
  <2>3. Len(b) = Cardinality(UpTo(T, c + 1)) /\ EachOnce(b) /\ b \in Seq(Keys)
    BY <1>1, <1>3, <1>5, <1>7, <1>8 DEF b
  <2>4. Listed(rows, s, b)
    BY <1>1, <2>1, <2>3 DEF Listed, T
  <2>5. CollectedTo(rows, s, b, c + 1)
    BY <1>6, <2>2, <2>3, <2>4 DEF CollectedTo, T
  <2> QED BY <1>8, <2>5 DEF b, k, T
<1>9. CASE c \notin T
  <2>1. \A i \in DOMAIN rows : InList(t, rows[i].key) <=> i \in UpTo(T, c + 1)
    BY <1>1, <1>3, <1>4, <1>9
  <2>2. Len(t) = Cardinality(UpTo(T, c + 1))
    BY <1>1, <1>3, <1>9
  <2>3. CollectedTo(rows, s, t, c + 1)
    BY <1>1, <1>6, <2>1, <2>2 DEF CollectedTo, T
  <2> QED BY <1>9, <2>3 DEF T
<1> QED BY <1>8, <1>9

\* The effect that StatementEffect asks for.
EffectOf(rows, s, d, n) ==
    /\ RowsIn(d) = Expected(rows, s)
    /\ s.type \in RowTypes \cup {"Delete"} => n = Cardinality(Wanted(rows, s))
    /\ s.type = "Duplicate" => n = Cardinality(Copied(rows, s))

\* All keys are collected, and none is treated.
LEMMA TreatFirst ==
    ASSUME NEW rows, NEW s, NEW t, NEW c, c > Len(rows), CollectedTo(rows, s, t, c)
    PROVE  TreatedBut(rows, s, t, rows, 0)
<1> DEFINE T == Treated(rows, s)
<1>1. /\ Listed(rows, s, t) /\ rows \in Seq(Row) /\ t \in Seq(Keys)
      /\ c \in 1 .. (Len(rows) + 1)
      /\ \A i \in DOMAIN rows : InList(t, rows[i].key) <=> i \in UpTo(T, c)
      /\ Len(t) = Cardinality(UpTo(T, c))
  BY DEF CollectedTo, Listed
<1>2. Len(rows) \in Nat /\ DOMAIN rows = 1 .. Len(rows) /\ T \in SUBSET (1 .. Len(rows))
  BY <1>1, TreatedRows
<1> HIDE DEF T
<1>3. UpTo(T, c) = T
  <2>1. c = Len(rows) + 1
    BY <1>1, <1>2
  <2> QED BY <1>2, <2>1, UpToFirst
<1>4. 0 + Len(t) = Cardinality(T)
  BY <1>1, <1>3
<1>5. \A i \in DOMAIN rows : i \in T => InList(t, rows[i].key)
  BY <1>1, <1>3
<1>6. RowsIn(rows) = {rows[i] : i \in {j \in DOMAIN rows :
                                   j \in T => InList(t, rows[j].key)}}
  BY <1>5 DEF RowsIn
<1>7. {CopyOf(rows[i]) : i \in {j \in T : ~InList(t, rows[j].key)}} = {}
  BY <1>2, <1>5
<1> QED BY <1>1, <1>4, <1>6, <1>7 DEF TreatedBut, T

\* The first key in the list is that of a row to treat.
LEMMA HeadRow ==
    ASSUME NEW rows, NEW s, NEW t, t # <<>>, Listed(rows, s, t)
    PROVE  \E i \in Treated(rows, s) : rows[i].key = Head(t) /\ InList(t, rows[i].key)
<1>1. InList(t, Head(t))
  BY InTail DEF Listed
<1> QED BY <1>1 DEF Listed, InList

\* The list without its first key is a list of keys of rows to treat.
LEMMA TailListed ==
    ASSUME NEW rows, NEW s, NEW t, t # <<>>, Listed(rows, s, t)
    PROVE  Listed(rows, s, Tail(t))
<1>1. /\ Tail(t) \in Seq(Keys) /\ EachOnce(Tail(t))
      /\ \A x : InList(Tail(t), x) <=> InList(t, x) /\ x # Head(t)
  BY InTail DEF Listed
<1> DEFINE a == Tail(t)
<1> HIDE DEF a
<1>2. \A j \in DOMAIN a : \E i \in Treated(rows, s) : a[j] = rows[i].key
  <2>1. \A x : InList(a, x) => InList(t, x)
    BY <1>1 DEF a
  <2> QED BY <2>1 DEF Listed, InList
<1> QED BY <1>1, <1>2 DEF Listed, a

\* DELETE treats the first key: its row is gone.
LEMMA DeleteNext ==
    ASSUME NEW rows, NEW s, NEW t, NEW d, NEW n \in Nat, TreatedBut(rows, s, t, d, n),
           s.type = "Delete", t # <<>>,
           NEW e, RowsIn(e) = {r \in RowsIn(d) : r.key # Head(t)}
    PROVE  TreatedBut(rows, s, Tail(t), e, n + 1)
<1> DEFINE T == Treated(rows, s)
           a == Tail(t)
<1>1. /\ Listed(rows, s, t) /\ rows \in Seq(Row) /\ t \in Seq(Keys) /\ EachOnce(t)
      /\ OneRowPerKey(rows)
      /\ n + Len(t) = Cardinality(T)
      /\ RowsIn(d) = {rows[i] : i \in {j \in DOMAIN rows :
                                   j \in T => InList(t, rows[j].key)}}
  BY DEF TreatedBut, Listed
<1>2. Listed(rows, s, a)
  BY <1>1, TailListed
<1>3. /\ Len(a) \in Nat /\ Len(t) = Len(a) + 1
      /\ \A x : InList(a, x) <=> InList(t, x) /\ x # Head(t)
  BY <1>1, InTail
<1>4. PICK i \in T : rows[i].key = Head(t)
  BY <1>1, HeadRow
<1>5. T \subseteq DOMAIN rows
  BY <1>1, TreatedRows
<1> HIDE DEF T, a
<1>6. n + 1 + Len(a) = Cardinality(T)
  BY <1>1, <1>3
<1>7. \A j \in DOMAIN rows : (j \in T => InList(a, rows[j].key)) <=>
                             (j \in T => InList(t, rows[j].key)) /\ rows[j].key # Head(t)
  <2> SUFFICES ASSUME NEW j \in DOMAIN rows
               PROVE  (j \in T => InList(a, rows[j].key)) <=>
                      (j \in T => InList(t, rows[j].key)) /\ rows[j].key # Head(t)
    OBVIOUS
  <2>1. rows[j].key = Head(t) => j = i
    BY <1>1, <1>4, <1>5 DEF OneRowPerKey
  <2> QED BY <1>3, <1>4, <2>1
<1>8. RowsIn(e) = {rows[j] : j \in {l \in DOMAIN rows :
                                l \in T => InList(a, rows[l].key)}}
  BY <1>1, <1>7
<1> QED BY <1>1, <1>2, <1>6, <1>8 DEF TreatedBut, T, a

\* DUPLICATE treats the first key: the copy of its row is there.
LEMMA DuplicateNext ==
    ASSUME NEW rows, NEW s, NEW t, NEW d, NEW n \in Nat, TreatedBut(rows, s, t, d, n),
           s.type = "Duplicate", t # <<>>,
           NEW i \in Treated(rows, s), rows[i].key = Head(t),
           NEW e, RowsIn(e) = RowsIn(d) \cup {CopyOf(rows[i])}
    PROVE  TreatedBut(rows, s, Tail(t), e, n + 1)
<1> DEFINE T == Treated(rows, s)
           a == Tail(t)
           Left(u) == {j \in T : ~InList(u, rows[j].key)}
<1>1. /\ Listed(rows, s, t) /\ rows \in Seq(Row) /\ t \in Seq(Keys) /\ EachOnce(t)
      /\ OneRowPerKey(rows)
      /\ n + Len(t) = Cardinality(T)
      /\ RowsIn(d) = RowsIn(rows) \cup {CopyOf(rows[j]) : j \in Left(t)}
  BY DEF TreatedBut, Listed
<1>2. Listed(rows, s, a)
  BY <1>1, TailListed
<1>3. /\ Len(a) \in Nat /\ Len(t) = Len(a) + 1
      /\ \A x : InList(a, x) <=> InList(t, x) /\ x # Head(t)
  BY <1>1, InTail
<1>4. T \subseteq DOMAIN rows
  BY <1>1, TreatedRows
<1>5. n + 1 + Len(a) = Cardinality(T)
  BY <1>1, <1>3
<1>6. Left(a) = Left(t) \cup {i}
  <2> HIDE DEF T, a
  <2>1. i \in T
    BY DEF T
  <2>2. ASSUME NEW j \in T PROVE rows[j].key = Head(t) <=> j = i
    BY <1>1, <1>4, <2>1 DEF OneRowPerKey
  <2> QED BY <1>3, <2>1, <2>2
<1> HIDE DEF T, a, Left
<1>7. RowsIn(e) = RowsIn(rows) \cup {CopyOf(rows[j]) : j \in Left(a)}
  BY <1>1, <1>6
<1> QED BY <1>1, <1>2, <1>5, <1>7 DEF TreatedBut, T, a, Left

\* When the list is empty the statement has had its effect.
LEMMA TreatDone ==
    ASSUME NEW rows, NEW s, NEW d, NEW n \in Nat, TreatedBut(rows, s, <<>>, d, n)
    PROVE  EffectOf(rows, s, d, n)
<1> DEFINE T == Treated(rows, s)
<1>1. \A k : ~InList(<<>>, k)
  BY DEF InList
<1>2. n = Cardinality(T)
  <2>1. n + Len(<<>>) = Cardinality(T)
    BY DEF TreatedBut
  <2> QED BY <2>1
<1>3. s.type \in {"Delete", "Duplicate"} /\ rows \in Seq(Row)
  BY DEF TreatedBut, Listed
<1>4. CASE s.type = "Delete"
  <2>1. T = Wanted(rows, s)
    BY <1>4 DEF Treated
  <2>2. RowsIn(d) = {rows[i] : i \in {j \in DOMAIN rows : j \notin Wanted(rows, s)}}
    BY <1>1, <1>4, <2>1 DEF TreatedBut
  <2>3. \A i, j \in DOMAIN rows :
           rows[i] = rows[j] => (i \in Wanted(rows, s) <=> j \in Wanted(rows, s))
    BY DEF Wanted
  <2>4. RowsIn(d) = RowsIn(rows) \ {rows[i] : i \in Wanted(rows, s)}
    <3>1. Wanted(rows, s) \subseteq DOMAIN rows
      BY DEF Wanted
    <3> QED BY <2>2, <2>3, <3>1 DEF RowsIn
  <2>5. Expected(rows, s) = RowsIn(rows) \ {rows[i] : i \in Wanted(rows, s)}
    BY <1>4 DEF Expected, RowsIn
  <2> QED BY <1>2, <1>4, <2>1, <2>4, <2>5 DEF EffectOf
<1>5. CASE s.type = "Duplicate"
  <2>1. T = Copied(rows, s)
    BY <1>5 DEF Treated
  <2>2. RowsIn(d) = RowsIn(rows) \cup {CopyOf(rows[i]) : i \in Copied(rows, s)}
    <3>1. {j \in T : ~InList(<<>>, rows[j].key)} = T
      BY <1>1
    <3>2. RowsIn(d) = RowsIn(rows) \cup {CopyOf(rows[i]) : i \in T}
      BY <1>5, <3>1 DEF TreatedBut
    <3> QED BY <2>1, <3>2
  <2>3. Expected(rows, s) = RowsIn(rows) \cup {CopyOf(rows[i]) : i \in Copied(rows, s)}
    BY <1>5 DEF Expected, RowsIn, CopyOf
  <2>4. s.type \notin RowTypes \cup {"Delete"}
    BY <1>5 DEF RowTypes
  <2> QED BY <1>2, <2>1, <2>2, <2>3, <2>4 DEF EffectOf
<1> QED BY <1>3, <1>4, <1>5

-----------------------------------------------------------------------------
(* Visits.                                                                 *)

\* No row is visited at the start.
LEMMA VisitFirst ==
    ASSUME NEW rows \in Seq(Row), NEW s, s.type \in RowTypes, ~Contradicts(s.cond)
    PROVE  VisitedTo(rows, s, rows, 1, 0)
<1>1. Len(rows) \in Nat /\ Wanted(rows, s) \in SUBSET (1 .. Len(rows))
  BY TreatedRows
<1>2. UpTo(Wanted(rows, s), 1) = {} /\ Cardinality(UpTo(Wanted(rows, s), 1)) = 0
  BY <1>1, UpToFirst
<1>3. \A i \in DOMAIN rows : ~(i < 1)
  BY <1>1, TreatedRows
<1> QED BY <1>1, <1>2, <1>3 DEF VisitedTo

\* A visit leaves the row, or makes of it what the statement says.
LEMMA VisitNext ==
    ASSUME NEW rows \in Seq(Row), NEW s, NEW d, NEW c \in DOMAIN rows, NEW n \in Nat,
           VisitedTo(rows, s, d, c, n), ~RowThrows(s, rows[c]),
           NEW e, NEW m,
           \/ /\ ~evalCondition(s.cond, rows[c]) /\ e = d /\ m = n + 0
           \/ /\ evalCondition(s.cond, rows[c]) /\ m = n + 1
              /\ DOMAIN e = DOMAIN d /\ e[c] = After(s, rows[c])
              /\ \A i \in DOMAIN d : i # c => e[i] = d[i]
    PROVE  VisitedTo(rows, s, e, c + 1, m)
<1> DEFINE W == Wanted(rows, s)
<1>1. Len(rows) \in Nat /\ W \in SUBSET (1 .. Len(rows)) /\ DOMAIN rows = 1 .. Len(rows)
  BY TreatedRows
<1>2. c \in W <=> evalCondition(s.cond, rows[c])
  BY DEF Wanted, VisitedTo
<1> HIDE DEF W
<1>3. /\ Cardinality(UpTo(W, c)) \in Nat
      /\ \A i \in W : i \in UpTo(W, c + 1) <=> i \in UpTo(W, c) \/ i = c
      /\ c \notin UpTo(W, c)
      /\ Cardinality(UpTo(W, c + 1)) = Cardinality(UpTo(W, c)) + (IF c \in W THEN 1 ELSE 0)
  BY <1>1, UpToNext
<1>4. UpTo(W, c + 1) \subseteq W /\ UpTo(W, c) \subseteq W
  BY DEF UpTo
<1>5. /\ s.type \in RowTypes /\ ~Contradicts(s.cond) /\ DOMAIN d = DOMAIN rows
      /\ \A i \in DOMAIN rows : d[i] = IF i \in UpTo(W, c) THEN After(s, rows[i]) ELSE rows[i]
      /\ n = Cardinality(UpTo(W, c))
  BY DEF VisitedTo, W
<1>6. c + 1 \in 1 .. (Len(rows) + 1)
  BY <1>1
<1>7. DOMAIN e = DOMAIN rows
  BY <1>5
<1>8. m = Cardinality(UpTo(W, c + 1))
  BY <1>2, <1>3, <1>5
<1>9. \A i \in DOMAIN rows :
         e[i] = IF i \in UpTo(W, c + 1) THEN After(s, rows[i]) ELSE rows[i]
  BY <1>2, <1>3, <1>4, <1>5
<1>10. \A i \in DOMAIN rows : i < c + 1 => ~RowThrows(s, rows[i])
  <2>1. \A i \in DOMAIN rows : i < c => ~RowThrows(s, rows[i])
    BY DEF VisitedTo
  <2>2. \A i \in DOMAIN rows : i < c + 1 => i < c \/ i = c
    BY <1>1
  <2> QED BY <2>1, <2>2, Zenon
<1> QED BY <1>5, <1>6, <1>7, <1>8, <1>9, <1>10 DEF VisitedTo, W

\* When all rows are visited the statement has had its effect.
LEMMA VisitDone ==
    ASSUME NEW rows \in Seq(Row), NEW s, NEW d, NEW c, NEW n, c > Len(rows),
           VisitedTo(rows, s, d, c, n)
    PROVE  EffectOf(rows, s, d, n)
<1> DEFINE W == Wanted(rows, s)
           old == {rows[i] : i \in W}
<1>1. Len(rows) \in Nat /\ W \in SUBSET (1 .. Len(rows)) /\ DOMAIN rows = 1 .. Len(rows)
  BY TreatedRows
<1>2. \A i, j \in DOMAIN rows : rows[i] = rows[j] => (i \in W <=> j \in W)
  BY DEF Wanted
<1> HIDE DEF W
<1>3. UpTo(W, c) = W
  <2>1. c = Len(rows) + 1
    BY <1>1 DEF VisitedTo
  <2> QED BY <1>1, <2>1, UpToFirst
<1>4. /\ s.type \in RowTypes /\ DOMAIN d = DOMAIN rows
      /\ \A i \in DOMAIN rows : d[i] = IF i \in W THEN After(s, rows[i]) ELSE rows[i]
      /\ n = Cardinality(W)
  BY <1>3 DEF VisitedTo, W
<1>5. RowsIn(d) = (RowsIn(rows) \ old) \cup {After(s, r) : r \in old}
  <2>1. ASSUME NEW i \in DOMAIN rows
        PROVE  d[i] \in (RowsIn(rows) \ old) \cup {After(s, r) : r \in old}
    <3>1. CASE i \in W
      BY <1>4, <3>1
    <3>2. CASE i \notin W
      <4>1. rows[i] \in RowsIn(rows) /\ rows[i] \notin old
        BY <1>1, <1>2, <3>2 DEF RowsIn
      <4> QED BY <1>4, <3>2, <4>1
    <3> QED BY <3>1, <3>2
  <2>2. ASSUME NEW r \in RowsIn(rows) \ old PROVE r \in RowsIn(d)
    <3>1. PICK i \in DOMAIN rows : r = rows[i]
      BY DEF RowsIn
    <3>2. i \notin W
      BY <2>2, <3>1
    <3> QED BY <1>4, <3>1, <3>2 DEF RowsIn
  <2>3. ASSUME NEW r \in old PROVE After(s, r) \in RowsIn(d)
    <3>1. PICK i \in W : r = rows[i]
      OBVIOUS
    <3> QED BY <1>1, <1>4, <3>1 DEF RowsIn
  <2> HIDE DEF old
  <2> QED BY <1>4, <2>1, <2>2, <2>3 DEF RowsIn
<1>6. Expected(rows, s) = (RowsIn(rows) \ old) \cup {After(s, r) : r \in old}
  <2>1. s.type \notin {"Insert", "Truncate", "Delete", "Duplicate"}
    BY <1>4 DEF RowTypes
  <2> QED BY <2>1 DEF Expected, RowsIn, After, W
<1>7. s.type # "Duplicate"
  BY <1>4 DEF RowTypes
<1> QED BY <1>4, <1>5, <1>6, <1>7 DEF EffectOf, W

-----------------------------------------------------------------------------
(* The effect of every statement.                                          *)

\* A statement on rows that fails has stopped where FailedUpdateStops says.
Stopped(rows, s, d) ==
    \/ RefusedAtOnce(s) /\ d = rows
    \/ \E c \in DOMAIN rows :
          /\ RowThrows(s, rows[c])
          /\ \A i \in DOMAIN rows : i < c => ~RowThrows(s, rows[i])
          /\ DOMAIN d = DOMAIN rows
          /\ \A i \in DOMAIN rows : d[i] = IF i < c /\ i \in Wanted(rows, s)
                                           THEN After(s, rows[i]) ELSE rows[i]

EffectInv ==
    /\ phase = "collect" => /\ data = before /\ counter = 0
                            /\ CollectedTo(before, stmt, todo, cursor)
    /\ phase = "keys" => TreatedBut(before, stmt, todo, data, counter)
    /\ phase = "rows" => VisitedTo(before, stmt, data, cursor, counter)
    /\ StatementEffect
    /\ FailureAtomic
    /\ FailedUpdateStops

\* The statement ends.
LEMMA EndEffect ==
    ASSUME phase' = "idle",
           ~failed' => EffectOf(before', stmt', data', counter'),
           failed' => data' = before' \/ stmt'.type \notin {"Insert", "Delete", "Duplicate"},
           failed' /\ stmt'.type \in RowTypes => Stopped(before', stmt', data')
    PROVE  EffectInv'
<1>1. StatementEffect'
  BY DEF StatementEffect, EffectOf, RowsIn
<1>2. FailureAtomic'
  BY DEF FailureAtomic
<1>3. FailedUpdateStops'
  BY Zenon DEF FailedUpdateStops, Stopped
<1> QED BY <1>1, <1>2, <1>3 DEF EffectInv

\* The statement goes on.
LEMMA GoesOn ==
    ASSUME phase' # "idle",
           phase' = "collect" => /\ data' = before' /\ counter' = 0
                                 /\ CollectedTo(before', stmt', todo', cursor'),
           phase' = "keys" => TreatedBut(before', stmt', todo', data', counter'),
           phase' = "rows" => VisitedTo(before', stmt', data', cursor', counter')
    PROVE  EffectInv'
BY DEF EffectInv, StatementEffect, FailureAtomic, FailedUpdateStops

\* The map is exact: there is one row per key.
LEMMA OneRow ==
    ASSUME MapOK, Exact
    PROVE  OneRowPerKey(data)
BY DEF MapOK, Exact, OneRowPerKey

\* A statement that finds no row.
LEMMA NoEffect ==
    ASSUME NEW rows, NEW s, Contradicts(s.cond),
           s.type \in RowTypes \cup {"Delete", "Duplicate"}
    PROVE  EffectOf(rows, s, rows, 0)
<1>1. Wanted(rows, s) = {} /\ Copied(rows, s) = {}
  BY DEF Wanted, Copied
<1>2. Cardinality({}) = 0
  BY FS_EmptySet
<1>3. Expected(rows, s) = RowsIn(rows)
  BY <1>1 DEF Expected, RowsIn, RowTypes
<1> QED BY <1>1, <1>2, <1>3 DEF EffectOf

LEMMA InsertEffect ==
    ASSUME TableTInv, NEW s \in Statements, Insert(s)
    PROVE  EffectInv'
<1>1. /\ phase' = "idle" /\ stmt' = s /\ before' = data /\ s.type = "Insert"
      /\ phase = "idle"
  BY DEF Insert, Start, End
<1>2. VectorOfRows
  BY DEF TableTInv, TableInv
<1>3. CASE keyMap[s.key] # 0
  BY <1>1, <1>3, EndEffect DEF Insert, End, RowTypes
<1>4. CASE keyMap[s.key] = 0
  <2> DEFINE r == [key |-> s.key, datum |-> s.datum]
  <2>1. data' = Append(data, r) /\ failed' = FALSE
    BY <1>4 DEF Insert, PushBack, End
  <2>2. IsRow(r)
    BY <1>1, TableAssumption DEF IsRow
  <2> HIDE DEF r
  <2>3. /\ Len(data') = Len(data) + 1 /\ VectorOfRows'
        /\ \A i \in DOMAIN data : data'[i] = data[i]
        /\ data'[Len(data) + 1] = r
    BY <1>2, <2>1, <2>2, AppendRow
  <2>4. DOMAIN data = 1 .. Len(data) /\ DOMAIN data' = 1 .. (Len(data) + 1) /\ Len(data) \in Nat
    <3>1. DOMAIN data' = 1 .. Len(data')
      BY <2>3 DEF VectorOfRows
    <3> QED BY <1>2, <2>3, <3>1, RowsLen
  <2> DEFINE new == data'
  <2>5. RowsIn(new) = RowsIn(data) \cup {r}
    BY <2>3, <2>4 DEF RowsIn
  <2>6. Expected(data, s) = RowsIn(data) \cup {r}
    BY <1>1 DEF Expected, RowsIn, r
  <2>7. EffectOf(data, s, new, counter')
    BY <1>1, <2>5, <2>6 DEF EffectOf, RowTypes
  <2> QED BY <1>1, <2>1, <2>7, EndEffect
<1> QED BY <1>3, <1>4

LEMMA TruncateEffect ==
    ASSUME TableTInv, NEW s \in Statements, Truncate(s)
    PROVE  EffectInv'
<1>1. /\ phase' = "idle" /\ stmt' = s /\ before' = data /\ s.type = "Truncate"
      /\ data' = <<>> /\ failed' = FALSE
  BY DEF Truncate, Start, End
<1>2. RowsIn(<<>>) = {}
  BY DEF RowsIn
<1>3. EffectOf(data, s, <<>>, counter')
  BY <1>1, <1>2 DEF EffectOf, Expected, RowTypes
<1> QED BY <1>1, <1>3, EndEffect

LEMMA CollectEffect ==
    ASSUME TableTInv, NEW s \in Statements, Collect(s)
    PROVE  EffectInv'
<1>1. /\ stmt' = s /\ before' = data /\ data' = data /\ phase = "idle"
      /\ s.type \in {"Delete", "Duplicate"}
  BY DEF Collect, Start
<1>2. CASE IllFormed(s.cond) /\ End(0, TRUE)
  BY <1>1, <1>2, EndEffect DEF End, RowTypes
<1>3. CASE Contradicts(s.cond) /\ End(0, FALSE)
  <2>1. EffectOf(data, s, data, 0)
    BY <1>1, <1>3, NoEffect
  <2> QED BY <1>1, <1>3, <2>1, EndEffect DEF End
<1>4. CASE ~Contradicts(s.cond) /\ Begin("collect")
  <2>1. data \in Seq(Row) /\ MapOK /\ Exact
    BY <1>1 DEF TableTInv, TableTypeOK, TableInv, MapOK, Exact, KeyMapExact
  <2>2. OneRowPerKey(data)
    BY <2>1, OneRow
  <2>3. s.type = "Duplicate" =>
            \A i \in Treated(data, s) : CopyKey[data[i].key] \in Keys
    <3> SUFFICES ASSUME s.type = "Duplicate", NEW i \in Treated(data, s)
                 PROVE  CopyKey[data[i].key] \in Keys
      OBVIOUS
    <3>1. i \in DOMAIN data /\ evalCondition(s.cond, data[i])
      BY DEF Treated, Copied, Wanted
    <3>2. CopyKey[data[i].key] # NoKey
      BY <3>1 DEF Collect, CopiesInBound
    <3>3. data[i].key \in Keys
      BY <2>1, <3>1, RowsTyped DEF Row
    <3> QED BY <3>2, <3>3, TableAssumption
  <2>4. CollectedTo(data, s, <<>>, 1)
    BY <1>1, <1>4, <2>1, <2>2, <2>3, CollectFirst
  <2> QED BY <1>1, <1>4, <2>4, GoesOn DEF Begin
<1> QED BY <1>2, <1>3, <1>4 DEF Collect

LEMMA StartRowsEffect ==
    ASSUME TableTInv, NEW s \in Statements, StartRows(s)
    PROVE  EffectInv'
<1>1. /\ stmt' = s /\ before' = data /\ data' = data /\ phase = "idle"
      /\ s.type \in RowTypes
  BY DEF StartRows, Start
<1>2. CASE RefusedAtOnce(s) /\ End(0, TRUE)
  <2>1. Stopped(data, s, data)
    BY <1>2 DEF Stopped
  <2> QED BY <1>1, <1>2, <2>1, EndEffect DEF End
<1>3. CASE Contradicts(s.cond) /\ End(0, FALSE)
  <2>1. EffectOf(data, s, data, 0)
    BY <1>1, <1>3, NoEffect
  <2> QED BY <1>1, <1>3, <2>1, EndEffect DEF End
<1>4. CASE ~Contradicts(s.cond) /\ Begin("rows")
  <2>1. data \in Seq(Row)
    BY DEF TableTInv, TableTypeOK
  <2>2. VisitedTo(data, s, data, 1, 0)
    BY <1>1, <1>4, <2>1, VisitFirst
  <2> QED BY <1>1, <1>4, <2>2, GoesOn DEF Begin
<1> QED BY <1>2, <1>3, <1>4 DEF StartRows

LEMMA CollectRowEffect ==
    ASSUME TableTInv, EffectInv, CollectRow
    PROVE  EffectInv'
<1>1. /\ phase = "collect" /\ data' = data /\ before' = before /\ stmt' = stmt
      /\ data = before /\ counter = 0 /\ CollectedTo(before, stmt, todo, cursor)
  BY DEF CollectRow, EffectInv, NextRow
<1>2. CASE End(0, TRUE)
  <2>1. stmt.type \in {"Delete", "Duplicate"}
    BY <1>1 DEF CollectedTo, Listed
  <2> QED BY <1>1, <1>2, <2>1, EndEffect DEF End, RowTypes
<1>3. CASE /\ todo' = IF Wants(data[cursor]) THEN Append(todo, data[cursor].key) ELSE todo
           /\ NextRow(0)
  <2>1. MapOK /\ Exact /\ data \in Seq(Row)
    BY <1>1 DEF TableTInv, TableTypeOK, TableInv, MapOK, Exact, KeyMapExact
  <2>2. cursor \in DOMAIN data /\ DOMAIN data = 1 .. Len(data)
    BY <2>1, RowsTyped DEF TableTInv, TableTypeOK, CollectRow
  <2>3. ~Contradicts(stmt.cond) /\ stmt.type \in {"Delete", "Duplicate"}
    BY <1>1 DEF CollectedTo, Listed
  <2>4. Wants(data[cursor]) <=> cursor \in Treated(data, stmt)
    <3>1. cursor \in Wanted(data, stmt) <=> evalCondition(stmt.cond, data[cursor])
      BY <2>2, <2>3 DEF Wanted
    <3>2. CASE stmt.type = "Delete"
      BY <3>1, <3>2 DEF Wants, Treated
    <3>3. CASE stmt.type = "Duplicate"
      <4> DEFINE k == CopyKey[data[cursor].key]
      <4>1. ASSUME evalCondition(stmt.cond, data[cursor])
            PROVE  keyMap[k] = 0 <=> \A j \in DOMAIN data : data[j].key # k
        <5>1. k \in Keys
          BY <1>1, <2>2, <3>3, <4>1 DEF TableTInv, TableInv, TodoOK
        <5> HIDE DEF k
        <5>2. keyMap[k] # 0 => \E j \in DOMAIN data : data[j].key = k
          BY <2>1, <5>1 DEF Exact
        <5>3. \A j \in DOMAIN data : data[j].key = k => keyMap[k] = j /\ j # 0
          BY <2>1, <2>2 DEF Exact
        <5> QED BY <5>2, <5>3
      <4>2. cursor \in Copied(data, stmt) <=>
                /\ cursor \in Wanted(data, stmt)
                /\ \A j \in DOMAIN data : data[j].key # k
        BY DEF Copied
      <4>3. Wants(data[cursor]) <=> evalCondition(stmt.cond, data[cursor]) /\ keyMap[k] = 0
        BY <3>3 DEF Wants
      <4> HIDE DEF k
      <4> QED BY <3>1, <3>3, <4>1, <4>2, <4>3 DEF Treated
    <3> QED BY <2>3, <3>2, <3>3
  <2> DEFINE a == IF cursor \in Treated(data, stmt) THEN Append(todo, data[cursor].key)
                  ELSE todo
  <2>5. todo' = a /\ cursor' = cursor + 1 /\ counter' = counter + 0 /\ phase' = phase
    BY <1>3, <2>4 DEF NextRow
  <2>6. CollectedTo(data, stmt, a, cursor + 1)
    BY <1>1, <2>2, CollectNext
  <2> HIDE DEF a
  <2> QED BY <1>1, <2>5, <2>6, GoesOn
<1> QED BY <1>2, <1>3 DEF CollectRow

LEMMA CollectDoneEffect ==
    ASSUME TableTInv, EffectInv, CollectDone
    PROVE  EffectInv'
<1>1. /\ data = before /\ counter = 0 /\ CollectedTo(before, stmt, todo, cursor)
      /\ cursor > Len(before)
  BY DEF CollectDone, EffectInv
<1>2. TreatedBut(before, stmt, todo, before, 0)
  BY <1>1, TreatFirst
<1> QED BY <1>1, <1>2, GoesOn DEF CollectDone

\* A row is in the vector if and only if the map leads from its key to it.
LEMMA RowOfKey ==
    ASSUME MapOK, Exact, NEW r \in RowsIn(data)
    PROVE  /\ r.key \in Keys /\ keyMap[r.key] # 0 /\ keyMap[r.key] \in DOMAIN data
           /\ data[keyMap[r.key]] = r
<1>1. PICK i \in DOMAIN data : r = data[i]
  BY DEF RowsIn
<1>2. keyMap[r.key] = i /\ i # 0 /\ r.key \in Keys
  BY <1>1, RowsLen DEF MapOK, Exact, VectorOfRows, IsRow
<1> QED BY <1>1, <1>2

\* deleteByIndex takes the row out of the vector, and no other.
LEMMA DeleteRows ==
    ASSUME MapOK, Exact, NEW k \in Keys, keyMap[k] # 0, deleteByIndex(k),
           NEW e, e = data'
    PROVE  RowsIn(e) = {r \in RowsIn(data) : r.key # k}
<1> DEFINE d == keyMap[k]
           n == Len(data)
<1>1. d \in DOMAIN data /\ data[d].key = k /\ n \in Nat /\ DOMAIN data = 1 .. n
  BY RowsLen DEF MapOK, Exact
<1>2. data' = PopBack([data EXCEPT ![d] = data[n]])
  BY DEF deleteByIndex
<1>3. /\ VectorOfRows' /\ Len(data') = n - 1
      /\ \A j \in DOMAIN data' : data'[j] = IF j = d THEN data[n] ELSE data[j]
  BY <1>1, <1>2, SwapAndPop DEF MapOK
<1>4. DOMAIN data' = 1 .. Len(data')
  BY <1>3 DEF VectorOfRows
<1>5. /\ DOMAIN e = 1 .. (n - 1)
      /\ \A j \in DOMAIN e : e[j] = IF j = d THEN data[n] ELSE data[j]
  BY <1>3, <1>4
<1>6. \A i \in DOMAIN data : data[i].key = k <=> i = d
  BY <1>1 DEF Exact
<1> HIDE DEF d, n
<1>7. ASSUME NEW j \in DOMAIN e PROVE e[j] \in {r \in RowsIn(data) : r.key # k}
  <2> DEFINE i == IF j = d THEN n ELSE j
  <2>1. i \in DOMAIN data /\ i # d /\ e[j] = data[i]
    BY <1>1, <1>5, <1>7
  <2> QED BY <1>6, <2>1 DEF RowsIn
<1>8. ASSUME NEW r \in RowsIn(data), r.key # k PROVE \E j \in DOMAIN e : e[j] = r
  <2>1. PICK i \in DOMAIN data : r = data[i]
    BY DEF RowsIn
  <2>2. i # d
    BY <1>6, <1>8, <2>1
  <2>3. CASE i = n
    <3>1. d \in DOMAIN e
      BY <1>1, <1>5, <2>2, <2>3
    <3> QED BY <1>5, <2>1, <2>3, <3>1
  <2>4. CASE i # n
    <3>1. i \in DOMAIN e
      BY <1>1, <1>5, <2>4
    <3> QED BY <1>5, <2>1, <2>2, <3>1
  <2> QED BY <2>3, <2>4
<1> QED BY <1>7, <1>8 DEF RowsIn

\* The facts on the first key in the list.
LEMMA KeysPhase ==
    ASSUME TableTInv, EffectInv, phase = "keys"
    PROVE  /\ MapOK /\ Exact /\ counter \in Nat /\ data \in Seq(Row)
           /\ before \in Seq(Row) /\ Listed(before, stmt, todo)
           /\ TreatedBut(before, stmt, todo, data, counter)
           /\ todo # <<>> => Head(todo) \in Keys
<1>1. /\ MapOK /\ Exact /\ counter \in Nat /\ data \in Seq(Row) /\ before \in Seq(Row)
      /\ todo \in Seq(Keys)
  BY DEF TableTInv, TableTypeOK, TableInv, MapOK, Exact, KeyMapExact
<1>2. TreatedBut(before, stmt, todo, data, counter)
  BY DEF EffectInv
<1>3. Listed(before, stmt, todo)
  BY <1>2 DEF TreatedBut
<1>4. todo # <<>> => Head(todo) \in Keys
  BY <1>3, InTail DEF Listed
<1> QED BY <1>1, <1>2, <1>3, <1>4

LEMMA DeleteKeyEffect ==
    ASSUME TableTInv, EffectInv, DeleteKey
    PROVE  EffectInv'
<1> DEFINE k == Head(todo)
           e == data'
<1>1. /\ phase = "keys" /\ phase' = phase /\ before' = before /\ stmt' = stmt
      /\ stmt.type = "Delete" /\ todo # <<>> /\ todo' = Tail(todo) /\ deleteByIndex(k)
      /\ counter' = counter + (IF keyMap[k] # 0 THEN 1 ELSE 0)
  BY DEF DeleteKey, NextKey
<1>2. /\ MapOK /\ Exact /\ counter \in Nat /\ before \in Seq(Row) /\ k \in Keys
      /\ TreatedBut(before, stmt, todo, data, counter) /\ Listed(before, stmt, todo)
  BY <1>1, KeysPhase
<1>3. PICK i \in Treated(before, stmt) : before[i].key = k /\ InList(todo, before[i].key)
  BY <1>1, <1>2, HeadRow
<1>4. before[i] \in RowsIn(data)
  <2>1. i \in DOMAIN before
    BY <1>2, TreatedRows
  <2> QED BY <1>1, <1>2, <1>3, <2>1 DEF TreatedBut
<1>5. keyMap[k] # 0
  BY <1>2, <1>3, <1>4, RowOfKey
<1>6. RowsIn(e) = {r \in RowsIn(data) : r.key # k}
  BY <1>1, <1>2, <1>5, DeleteRows
<1> HIDE DEF k, e
<1>7. counter' = counter + 1
  BY <1>1, <1>5
<1>8. TreatedBut(before, stmt, Tail(todo), e, counter + 1)
  BY <1>1, <1>2, <1>6, DeleteNext DEF k
<1> QED BY <1>1, <1>7, <1>8, GoesOn DEF e

LEMMA DuplicateKeyEffect ==
    ASSUME TableTInv, EffectInv, DuplicateKey
    PROVE  EffectInv'
<1> DEFINE k == Head(todo)
           q == CopyKey[k]
           e == data'
           new == [key |-> q, datum |-> data[keyMap[k]].datum]
<1>1. /\ phase = "keys" /\ phase' = phase /\ before' = before /\ stmt' = stmt
      /\ stmt.type = "Duplicate" /\ todo # <<>> /\ todo' = Tail(todo)
      /\ duplicateByKey(k, q)
      /\ counter' = counter + (IF CanDuplicate(k, q) THEN 1 ELSE 0)
  BY DEF DuplicateKey, NextKey
<1>2. /\ MapOK /\ Exact /\ counter \in Nat /\ before \in Seq(Row) /\ k \in Keys
      /\ TreatedBut(before, stmt, todo, data, counter) /\ Listed(before, stmt, todo)
  BY <1>1, KeysPhase
<1>3. PICK i \in Treated(before, stmt) : before[i].key = k /\ InList(todo, before[i].key)
  BY <1>1, <1>2, HeadRow
<1>4. i \in DOMAIN before /\ Treated(before, stmt) \subseteq DOMAIN before
  BY <1>2, TreatedRows
<1>5. RowsIn(data) = RowsIn(before) \cup
                     {CopyOf(before[j]) : j \in {l \in Treated(before, stmt) :
                                                    ~InList(todo, before[l].key)}}
  BY <1>1, <1>2 DEF TreatedBut
<1>6. before[i] \in RowsIn(data)
  BY <1>4, <1>5 DEF RowsIn
<1>7. keyMap[k] # 0 /\ keyMap[k] \in DOMAIN data /\ data[keyMap[k]] = before[i]
  BY <1>2, <1>3, <1>6, RowOfKey
<1>8. \A j \in DOMAIN before : before[j] \in Row
  BY <1>2, TreatedRows
<1>9. q \in Keys
  BY <1>1, <1>2, <1>3 DEF Listed
<1>10. keyMap[q] = 0
  <2> SUFFICES ASSUME keyMap[q] # 0 PROVE FALSE
    OBVIOUS
  <2> DEFINE r == data[keyMap[q]]
  <2>1. r \in RowsIn(data) /\ r.key = q
    BY <1>2, <1>9 DEF Exact, RowsIn
  <2> HIDE DEF r
  <2>2. r \notin RowsIn(before)
    BY <1>1, <1>3, <2>1 DEF Treated, Copied, RowsIn
  <2>3. PICK j \in Treated(before, stmt) : /\ ~InList(todo, before[j].key)
                                          /\ r = CopyOf(before[j])
    BY <1>5, <2>1, <2>2
  <2>4. before[j].key \in Keys /\ r.key = CopyKey[before[j].key]
    BY <1>4, <1>8, <2>3 DEF CopyOf, Row
  <2>5. q # NoKey
    BY <1>9, TableAssumption
  <2>6. before[j].key = k
    BY <1>2, <2>1, <2>4, <2>5, TableAssumption
  <2> QED BY <1>3, <2>3, <2>6
<1>11. CanDuplicate(k, q)
  BY <1>7, <1>10 DEF CanDuplicate
<1>12. data' = Append(data, new) /\ counter' = counter + 1
  BY <1>1, <1>11 DEF duplicateByKey, PushBack
<1>13. new = CopyOf(before[i])
  <2>1. before[i] \in Row
    BY <1>4, <1>8
  <2> QED BY <1>3, <1>7, <2>1 DEF CopyOf, Row
<1>14. IsRow(new) /\ VectorOfRows
  BY <1>2, <1>9 DEF IsRow, MapOK
<1> HIDE DEF new, k, q
<1>15. /\ VectorOfRows' /\ Len(data') = Len(data) + 1
       /\ \A j \in DOMAIN data : data'[j] = data[j]
       /\ data'[Len(data) + 1] = new
  BY <1>12, <1>14, AppendRow
<1>16. /\ Len(data) \in Nat /\ DOMAIN data = 1 .. Len(data)
       /\ DOMAIN data' = 1 .. (Len(data) + 1)
  <2>1. DOMAIN data' = 1 .. Len(data')
    BY <1>15 DEF VectorOfRows
  <2> QED BY <1>14, <1>15, <2>1, RowsLen
<1>17. RowsIn(e) = RowsIn(data) \cup {new}
  BY <1>15, <1>16 DEF RowsIn
<1> HIDE DEF e
<1>18. TreatedBut(before, stmt, Tail(todo), e, counter + 1)
  BY <1>1, <1>2, <1>3, <1>13, <1>17, DuplicateNext DEF k
<1> QED BY <1>1, <1>12, <1>18, GoesOn DEF e

LEMMA KeysDoneEffect ==
    ASSUME TableTInv, EffectInv, KeysDone
    PROVE  EffectInv'
<1>1. /\ phase = "keys" /\ todo = <<>> /\ End(counter, FALSE)
      /\ data' = data /\ stmt' = stmt /\ before' = before
  BY DEF KeysDone
<1>2. EffectOf(before, stmt, data, counter)
  BY <1>1, KeysPhase, TreatDone
<1> QED BY <1>1, <1>2, EndEffect DEF End

LEMMA VisitRowEffect ==
    ASSUME TableTInv, EffectInv, VisitRow
    PROVE  EffectInv'
<1> DEFINE old == data[cursor]
           e == data'
<1>1. /\ phase = "rows" /\ before' = before /\ stmt' = stmt /\ cursor <= Len(data)
      /\ VisitedTo(before, stmt, data, cursor, counter)
  BY DEF VisitRow, EffectInv, NextRow
<1>2. /\ data \in Seq(Row) /\ before \in Seq(Row) /\ counter \in Nat
      /\ cursor \in Nat \ {0} /\ stmt \in Statements \cup {NoStatement}
  BY DEF TableTInv, TableTypeOK, TableInv
<1>3. /\ cursor \in DOMAIN data /\ DOMAIN data = DOMAIN before
      /\ stmt.type \in RowTypes
  BY <1>1, <1>2, RowsTyped DEF VisitedTo
<1>4. old = before[cursor] /\ old \in Row
  <2>1. cursor \notin UpTo(Wanted(before, stmt), cursor)
    BY <1>2 DEF UpTo
  <2> QED BY <1>1, <1>2, <1>3, <2>1, RowsTyped DEF VisitedTo
<1>5. stmt \in Statements
  BY <1>2, <1>3 DEF NoStatement, RowTypes
<1>6. CASE RowThrows(stmt, old) /\ End(counter, TRUE) /\ data' = data
  <2>1. Stopped(before, stmt, data)
    <3>1. /\ cursor \in DOMAIN before /\ RowThrows(stmt, before[cursor])
          /\ \A i \in DOMAIN before : i < cursor => ~RowThrows(stmt, before[i])
      BY <1>1, <1>3, <1>4, <1>6 DEF VisitedTo
    <3>2. \A i \in DOMAIN before :
            data[i] = IF i < cursor /\ i \in Wanted(before, stmt)
                      THEN After(stmt, before[i]) ELSE before[i]
      BY <1>1 DEF VisitedTo, UpTo
    <3> QED BY <1>3, <3>1, <3>2 DEF Stopped
  <2> QED BY <1>1, <1>3, <1>6, <2>1, EndEffect DEF End, RowTypes
<1>7. CASE /\ ~evalCondition(stmt.cond, old) /\ ~RowThrows(stmt, old)
           /\ NextRow(0) /\ data' = data
  <2>1. VisitedTo(before, stmt, data, cursor + 1, counter + 0)
    BY <1>1, <1>2, <1>3, <1>4, <1>7, VisitNext
  <2>2. cursor' = cursor + 1 /\ counter' = counter + 0 /\ phase' = phase
    BY <1>7 DEF NextRow
  <2> QED BY <1>1, <1>7, <2>1, <2>2, GoesOn
<1>8. CASE /\ evalCondition(stmt.cond, old) /\ ~RowThrows(stmt, old)
           /\ stmt.type # "UpdateKey"
           /\ data' = [data EXCEPT ![cursor].datum = Written(stmt, @)]
           /\ NextRow(1)
  <2> DEFINE r == [old EXCEPT !.datum = Written(stmt, @)]
  <2>1. stmt.type \in {"Update", "Add", "Sub", "Swap"}
    BY <1>3, <1>8 DEF RowTypes
  <2>2. \A f \in FieldsUsed(stmt) : f <= Len(old.datum)
    <3>1. Len(old.datum) \in Nat
      BY <1>4 DEF Row
    <3>2. \A f \in FieldsUsed(stmt) : f \in Nat
      BY <1>5, <2>1, TableAssumption DEF Statement, FieldsUsed, FieldsNamed
    <3> QED BY <1>8, <3>1, <3>2 DEF RowThrows
  <2>3. r = Changed(stmt, old)
    BY <1>4, <1>5, <2>1, <2>2, WrittenIs
  <2>4. r = After(stmt, before[cursor])
    BY <1>4, <1>8, <2>3 DEF After
  <2>5. data' = [data EXCEPT ![cursor] = r]
    BY <1>8
  <2> HIDE DEF r
  <2>6. /\ DOMAIN e = DOMAIN data /\ e[cursor] = After(stmt, before[cursor])
        /\ \A i \in DOMAIN data : i # cursor => e[i] = data[i]
    BY <1>3, <2>4, <2>5
  <2> HIDE DEF e
  <2>7. VisitedTo(before, stmt, e, cursor + 1, counter + 1)
    BY <1>1, <1>2, <1>3, <1>4, <1>8, <2>6, VisitNext
  <2>8. cursor' = cursor + 1 /\ counter' = counter + 1 /\ phase' = phase
    BY <1>8 DEF NextRow
  <2> QED BY <1>1, <2>7, <2>8, GoesOn DEF e
<1>9. CASE /\ evalCondition(stmt.cond, old) /\ ~RowThrows(stmt, old)
           /\ stmt.type = "UpdateKey"
           /\ setKey(cursor, stmt.key)
           /\ cursor' = cursor + 1 /\ counter' = counter + 1
           /\ phase' = IF Collides(cursor, stmt.key) THEN "collided" ELSE phase
  <2> DEFINE r == [old EXCEPT !.key = stmt.key]
  <2>1. data' = [data EXCEPT ![cursor] = r]
    BY <1>9 DEF setKey
  <2>2. r = After(stmt, before[cursor])
    BY <1>4, <1>9 DEF After
  <2> HIDE DEF r
  <2>3. /\ DOMAIN e = DOMAIN data /\ e[cursor] = After(stmt, before[cursor])
        /\ \A i \in DOMAIN data : i # cursor => e[i] = data[i]
    BY <1>3, <2>1, <2>2
  <2> HIDE DEF e
  <2>4. VisitedTo(before, stmt, e, cursor + 1, counter + 1)
    BY <1>1, <1>2, <1>3, <1>4, <1>9, <2>3, VisitNext
  <2> QED BY <1>1, <1>9, <2>4, GoesOn DEF e
<1> QED BY <1>6, <1>7, <1>8, <1>9 DEF VisitRow

LEMMA RowsDoneEffect ==
    ASSUME TableTInv, EffectInv, RowsDone
    PROVE  EffectInv'
<1>1. /\ phase = "rows" /\ cursor > Len(data) /\ End(counter, FALSE)
      /\ data' = data /\ stmt' = stmt /\ before' = before
      /\ VisitedTo(before, stmt, data, cursor, counter)
  BY DEF RowsDone, EffectInv
<1>2. data \in Seq(Row) /\ before \in Seq(Row)
  BY DEF TableTInv, TableTypeOK
<1>3. Len(data) = Len(before)
  <2>1. 1 .. Len(data) = 1 .. Len(before) /\ Len(data) \in Nat /\ Len(before) \in Nat
    BY <1>1, <1>2, TreatedRows DEF VisitedTo
  <2> QED BY <2>1
<1>4. EffectOf(before, stmt, data, counter)
  BY <1>1, <1>2, <1>3, VisitDone
<1> QED BY <1>1, <1>4, EndEffect DEF End

LEMMA EffectStep ==
    ASSUME TableTInv, EffectInv, [TableNext]_tvars
    PROVE  EffectInv'
<1>1. CASE UNCHANGED tvars
  BY <1>1 DEF tvars, queryVars, EffectInv, StatementEffect, FailureAtomic, FailedUpdateStops
<1> QED
  BY <1>1, InsertEffect, TruncateEffect, CollectEffect, StartRowsEffect,
     CollectRowEffect, CollectDoneEffect, DeleteKeyEffect, DuplicateKeyEffect,
     KeysDoneEffect, VisitRowEffect, RowsDoneEffect DEF TableNext, StartStatement

\* The two invariants together are inductive.
LEMMA TableKeepsInvariants == TableSpec => [](TableTInv /\ EffectInv)
<1>1. TableInit => TableTInv /\ EffectInv
  <2>1. TableInit => EffectInv
    BY DEF TableInit, EffectInv, StatementEffect, FailureAtomic, FailedUpdateStops, NoStatement
  <2> QED BY <2>1, TypeInit
<1>2. TableTInv /\ [TableNext]_tvars => TableTInv'
  <2>1. TableTInv /\ UNCHANGED tvars => TableTInv'
    BY TableStep DEF TableTInv, TableTypeOK, RowsPhase, tvars, queryVars
  <2> QED BY <2>1, TypeStep
<1>3. TableTInv /\ EffectInv /\ [TableNext]_tvars => EffectInv'
  BY EffectStep
<1> QED BY <1>1, <1>2, <1>3, PTL DEF TableSpec

\* A statement that succeeds has done what it says to all the rows it is about and to
\* no other, for tables of every size and values of every width.
THEOREM StatementsHaveTheirEffect == TableSpec => []StatementEffect
<1>1. EffectInv => StatementEffect
  BY DEF EffectInv
<1> QED BY <1>1, TableKeepsInvariants, PTL

\* INSERT, DELETE and DUPLICATE that fail leave the table as it was.
THEOREM FailuresAreAtomic == TableSpec => []FailureAtomic
<1>1. EffectInv => FailureAtomic
  BY DEF EffectInv
<1> QED BY <1>1, TableKeepsInvariants, PTL

\* An UPDATE, ADD, SUB or SWAP that fails has changed the rows in front of the first
\* row that is too short, in full, and no other, for tables of every size.
THEOREM UpdatesStopWhereTheyFail == TableSpec => []FailedUpdateStops
<1>1. EffectInv => FailedUpdateStops
  BY DEF EffectInv
<1> QED BY <1>1, TableKeepsInvariants, PTL

\* The rows keep their types: a value that ADD or SUB computes in 64 bits fits the
\* width of a field again, for every width.
THEOREM TableTypeCorrect == TableSpec => []TableTypeOK
<1>1. TableTInv => TableTypeOK
  BY DEF TableTInv
<1> QED BY <1>1, TableKeepsInvariants, PTL

-----------------------------------------------------------------------------
(* Loops over the rows.  FoldLeft is the value, at the set of all places,  *)
(* of a recursive function on sets of places that takes the last place     *)
(* away.                                                                   *)

\* The last of some places.
LEMMA LastPlace ==
    ASSUME NEW n \in Nat, NEW T \in SUBSET (1 .. n), T # {}
    PROVE  Max(T) \in T /\ \A i \in T : i <= Max(T)
<1>1. \E j \in T : \A i \in T : i <= j
  BY GreatestOf
<1>2. \E j \in T : \A i \in T : j >= i
  BY <1>1
<1> QED BY <1>2 DEF Max

\* g is the recursion for a step given as a function op.
IsFold(g, seq, base, op) ==
    \A s \in SUBSET (1 .. Len(seq)) :
        g[s] = IF s = {} THEN base ELSE op[<<seq[Max(s)], g[s \ {Max(s)}]>>]

\* The recursion has a solution.
LEMMA FoldExists ==
    ASSUME NEW E, NEW seq \in Seq(E), NEW A, NEW base \in A, NEW op \in [E \X A -> A]
    PROVE  \E g \in [SUBSET (1 .. Len(seq)) -> A] : IsFold(g, seq, base, op)
<1> DEFINE val(g, s) == IF s = {} THEN base ELSE op[<<seq[Max(s)], g[s \ {Max(s)}]>>]
           Solves(g, n) == \A s \in SUBSET (1 .. n) : g[s] = val(g, s)
           Good == {n \in Nat : n <= Len(seq) =>
                                  \E g \in [SUBSET (1 .. n) -> A] : Solves(g, n)}
<1>1. ASSUME NEW n \in Nat, \A m \in Nat : m < n => m \in Good
      PROVE  n \in Good
  <2> SUFFICES ASSUME n <= Len(seq)
               PROVE  \E g \in [SUBSET (1 .. n) -> A] : Solves(g, n)
    OBVIOUS
  <2>1. CASE n = 0
    <3> DEFINE g == [s \in SUBSET (1 .. n) |-> base]
    <3>1. g \in [SUBSET (1 .. n) -> A]
      OBVIOUS
    <3>2. ASSUME NEW s \in SUBSET (1 .. n) PROVE s = {} /\ g[s] = base
      BY <2>1
    <3>3. Solves(g, n)
      BY <3>2
    <3> HIDE DEF g, Solves
    <3> QED BY <3>1, <3>3
  <2>2. CASE n # 0
    <3>1. n - 1 \in Nat /\ n - 1 < n /\ n - 1 <= Len(seq) /\ n \in 1 .. Len(seq)
      BY <2>2
    <3>2. n - 1 \in Good
      <4> HIDE DEF Good
      <4> QED BY <1>1, <3>1
    <3>3. PICK g \in [SUBSET (1 .. (n - 1)) -> A] : Solves(g, n - 1)
      <4> HIDE DEF Solves
      <4> QED BY <3>1, <3>2
    <3> DEFINE h == [s \in SUBSET (1 .. n) |-> IF n \in s THEN op[<<seq[n], g[s \ {n}]>>]
                                               ELSE g[s]]
    <3>4. \A s \in SUBSET (1 .. n) :
              /\ s \ {n} \in SUBSET (1 .. (n - 1))
              /\ n \notin s => s \in SUBSET (1 .. (n - 1))
      BY <2>2
    <3>5. seq[n] \in E
      BY <3>1
    <3>6. h \in [SUBSET (1 .. n) -> A]
      BY <3>3, <3>4, <3>5
    <3>7. ASSUME NEW s \in SUBSET (1 .. n) PROVE h[s] = val(h, s)
      <4>1. CASE n \in s
        <5>1. Max(s) \in s /\ n <= Max(s) /\ Max(s) \in 1 .. n
          BY <4>1, LastPlace
        <5>2. Max(s) = n
          BY <5>1
        <5>3. h[s \ {n}] = g[s \ {n}]
          <6>1. s \ {n} \in SUBSET (1 .. n) /\ n \notin s \ {n}
            OBVIOUS
          <6> QED BY <6>1
        <5>4. h[s] = op[<<seq[n], g[s \ {n}]>>]
          BY <4>1
        <5> HIDE DEF h
        <5> QED BY <4>1, <5>2, <5>3, <5>4
      <4>2. CASE n \notin s
        <5>1. s \in SUBSET (1 .. (n - 1)) /\ h[s] = g[s] /\ g[s] = val(g, s)
          BY <3>3, <3>4, <4>2
        <5>2. CASE s # {}
          <6>1. s \ {Max(s)} \in SUBSET (1 .. n) /\ n \notin s \ {Max(s)}
            BY <4>2
          <6>2. h[s \ {Max(s)}] = g[s \ {Max(s)}]
            BY <6>1
          <6> HIDE DEF h
          <6> QED BY <5>1, <5>2, <6>2
        <5>3. CASE s = {}
          <6> HIDE DEF h
          <6> QED BY <5>1, <5>3
        <5> QED BY <5>2, <5>3
      <4> QED BY <4>1, <4>2
    <3>8. Solves(h, n)
      BY <3>7
    <3> HIDE DEF h, Solves
    <3> QED BY <3>6, <3>8
  <2> QED BY <2>1, <2>2
<1> HIDE DEF Good
<1>2. Len(seq) \in Good
  BY <1>1, StrongInduction, LenProperties
<1>3. \E g \in [SUBSET (1 .. Len(seq)) -> A] : Solves(g, Len(seq))
  <2> HIDE DEF Solves
  <2>1. Len(seq) \in Nat /\ Len(seq) <= Len(seq)
    BY LenProperties
  <2>2. \A m \in Good : m <= Len(seq) => \E g \in [SUBSET (1 .. m) -> A] : Solves(g, m)
    BY DEF Good
  <2> QED BY <1>2, <2>1, <2>2
<1> QED BY <1>3 DEF IsFold

\* The last of the first places.
LEMMA FirstPlaces ==
    ASSUME NEW n \in Nat, n # 0
    PROVE  /\ 1 .. n # {} /\ Max(1 .. n) = n
           /\ (1 .. n) \ {Max(1 .. n)} = 1 .. (n - 1) /\ n - 1 \in Nat
<1>1. n \in 1 .. n
  OBVIOUS
<1>2. Max(1 .. n) \in 1 .. n /\ n <= Max(1 .. n)
  BY <1>1, LastPlace
<1>3. Max(1 .. n) = n
  BY <1>2
<1>4. (1 .. n) \ {n} = 1 .. (n - 1)
  OBVIOUS
<1> QED BY <1>1, <1>3, <1>4

-----------------------------------------------------------------------------
(* The rows that a query finds.                                            *)

\* found holds the rows among the first n that meet the conditions, in their order.
FoundAmong(rows, cond, n, found) ==
    /\ found \in Seq(Row)
    /\ \A r \in Row : (\E i \in 1 .. Len(found) : found[i] = r)
                      <=> \E i \in 1 .. n : rows[i] = r /\ evalCondition(cond, r)
    /\ \A i, j \in 1 .. Len(found) :
          i < j => \E a, b \in 1 .. n : a < b /\ found[i] = rows[a] /\ found[j] = rows[b]

\* One more row.
LEMMA FoundOneMore ==
    ASSUME NEW rows \in Seq(Row), NEW cond, NEW n \in 1 .. Len(rows), NEW found, NEW more,
           FoundAmong(rows, cond, n - 1, found),
           more = IF evalCondition(cond, rows[n]) THEN Append(found, rows[n]) ELSE found
    PROVE  FoundAmong(rows, cond, n, more)
<1>1. /\ found \in Seq(Row) /\ Len(found) \in Nat /\ rows[n] \in Row
      /\ 1 .. n = (1 .. (n - 1)) \cup {n}
  BY DEF FoundAmong
<1>2. CASE evalCondition(cond, rows[n])
  <2>1. /\ more \in Seq(Row) /\ Len(more) = Len(found) + 1
        /\ \A i \in 1 .. Len(found) : more[i] = found[i]
        /\ more[Len(found) + 1] = rows[n]
    BY <1>1, <1>2, AppendProperties
  <2>2. 1 .. Len(more) = (1 .. Len(found)) \cup {Len(found) + 1}
    BY <1>1, <2>1
  <2>3. ASSUME NEW r \in Row
        PROVE  (\E i \in 1 .. Len(more) : more[i] = r)
               <=> \E i \in 1 .. n : rows[i] = r /\ evalCondition(cond, r)
    <3>1. (\E i \in 1 .. Len(more) : more[i] = r)
          <=> (\E i \in 1 .. Len(found) : found[i] = r) \/ rows[n] = r
      BY <2>1, <2>2, Zenon
    <3>2. (\E i \in 1 .. n : rows[i] = r /\ evalCondition(cond, r))
          <=> \/ \E i \in 1 .. (n - 1) : rows[i] = r /\ evalCondition(cond, r)
              \/ rows[n] = r
      BY <1>1, <1>2, Zenon
    <3>3. (\E i \in 1 .. Len(found) : found[i] = r)
          <=> \E i \in 1 .. (n - 1) : rows[i] = r /\ evalCondition(cond, r)
      BY Zenon DEF FoundAmong
    <3> QED BY <3>1, <3>2, <3>3, Zenon
  <2>4. ASSUME NEW i \in 1 .. Len(more), NEW j \in 1 .. Len(more), i < j
        PROVE  \E a, b \in 1 .. n : a < b /\ more[i] = rows[a] /\ more[j] = rows[b]
    <3>1. i \in 1 .. Len(found) /\ more[i] = found[i]
      BY <1>1, <2>1, <2>2, <2>4
    <3>2. CASE j \in 1 .. Len(found)
      <4>1. PICK a \in 1 .. (n - 1), b \in 1 .. (n - 1) :
                a < b /\ found[i] = rows[a] /\ found[j] = rows[b]
        BY <2>4, <3>1, <3>2 DEF FoundAmong
      <4>2. a \in 1 .. n /\ b \in 1 .. n /\ more[j] = found[j]
        BY <1>1, <2>1, <3>2
      <4> QED BY <3>1, <4>1, <4>2
    <3>3. CASE j = Len(found) + 1
      <4>1. found[i] \in Row
        BY <1>1, <3>1
      <4>2. \E a \in 1 .. (n - 1) : rows[a] = found[i]
        BY <3>1, <4>1 DEF FoundAmong
      <4>3. PICK a \in 1 .. (n - 1) : rows[a] = found[i]
        BY <4>2
      <4>4. a \in 1 .. n /\ a < n /\ n \in 1 .. n
        OBVIOUS
      <4> QED BY <2>1, <3>1, <3>3, <4>3, <4>4
    <3> QED BY <2>2, <3>2, <3>3
  <2> QED BY <2>1, <2>3, <2>4 DEF FoundAmong
<1>3. CASE ~evalCondition(cond, rows[n])
  <2>1. more = found
    BY <1>3
  <2>2. ASSUME NEW r \in Row
        PROVE  (\E i \in 1 .. n : rows[i] = r /\ evalCondition(cond, r))
               <=> \E i \in 1 .. (n - 1) : rows[i] = r /\ evalCondition(cond, r)
    BY <1>1, <1>3, Zenon
  <2>3. ASSUME NEW i \in 1 .. Len(found), NEW j \in 1 .. Len(found), i < j
        PROVE  \E a, b \in 1 .. n : a < b /\ found[i] = rows[a] /\ found[j] = rows[b]
    <3>1. \E a, b \in 1 .. (n - 1) : a < b /\ found[i] = rows[a] /\ found[j] = rows[b]
      BY <2>3 DEF FoundAmong
    <3> QED BY <1>1, <3>1
  <2>4. \A r \in Row : (\E i \in 1 .. Len(found) : found[i] = r)
                       <=> \E i \in 1 .. n : rows[i] = r /\ evalCondition(cond, r)
    BY <2>2, Zenon DEF FoundAmong
  <2> QED BY <1>1, <2>1, <2>3, <2>4 DEF FoundAmong
<1> QED BY <1>2, <1>3

\* The rows a query finds are those that meet its conditions, in the table's order.
LEMMA MatchingIs ==
    ASSUME NEW rows \in Seq(Row), NEW cond
    PROVE  FoundAmong(rows, cond, Len(rows), Matching(rows, cond))
<1> DEFINE P == SUBSET (1 .. Len(rows))
           Step(t) == [s \in SUBSET (DOMAIN rows) |->
                          IF s = {} THEN <<>>
                          ELSE IF evalCondition(cond, rows[Max(s)])
                               THEN Append(t[s \ {Max(s)}], rows[Max(s)])
                               ELSE t[s \ {Max(s)}]]
           t == CHOOSE x : x = Step(x)
           op == [p \in Row \X Seq(Row) |->
                     IF evalCondition(cond, p[1]) THEN Append(p[2], p[1]) ELSE p[2]]
<1>1. Matching(rows, cond) = t[DOMAIN rows]
  BY Zenon DEF Matching, FoldLeft, MapThenFoldSet
<1>2. t = Step(t)
  <2>1. op \in [Row \X Seq(Row) -> Seq(Row)] /\ <<>> \in Seq(Row)
    OBVIOUS
  <2>2. \A r \in Row : \A found \in Seq(Row) :
            op[<<r, found>>] = IF evalCondition(cond, r) THEN Append(found, r) ELSE found
    OBVIOUS
  <2> HIDE DEF op
  <2> DEFINE A == Seq(Row)
  <2>a. op \in [Row \X A -> A] /\ <<>> \in A
    BY <2>1
  <2> HIDE DEF A
  <2>3. PICK g \in [P -> A] : IsFold(g, rows, <<>>, op)
    BY <2>a, FoldExists
  <2>b. \A s \in P : g[s] = IF s = {} THEN <<>> ELSE op[<<rows[Max(s)], g[s \ {Max(s)}]>>]
    BY <2>3 DEF IsFold
  <2>4. DOMAIN rows = 1 .. Len(rows)
    BY LenProperties
  <2>5. ASSUME NEW s \in P PROVE g[s] = Step(g)[s]
    <3>1. CASE s = {}
      BY <2>4, <2>b, <3>1
    <3>2. CASE s # {}
      <4>1. Max(s) \in s
        BY <3>2, LastPlace, LenProperties
      <4>2. rows[Max(s)] \in Row /\ g[s \ {Max(s)}] \in Seq(Row)
        <5>1. Max(s) \in 1 .. Len(rows)
          BY <4>1
        <5>2. rows[Max(s)] \in Row
          BY <5>1
        <5>3. s \ {Max(s)} \in P
          OBVIOUS
        <5>4. g[s \ {Max(s)}] \in A
          BY <2>3, <5>3
        <5> QED BY <5>2, <5>4 DEF A
      <4>3. g[s] = op[<<rows[Max(s)], g[s \ {Max(s)}]>>]
        BY <2>b, <3>2
      <4>4. g[s] = IF evalCondition(cond, rows[Max(s)])
                   THEN Append(g[s \ {Max(s)}], rows[Max(s)]) ELSE g[s \ {Max(s)}]
        BY <2>2, <4>2, <4>3
      <4> QED BY <2>4, <3>2, <4>4
    <3> QED BY <3>1, <3>2
  <2>6. g = Step(g)
    <3>1. Step(g) = [s \in P |-> Step(g)[s]]
      BY <2>4
    <3>2. g = [s \in P |-> g[s]]
      BY <2>3
    <3> HIDE DEF Step, P
    <3> QED BY <2>5, <3>1, <3>2
  <2> HIDE DEF Step
  <2> QED BY <2>6, Zenon
<1> HIDE DEF t, op
<1>3. Len(rows) \in Nat /\ DOMAIN rows = 1 .. Len(rows)
  BY LenProperties
<1>4. t[1 .. 0] = <<>>
  BY <1>2, <1>3
<1>5. ASSUME NEW n \in 1 .. Len(rows)
      PROVE  t[1 .. n] = IF evalCondition(cond, rows[n])
                         THEN Append(t[1 .. (n - 1)], rows[n]) ELSE t[1 .. (n - 1)]
  <2>1. /\ 1 .. n # {} /\ Max(1 .. n) = n /\ (1 .. n) \ {n} = 1 .. (n - 1)
        /\ 1 .. n \in SUBSET (DOMAIN rows)
    BY <1>3, FirstPlaces
  <2>2. t[1 .. n] = Step(t)[1 .. n]
    <3> HIDE DEF Step
    <3> QED BY <1>2
  <2> QED BY <2>1, <2>2
<1> HIDE DEF Step
<1> DEFINE Good == {n \in Nat : n <= Len(rows) => FoundAmong(rows, cond, n, t[1 .. n])}
<1>6. ASSUME NEW n \in Nat, \A m \in Nat : m < n => m \in Good
      PROVE  n \in Good
  <2> SUFFICES ASSUME n <= Len(rows) PROVE FoundAmong(rows, cond, n, t[1 .. n])
    OBVIOUS
  <2>1. CASE n = 0
    <3>1. <<>> \in Seq(Row) /\ Len(<<>>) = 0 /\ 1 .. 0 = {}
      OBVIOUS
    <3> QED BY <1>4, <2>1, <3>1 DEF FoundAmong
  <2>2. CASE n # 0
    <3>1. n \in 1 .. Len(rows) /\ n - 1 \in Nat /\ n - 1 < n /\ n - 1 <= Len(rows)
      BY <1>3, <2>2
    <3>2. FoundAmong(rows, cond, n - 1, t[1 .. (n - 1)])
      BY <1>6, <3>1
    <3>3. t[1 .. n] = IF evalCondition(cond, rows[n])
                      THEN Append(t[1 .. (n - 1)], rows[n]) ELSE t[1 .. (n - 1)]
      BY <1>5, <3>1
    <3> QED BY <3>1, <3>2, <3>3, FoundOneMore
  <2> QED BY <2>1, <2>2
<1> HIDE DEF Good
<1>7. Len(rows) \in Good
  BY <1>3, <1>6, StrongInduction
<1>8. FoundAmong(rows, cond, Len(rows), t[1 .. Len(rows)])
  BY <1>3, <1>7 DEF Good
<1> QED BY <1>1, <1>3, <1>8

-----------------------------------------------------------------------------
(* The loops of SUM, MIN and MAX, named by their queries.                  *)

Kinds == {"Sum", "Min", "Max"}

FirstOf(kind) == CASE kind = "Sum" -> 0
                   [] kind = "Min" -> Half - 1
                   [] kind = "Max" -> -Half

NextOf(kind, a, v) == CASE kind = "Sum" -> a + v
                        [] kind = "Min" -> (IF v < a THEN v ELSE a)
                        [] kind = "Max" -> (IF v > a THEN v ELSE a)

LoopStep(kind, rows, f, t) ==
    [s \in SUBSET (DOMAIN rows) |->
        IF s = {} THEN FirstOf(kind)
        ELSE NextOf(kind, t[s \ {Max(s)}], rows[Max(s)].datum[f])]

LoopTable(kind, rows, f) == CHOOSE t : t = LoopStep(kind, rows, f, t)

\* All rows have a value in a field.
HaveField(rows, f) == \A i \in 1 .. Len(rows) : rows[i].datum[f] \in Value

LEMMA NextOfType ==
    ASSUME NEW kind \in Kinds, NEW a \in Int, NEW v \in Value
    PROVE  NextOf(kind, a, v) \in Int /\ FirstOf(kind) \in Int /\ v \in Int
<1>1. v \in Int /\ Half \in Int
  BY TableAssumption DEF Value
<1> QED BY <1>1 DEF Kinds, NextOf, FirstOf

\* What a loop has after the first n rows.
LEMMA LoopPrefix ==
    ASSUME NEW kind \in Kinds, NEW rows \in Seq(Row), NEW f, HaveField(rows, f)
    PROVE  LET t == LoopTable(kind, rows, f)
           IN  /\ t[1 .. 0] = FirstOf(kind)
               /\ \A n \in 1 .. Len(rows) :
                     t[1 .. n] = NextOf(kind, t[1 .. (n - 1)], rows[n].datum[f])
<1> DEFINE t == LoopTable(kind, rows, f)
           P == SUBSET (1 .. Len(rows))
           vals == [i \in 1 .. Len(rows) |-> rows[i].datum[f]]
           op == [p \in Value \X Int |-> NextOf(kind, p[2], p[1])]
<1>1. Len(rows) \in Nat /\ DOMAIN rows = 1 .. Len(rows)
  BY LenProperties
<1>2. vals \in Seq(Value) /\ Len(vals) = Len(rows)
  BY <1>1 DEF HaveField
<1>3. \A i \in 1 .. Len(rows) : vals[i] = rows[i].datum[f]
  OBVIOUS
<1>4. t = LoopStep(kind, rows, f, t)
  <2>1. 0 \in Value
    BY TableAssumption DEF Value
  <2>2. op \in [Value \X Int -> Int] /\ FirstOf(kind) \in Int
    BY <2>1, NextOfType
  <2>3. \A v \in Value : \A a \in Int : op[<<v, a>>] = NextOf(kind, a, v)
    OBVIOUS
  <2> HIDE DEF op, vals
  <2>4. PICK g \in [SUBSET (1 .. Len(vals)) -> Int] : IsFold(g, vals, FirstOf(kind), op)
    BY <1>2, <2>2, FoldExists
  <2>5. \A s \in P : g[s] = IF s = {} THEN FirstOf(kind)
                            ELSE op[<<vals[Max(s)], g[s \ {Max(s)}]>>]
    BY <1>2, <2>4 DEF IsFold
  <2>6. ASSUME NEW s \in P
        PROVE  g[s] = IF s = {} THEN FirstOf(kind)
                      ELSE NextOf(kind, g[s \ {Max(s)}], rows[Max(s)].datum[f])
    <3>1. CASE s = {}
      BY <2>5, <3>1
    <3>2. CASE s # {}
      <4>1. Max(s) \in 1 .. Len(rows)
        BY <1>1, <3>2, LastPlace
      <4>2. vals[Max(s)] = rows[Max(s)].datum[f] /\ vals[Max(s)] \in Value
        BY <1>3, <4>1 DEF HaveField
      <4>3. g[s \ {Max(s)}] \in Int
        BY <1>2, <2>4
      <4>4. g[s] = op[<<vals[Max(s)], g[s \ {Max(s)}]>>]
        BY <2>5, <3>2
      <4> QED BY <2>3, <3>2, <4>2, <4>3, <4>4
    <3> QED BY <3>1, <3>2
  <2>7. g = LoopStep(kind, rows, f, g)
    <3>1. g = [s \in P |-> g[s]]
      BY <1>2, <2>4
    <3> HIDE DEF P
    <3>2. g = [s \in P |-> IF s = {} THEN FirstOf(kind)
                           ELSE NextOf(kind, g[s \ {Max(s)}], rows[Max(s)].datum[f])]
      BY <2>6, <3>1
    <3> QED BY <1>1, <3>2 DEF LoopStep, P
  <2> QED BY <2>7, Zenon DEF LoopTable
<1> HIDE DEF t
<1>5. t[1 .. 0] = FirstOf(kind)
  <2>1. 1 .. 0 = {} /\ {} \in SUBSET (DOMAIN rows)
    OBVIOUS
  <2>2. LoopStep(kind, rows, f, t)[{}] = FirstOf(kind)
    BY DEF LoopStep
  <2> QED BY <1>4, <2>1, <2>2
<1>6. ASSUME NEW n \in 1 .. Len(rows)
      PROVE  t[1 .. n] = NextOf(kind, t[1 .. (n - 1)], rows[n].datum[f])
  <2>1. /\ 1 .. n # {} /\ Max(1 .. n) = n /\ (1 .. n) \ {n} = 1 .. (n - 1)
        /\ 1 .. n \in SUBSET (DOMAIN rows)
    BY <1>1, FirstPlaces
  <2>2. LoopStep(kind, rows, f, t)[1 .. n] = NextOf(kind, t[1 .. (n - 1)], rows[n].datum[f])
    BY <2>1 DEF LoopStep
  <2> QED BY <1>4, <2>2
<1> QED BY <1>5, <1>6 DEF t

\* The loops of the queries.
SumFold(rows, f) == FoldLeft(LAMBDA a, row : a + row.datum[f], 0, rows)
MinFold(rows, f) ==
    FoldLeft(LAMBDA a, row : IF row.datum[f] < a THEN row.datum[f] ELSE a, Half - 1, rows)
MaxFold(rows, f) ==
    FoldLeft(LAMBDA a, row : IF row.datum[f] > a THEN row.datum[f] ELSE a, -Half, rows)

LEMMA FoldsAreTables ==
    ASSUME NEW rows, NEW f
    PROVE  /\ SumFold(rows, f) = LoopTable("Sum", rows, f)[DOMAIN rows]
           /\ MinFold(rows, f) = LoopTable("Min", rows, f)[DOMAIN rows]
           /\ MaxFold(rows, f) = LoopTable("Max", rows, f)[DOMAIN rows]
<1> DEFINE D == DOMAIN rows
           v(s) == rows[Max(s)].datum[f]
           SumT(t) == [s \in SUBSET D |-> IF s = {} THEN 0 ELSE t[s \ {Max(s)}] + v(s)]
           MinT(t) == [s \in SUBSET D |->
                          IF s = {} THEN Half - 1
                          ELSE IF v(s) < t[s \ {Max(s)}] THEN v(s) ELSE t[s \ {Max(s)}]]
           MaxT(t) == [s \in SUBSET D |->
                          IF s = {} THEN -Half
                          ELSE IF v(s) > t[s \ {Max(s)}] THEN v(s) ELSE t[s \ {Max(s)}]]
<1>1. SumFold(rows, f) = (CHOOSE t : t = SumT(t))[D]
  BY Zenon DEF SumFold, FoldLeft, MapThenFoldSet
<1>2. MinFold(rows, f) = (CHOOSE t : t = MinT(t))[D]
  BY Zenon DEF MinFold, FoldLeft, MapThenFoldSet
<1>3. MaxFold(rows, f) = (CHOOSE t : t = MaxT(t))[D]
  BY Zenon DEF MaxFold, FoldLeft, MapThenFoldSet
<1>4. ASSUME NEW t PROVE SumT(t) = LoopStep("Sum", rows, f, t)
  BY DEF LoopStep, FirstOf, NextOf
<1>5. ASSUME NEW t PROVE MinT(t) = LoopStep("Min", rows, f, t)
  BY DEF LoopStep, FirstOf, NextOf
<1>6. ASSUME NEW t PROVE MaxT(t) = LoopStep("Max", rows, f, t)
  BY DEF LoopStep, FirstOf, NextOf
<1> HIDE DEF SumT, MinT, MaxT
<1>7. LoopTable("Sum", rows, f) = CHOOSE t : t = SumT(t)
  BY <1>4, Zenon DEF LoopTable
<1>8. LoopTable("Min", rows, f) = CHOOSE t : t = MinT(t)
  BY <1>5, Zenon DEF LoopTable
<1>9. LoopTable("Max", rows, f) = CHOOSE t : t = MaxT(t)
  BY <1>6, Zenon DEF LoopTable
<1> QED BY <1>1, <1>2, <1>3, <1>7, <1>8, <1>9

\* No row is found twice.
Once(rows) == \A i, j \in 1 .. Len(rows) : rows[i] = rows[j] => i = j

\* The rows found, as a set.
Members(rows) == {rows[i] : i \in 1 .. Len(rows)}

LEMMA MembersFinite ==
    ASSUME NEW rows \in Seq(Row)
    PROVE  /\ IsFiniteSet(Members(rows))
           /\ Once(rows) => Cardinality(Members(rows)) = Len(rows)
<1> DEFINE N == 1 .. Len(rows)
           f == [i \in N |-> rows[i]]
<1>1. Len(rows) \in Nat
  BY LenProperties
<1>2. IsFiniteSet(N) /\ Cardinality(N) = Len(rows)
  BY <1>1, FS_Interval
<1>3. f \in Surjection(N, Members(rows))
  BY DEF Surjection, Members
<1>4. Once(rows) => f \in Injection(N, Members(rows))
  BY DEF Once, Injection, IsInjective, Members
<1> HIDE DEF f, N
<1> QED BY <1>2, <1>3, <1>4, FS_Surjection

\* SUM's loop computes the sum over the set of the rows.
LEMMA SumLoopIs ==
    ASSUME NEW rows \in Seq(Row), NEW f, HaveField(rows, f), Once(rows),
           NEW v, v = [r \in Members(rows) |-> r.datum[f]]
    PROVE  /\ SumFold(rows, f) = SumTable(v, Members(rows))[Members(rows)]
           /\ SumFold(rows, f) \in Int
<1> DEFINE S == Members(rows)
           u == SumTable(v, S)
           t == LoopTable("Sum", rows, f)
           first(n) == {rows[i] : i \in 1 .. n}
           Good == {n \in Nat : n <= Len(rows) => t[1 .. n] = u[first(n)]}
<1>1. Len(rows) \in Nat /\ DOMAIN rows = 1 .. Len(rows)
  BY LenProperties
<1>2. IsFiniteSet(S)
  BY MembersFinite
<1>3. v \in [S -> Int]
  <2>1. \A r \in S : r.datum[f] \in Int
    BY TableAssumption DEF HaveField, Members, Value
  <2> QED BY <2>1
<1>4. \A i \in 1 .. Len(rows) : rows[i] \in S /\ v[rows[i]] = rows[i].datum[f]
  BY DEF Members
<1>5. /\ t[1 .. 0] = 0
      /\ \A n \in 1 .. Len(rows) : t[1 .. n] = t[1 .. (n - 1)] + rows[n].datum[f]
  BY LoopPrefix DEF Kinds, FirstOf, NextOf
<1>6. u[{}] = 0 /\ u \in [SUBSET S -> Int]
  <2>1. u = SumStep(v, S, u) /\ u \in [SUBSET S -> Int]
    BY <1>2, <1>3, SumTableEquation
  <2> HIDE DEF u, S
  <2> QED BY <2>1 DEF SumStep
<1>7. ASSUME NEW s \in SUBSET S, NEW r \in s PROVE u[s] = v[r] + u[s \ {r}]
  <2> HIDE DEF S, t, first, Good
  <2>1. SumTable(v, S)[s] = v[r] + SumTable(v, S)[s \ {r}]
    BY <1>2, <1>3, SumSplit
  <2> QED BY <2>1
<1> HIDE DEF t, u
<1>8. ASSUME NEW n \in Nat, \A m \in Nat : m < n => m \in Good
      PROVE  n \in Good
  <2> SUFFICES ASSUME n <= Len(rows) PROVE t[1 .. n] = u[first(n)]
    OBVIOUS
  <2>1. CASE n = 0
    <3>1. first(0) = {}
      OBVIOUS
    <3> HIDE DEF first
    <3> QED BY <1>5, <1>6, <2>1, <3>1
  <2>2. CASE n # 0
    <3>1. n \in 1 .. Len(rows) /\ n - 1 \in Nat /\ n - 1 < n /\ n - 1 <= Len(rows)
      BY <1>1, <2>2
    <3>2. t[1 .. (n - 1)] = u[first(n - 1)]
      BY <1>8, <3>1
    <3>3. first(n) \in SUBSET S /\ rows[n] \in first(n) /\ first(n) \ {rows[n]} = first(n - 1)
      <4>1. 1 .. n \subseteq 1 .. Len(rows) /\ 1 .. n = (1 .. (n - 1)) \cup {n}
            /\ n \notin 1 .. (n - 1)
        BY <1>1, <3>1
      <4>2. \A i \in 1 .. (n - 1) : rows[i] # rows[n]
        BY <3>1, <4>1 DEF Once
      <4> QED BY <4>1, <4>2 DEF Members
    <3>4. u[first(n)] = v[rows[n]] + u[first(n - 1)]
      <4> HIDE DEF first
      <4> QED BY <1>7, <3>3
    <3>5. u[first(n - 1)] \in Int /\ v[rows[n]] \in Int
      <4>1. first(n - 1) \in SUBSET S
        BY <3>3
      <4> HIDE DEF first
      <4> QED BY <1>3, <1>4, <1>6, <3>1, <4>1
    <3>6. t[1 .. n] = t[1 .. (n - 1)] + v[rows[n]]
      BY <1>4, <1>5, <3>1
    <3> HIDE DEF first
    <3> QED BY <3>2, <3>4, <3>5, <3>6
  <2> QED BY <2>1, <2>2
<1> HIDE DEF Good
<1>9. Len(rows) \in Good
  BY <1>1, <1>8, StrongInduction
<1>10. t[DOMAIN rows] = u[S]
  <2>1. first(Len(rows)) = S
    BY DEF Members
  <2>2. t[1 .. Len(rows)] = u[first(Len(rows))]
    <3> HIDE DEF first
    <3>1. \A n \in Good : n <= Len(rows) => t[1 .. n] = u[first(n)]
      BY DEF Good
    <3> QED BY <1>1, <1>9, <3>1
  <2> QED BY <1>1, <2>1, <2>2
<1>11. SumFold(rows, f) = t[DOMAIN rows]
  BY FoldsAreTables DEF t
<1> QED BY <1>6, <1>10, <1>11 DEF u

\* m is a bound of the rows' values.
Bounds(kind, rows, f, n, m) ==
    \A i \in 1 .. n : IF kind = "Min" THEN m <= rows[i].datum[f] ELSE m >= rows[i].datum[f]

\* The loops of MIN and MAX find the extreme value.
LEMMA ExtremeLoopIs ==
    ASSUME NEW rows \in Seq(Row), NEW f, HaveField(rows, f), rows # <<>>,
           NEW kind \in {"Min", "Max"}
    PROVE  LET m == LoopTable(kind, rows, f)[DOMAIN rows]
           IN  /\ \E i \in 1 .. Len(rows) : rows[i].datum[f] = m
               /\ Bounds(kind, rows, f, Len(rows), m)
<1> DEFINE t == LoopTable(kind, rows, f)
           Known(n) == /\ t[1 .. n] \in Value
                       /\ Bounds(kind, rows, f, n, t[1 .. n])
                       /\ n # 0 => \E i \in 1 .. n : rows[i].datum[f] = t[1 .. n]
                       /\ n = 0 => t[1 .. n] = FirstOf(kind)
           Good == {n \in Nat : n <= Len(rows) => Known(n)}
<1>1. Len(rows) \in Nat /\ DOMAIN rows = 1 .. Len(rows) /\ Len(rows) # 0
  BY LenProperties, EmptySeq
<1>2. /\ t[1 .. 0] = FirstOf(kind)
      /\ \A n \in 1 .. Len(rows) :
            t[1 .. n] = NextOf(kind, t[1 .. (n - 1)], rows[n].datum[f])
  BY LoopPrefix DEF Kinds
<1> HIDE DEF t
<1>3. ASSUME NEW n \in Nat, \A m \in Nat : m < n => m \in Good
      PROVE  n \in Good
  <2> SUFFICES ASSUME n <= Len(rows) PROVE Known(n)
    OBVIOUS
  <2>1. CASE n = 0
    <3>1. FirstOf(kind) \in Value
      BY TableAssumption DEF FirstOf, Value
    <3> QED BY <1>2, <2>1, <3>1 DEF Bounds
  <2>2. CASE n # 0
    <3>1. n \in 1 .. Len(rows) /\ n - 1 \in Nat /\ n - 1 < n /\ n - 1 <= Len(rows)
      BY <1>1, <2>2
    <3>2. Known(n - 1)
      <4> HIDE DEF Known
      <4> QED BY <1>3, <3>1
    <3> DEFINE a == t[1 .. (n - 1)]
               b == t[1 .. n]
               v == rows[n].datum[f]
    <3>3. v \in Value /\ a \in Value /\ b = NextOf(kind, a, v)
      BY <1>2, <3>1, <3>2 DEF HaveField
    <3>4. 1 .. n = (1 .. (n - 1)) \cup {n}
      BY <3>1
    <3>5. \A w \in Value : w \in Int /\ -Half <= w /\ w <= Half - 1
      BY TableAssumption DEF Value
    <3>6. \A i \in 1 .. (n - 1) : rows[i].datum[f] \in Value
      BY <1>1, <3>1 DEF HaveField
    <3>7. n - 1 = 0 => a = FirstOf(kind)
      BY <3>2
    <3>8. n - 1 # 0 => \E i \in 1 .. (n - 1) : rows[i].datum[f] = a
      BY <3>2
    <3>9. Bounds(kind, rows, f, n - 1, a)
      BY <3>2
    <3> HIDE DEF a, b
    <3>10. CASE kind = "Min"
      <4>1. b \in Value /\ b <= v /\ b <= a /\ (b = v \/ b = a)
        BY <3>3, <3>5, <3>10 DEF NextOf
      <4>2. n - 1 = 0 => b = v
        BY <3>3, <3>5, <3>7, <3>10, TableAssumption DEF NextOf, FirstOf
      <4>3. \E i \in 1 .. n : rows[i].datum[f] = b
        BY <3>4, <3>8, <4>1, <4>2
      <4>4. \A i \in 1 .. (n - 1) : b <= rows[i].datum[f]
        BY <3>3, <3>5, <3>6, <3>9, <3>10, <4>1 DEF Bounds
      <4>5. Bounds(kind, rows, f, n, b)
        BY <3>4, <3>10, <4>1, <4>4 DEF Bounds
      <4> QED BY <2>2, <4>1, <4>3, <4>5 DEF b
    <3>11. CASE kind = "Max"
      <4>1. b \in Value /\ b >= v /\ b >= a /\ (b = v \/ b = a)
        BY <3>3, <3>5, <3>11 DEF NextOf
      <4>2. n - 1 = 0 => b = v
        BY <3>3, <3>5, <3>7, <3>11, TableAssumption DEF NextOf, FirstOf
      <4>3. \E i \in 1 .. n : rows[i].datum[f] = b
        BY <3>4, <3>8, <4>1, <4>2
      <4>4. \A i \in 1 .. (n - 1) : b >= rows[i].datum[f]
        BY <3>3, <3>5, <3>6, <3>9, <3>11, <4>1 DEF Bounds
      <4>5. Bounds(kind, rows, f, n, b)
        BY <3>4, <3>11, <4>1, <4>4 DEF Bounds
      <4> QED BY <2>2, <4>1, <4>3, <4>5 DEF b
    <3> QED BY <3>10, <3>11
  <2> QED BY <2>1, <2>2
<1> HIDE DEF Good, Known
<1>4. Len(rows) \in Good
  BY <1>1, <1>3, StrongInduction
<1>5. Known(Len(rows))
  BY <1>1, <1>4 DEF Good
<1> QED BY <1>1, <1>5 DEF Known, t

-----------------------------------------------------------------------------
(* The lines that SELECT shows.                                            *)

\* Different numbers can be put in ascending order: a number's place is the number of
\* those that are not greater.
LEMMA CanSort ==
    ASSUME NEW n \in Nat, NEW k \in [1 .. n -> Nat],
           \A i, j \in 1 .. n : k[i] = k[j] => i = j
    PROVE  \E p \in Bijection(1 .. n, 1 .. n) :
               \A i, j \in 1 .. n : i < j => k[p[i]] <= k[p[j]]
<1> DEFINE N == 1 .. n
           upto(i) == {j \in N : k[j] <= k[i]}
           place == [i \in N |-> Cardinality(upto(i))]
<1>1. IsFiniteSet(N) /\ Cardinality(N) = n
  BY FS_Interval
<1>2. ASSUME NEW i \in N
      PROVE  IsFiniteSet(upto(i)) /\ Cardinality(upto(i)) \in 1 .. n
  <2>1. upto(i) \in SUBSET N /\ i \in upto(i)
    BY DEF N
  <2> HIDE DEF N, upto
  <2>2. IsFiniteSet(upto(i)) /\ Cardinality(upto(i)) <= n
    BY <1>1, <2>1, FS_Subset
  <2>3. Cardinality(upto(i)) \in Nat /\ Cardinality(upto(i)) # 0
    BY <2>1, <2>2, FS_CardinalityType, FS_EmptySet
  <2> QED BY <2>2, <2>3
<1>3. ASSUME NEW i \in N, NEW j \in N, k[i] < k[j] PROVE place[i] < place[j]
  <2>1. k[i] \in Nat /\ k[j] \in Nat
    OBVIOUS
  <2>2. j \in upto(j) /\ j \notin upto(i)
    BY <1>3, <2>1
  <2>3. upto(i) \in SUBSET upto(j)
    BY <1>3, <2>1
  <2>4. place[i] = Cardinality(upto(i)) /\ place[j] = Cardinality(upto(j))
    OBVIOUS
  <2> HIDE DEF upto, N, place
  <2>5. Cardinality(upto(i)) <= Cardinality(upto(j))
        /\ Cardinality(upto(i)) # Cardinality(upto(j))
    <3>1. IsFiniteSet(upto(j))
      BY <1>2
    <3> QED BY <2>2, <2>3, <3>1, FS_Subset
  <2>6. Cardinality(upto(i)) \in 1 .. n /\ Cardinality(upto(j)) \in 1 .. n
    BY <1>2
  <2> QED BY <2>4, <2>5, <2>6
<1>4. place \in [N -> N]
  BY <1>2
<1>5. \A i, j \in N : place[i] = place[j] => i = j
  <2>1. SUFFICES ASSUME NEW i \in N, NEW j \in N, place[i] = place[j], i # j PROVE FALSE
    OBVIOUS
  <2>2. k[i] \in Nat /\ k[j] \in Nat /\ k[i] # k[j]
    BY <2>1
  <2>3. place[i] \in Nat /\ place[j] \in Nat
    BY <1>4
  <2> HIDE DEF place
  <2>4. k[i] < k[j] \/ k[j] < k[i]
    BY <2>2
  <2> QED BY <1>3, <2>1, <2>3, <2>4
<1> HIDE DEF N, place
<1>6. place \in Injection(N, N)
  BY <1>4, <1>5, Fun_IsInj
<1>7. place \in Bijection(N, N)
  BY <1>1, <1>6, FS_Injection DEF Bijection
<1> DEFINE p == Inverse(place, N, N)
<1>8. p \in Bijection(N, N) /\ Inverse(p, N, N) = place
  BY <1>7, Fun_BijInverse
<1>9. \A i \in N : place[p[i]] = i
  <2> HIDE DEF p
  <2> QED BY <1>8, Fun_BijInverse
<1>10. p \in [N -> N]
  BY <1>8, Fun_BijectionProperties
<1> HIDE DEF p
<1>11. ASSUME NEW i \in N, NEW j \in N, i < j PROVE k[p[i]] <= k[p[j]]
  <2>1. p[i] \in N /\ p[j] \in N
    BY <1>10
  <2>2. k[p[i]] \in Nat /\ k[p[j]] \in Nat
    BY <2>1 DEF N
  <2>3. SUFFICES ASSUME k[p[j]] < k[p[i]] PROVE FALSE
    BY <2>2
  <2>4. place[p[j]] < place[p[i]]
    BY <1>3, <2>1, <2>3
  <2>5. j < i
    BY <1>9, <2>4
  <2> QED BY <1>11, <2>5 DEF N
<1> QED BY <1>8, <1>11 DEF N

\* SortLines shows the same lines in ascending order.
LEMMA SortLinesIs ==
    ASSUME NEW lines, NEW n \in Nat, DOMAIN lines = 1 .. n,
           \A i \in 1 .. n : KeyRank[lines[i][1]] \in Nat,
           \A i, j \in 1 .. n : KeyRank[lines[i][1]] = KeyRank[lines[j][1]] => i = j
    PROVE  LET s == SortLines(lines)
           IN  /\ DOMAIN s = 1 .. n
               /\ {s[i] : i \in 1 .. n} = {lines[i] : i \in 1 .. n}
               /\ \A i, j \in 1 .. n : i < j => KeyRank[s[i][1]] < KeyRank[s[j][1]]
<1> DEFINE N == 1 .. n
           k == [i \in N |-> KeyRank[lines[i][1]]]
           p == CHOOSE q \in Bijection(N, N) : Ascends(lines, q)
           s == SortLines(lines)
<1>1. k \in [N -> Nat] /\ \A i, j \in N : k[i] = k[j] => i = j
  OBVIOUS
<1>2. \A i \in N : k[i] = KeyRank[lines[i][1]]
  OBVIOUS
<1>3. \E q \in Bijection(N, N) : \A i, j \in N : i < j => k[q[i]] <= k[q[j]]
  <2> HIDE DEF k
  <2> QED BY <1>1, CanSort
<1> HIDE DEF k
<1>4. \A q \in Bijection(N, N) : \A i \in N : q[i] \in N
  BY DEF Bijection, Injection
<1>5. \E q \in Bijection(N, N) : Ascends(lines, q)
  <2>1. PICK q \in Bijection(N, N) : \A i, j \in N : i < j => k[q[i]] <= k[q[j]]
    BY <1>3
  <2>2. \A i \in N : q[i] \in N
    BY <1>4
  <2>3. \A i, j \in N : i < j => KeyRank[lines[q[i]][1]] <= KeyRank[lines[q[j]][1]]
    <3> HIDE DEF N
    <3> QED BY <1>2, <2>1, <2>2
  <2>4. Ascends(lines, q)
    BY <2>3 DEF Ascends
  <2> QED BY <2>1, <2>4, Zenon
<1>6. p \in Bijection(N, N) /\ Ascends(lines, p)
  <2> HIDE DEF N
  <2> QED BY <1>5
<1>7. s = [i \in N |-> lines[p[i]]]
  BY DEF SortLines
<1> HIDE DEF p, s
<1>8. /\ \A i \in N : p[i] \in N
      /\ \A i, j \in N : p[i] = p[j] => i = j
      /\ \A l \in N : \E i \in N : p[i] = l
  <2> HIDE DEF N
  <2> QED BY <1>6 DEF Bijection, Injection, IsInjective, Surjection
<1>9. {s[i] : i \in N} = {lines[i] : i \in N}
  <2> HIDE DEF N
  <2> QED BY <1>7, <1>8
<1>10. ASSUME NEW i \in N, NEW j \in N, i < j
       PROVE  KeyRank[s[i][1]] < KeyRank[s[j][1]]
  <2>1. s[i] = lines[p[i]] /\ s[j] = lines[p[j]]
    BY <1>7
  <2>2. KeyRank[lines[p[i]][1]] <= KeyRank[lines[p[j]][1]]
    BY <1>6, <1>10 DEF Ascends
  <2>3. p[i] # p[j]
    BY <1>8, <1>10
  <2>4. p[i] \in N /\ p[j] \in N
    BY <1>8
  <2> DEFINE x == KeyRank[lines[p[i]][1]]
             y == KeyRank[lines[p[j]][1]]
  <2>5. x \in Nat /\ y \in Nat /\ x # y
    BY <2>3, <2>4
  <2>6. x < y
    <3>1. x <= y
      BY <2>2
    <3> HIDE DEF x, y
    <3> QED BY <2>5, <3>1
  <2> QED BY <2>1, <2>6
<1> QED BY <1>7, <1>9, <1>10 DEF s

-----------------------------------------------------------------------------
(* What the reading queries answer.                                        *)

\* The fields of the rows that a query reads.
FieldsOf(q) == IF q.type = "Select" THEN Tail(q.fields)
               ELSE IF q.type = "Count" THEN <<>> ELSE q.fields

\* Between statements the rows have different keys.
KeysDiffer(rows) == \A i, j \in 1 .. Len(rows) : rows[i].key = rows[j].key => i = j

LEMMA QuietRows ==
    ASSUME TableTInv, Quiet
    PROVE  data \in Seq(Row) /\ KeysDiffer(data)
<1>1. data \in Seq(Row)
  BY DEF TableTInv, TableTypeOK
<1>2. DOMAIN data = 1 .. Len(data)
  BY <1>1, LenProperties
<1>3. \A i \in DOMAIN data : keyMap[data[i].key] = i
  BY DEF TableTInv, TableInv, KeyMapExact, Quiet
<1> QED BY <1>1, <1>2, <1>3 DEF KeysDiffer

\* The rows a query finds are those it selects, each once.
LEMMA FoundIs ==
    ASSUME TableTInv, Quiet, NEW q, ~Contradicts(q.cond)
    PROVE  LET found == Matching(data, q.cond)
           IN  /\ found \in Seq(Row)
               /\ Members(found) = Selected(q)
               /\ KeysDiffer(found)
<1> DEFINE found == Matching(data, q.cond)
<1>1. data \in Seq(Row) /\ KeysDiffer(data) /\ DOMAIN data = 1 .. Len(data)
  BY QuietRows, LenProperties
<1>2. FoundAmong(data, q.cond, Len(data), found)
  BY <1>1, MatchingIs
<1> HIDE DEF found
<1>3. found \in Seq(Row)
  BY <1>2 DEF FoundAmong
<1>4. Members(found) = Selected(q)
  <2>1. \A i \in 1 .. Len(found) : found[i] \in Row
    BY <1>3
  <2>2. \A i \in 1 .. Len(data) : data[i] \in Row
    BY <1>1
  <2>3. \A r \in Row : r \in Members(found) <=> r \in Selected(q)
    BY <1>1, <1>2 DEF FoundAmong, Members, Selected, Rows
  <2>4. Members(found) \subseteq Row
    BY <2>1 DEF Members
  <2>5. Selected(q) \subseteq Row
    BY <1>1, <2>2 DEF Selected, Rows
  <2> QED BY <2>3, <2>4, <2>5
<1>5. KeysDiffer(found)
  <2>1. SUFFICES ASSUME NEW i \in 1 .. Len(found), NEW j \in 1 .. Len(found),
                        found[i].key = found[j].key, i < j
                 PROVE  FALSE
    <3>1. Len(found) \in Nat
      BY <1>3, LenProperties
    <3> QED BY <3>1 DEF KeysDiffer
  <2>2. PICK a \in 1 .. Len(data), b \in 1 .. Len(data) :
            a < b /\ found[i] = data[a] /\ found[j] = data[b]
    BY <1>2, <2>1 DEF FoundAmong
  <2>3. a = b
    BY <1>1, <2>1, <2>2 DEF KeysDiffer
  <2> QED BY <2>2, <2>3
<1> QED BY <1>3, <1>4, <1>5 DEF found

\* A query is refused where the code fails.
LEMMA RefusedIs ==
    ASSUME TableTInv, NEW q
    PROVE  Refused(q) <=>
               \/ q.type # "Count" /\ q.fields = <<>>
               \/ q.type = "Select" /\ q.fields[1] # 0
               \/ IllFormed(q.cond)
               \/ Unknown(FieldsOf(q)) /\ ~(q.type = "Select" /\ Contradicts(q.cond))
               \/ ~Contradicts(q.cond) /\ LoopThrows(data, q.cond, FieldsOf(q))
<1> DEFINE fs == FieldsOf(q)
           beyond(r) == \E f \in Range(fs) : f > Len(r.datum)
           out(r) == \E j \in DOMAIN fs : fs[j] > Len(r.datum)
<1>1. \A r : beyond(r) <=> out(r)
  BY DEF Range
<1>2. ASSUME ~Contradicts(q.cond)
      PROVE  (\E r \in Rows : EvalThrows(q.cond, r) \/ (r \in Selected(q) /\ beyond(r)))
             <=> LoopThrows(data, q.cond, fs)
  <2>1. \A i \in DOMAIN data : data[i] \in Selected(q) <=> evalCondition(q.cond, data[i])
    BY <1>2 DEF Selected, Rows
  <2>2. LoopThrows(data, q.cond, fs)
        <=> \E i \in DOMAIN data : \/ EvalThrows(q.cond, data[i])
                                   \/ evalCondition(q.cond, data[i]) /\ out(data[i])
    BY DEF LoopThrows
  <2> HIDE DEF beyond, out
  <2> QED BY <1>1, <2>1, <2>2 DEF Rows
<1>3. Refused(q) <=>
          \/ q.type # "Count" /\ q.fields = <<>>
          \/ q.type = "Select" /\ q.fields[1] # 0
          \/ IllFormed(q.cond)
          \/ Unknown(fs) /\ ~(q.type = "Select" /\ Contradicts(q.cond))
          \/ /\ ~Contradicts(q.cond)
             /\ \E r \in Rows : EvalThrows(q.cond, r) \/ (r \in Selected(q) /\ beyond(r))
  BY Zenon DEF Refused, FieldsOf
<1> HIDE DEF beyond, out, fs
<1>4. Refused(q) <=>
          \/ q.type # "Count" /\ q.fields = <<>>
          \/ q.type = "Select" /\ q.fields[1] # 0
          \/ IllFormed(q.cond)
          \/ Unknown(fs) /\ ~(q.type = "Select" /\ Contradicts(q.cond))
          \/ ~Contradicts(q.cond) /\ LoopThrows(data, q.cond, fs)
  BY <1>2, <1>3, Zenon
<1> QED BY <1>4 DEF fs

\* The rows that a query finds have the fields it reads.
LEMMA FoundHave ==
    ASSUME TableTInv, Quiet, NEW q, ~Contradicts(q.cond), ~Refused(q),
           FieldsOf(q) \in Seq(Nat), NEW j \in DOMAIN FieldsOf(q)
    PROVE  HaveField(Matching(data, q.cond), FieldsOf(q)[j])
<1> DEFINE found == Matching(data, q.cond)
           f == FieldsOf(q)[j]
<1>1. found \in Seq(Row) /\ Members(found) = Selected(q)
  BY FoundIs
<1>2. ~Unknown(FieldsOf(q)) /\ ~LoopThrows(data, q.cond, FieldsOf(q))
  BY RefusedIs
<1>3. f \in 1 .. NumFields /\ NumFields \in Nat
  BY <1>2, TableAssumption DEF Unknown
<1>4. \A i \in DOMAIN data : evalCondition(q.cond, data[i]) => f <= Len(data[i].datum)
  <2>1. \A i \in DOMAIN data : evalCondition(q.cond, data[i]) => ~(f > Len(data[i].datum))
    BY <1>2 DEF LoopThrows
  <2>2. data \in Seq(Row) /\ DOMAIN data = 1 .. Len(data)
    BY QuietRows, LenProperties
  <2>3. \A i \in DOMAIN data : data[i].datum \in Seq(Value)
    <3>1. \A i \in DOMAIN data : data[i] \in Row
      BY <2>2
    <3>2. \A r \in Row : r.datum \in Seq(Value)
      BY DEF Row
    <3> QED BY <3>1, <3>2
  <2>4. \A i \in DOMAIN data : Len(data[i].datum) \in Nat
    BY <2>3, LenProperties
  <2> HIDE DEF f
  <2> QED BY <1>3, <2>1, <2>4
<1> HIDE DEF f, found
<1>5. ASSUME NEW i \in 1 .. Len(found) PROVE found[i].datum[f] \in Value
  <2>1. found[i] \in Row /\ found[i] \in Selected(q)
    BY <1>1 DEF Members
  <2>2. f <= Len(found[i].datum)
    <3>1. PICK d \in DOMAIN data : found[i] = data[d]
      BY <2>1 DEF Selected, Rows
    <3>2. evalCondition(q.cond, data[d])
      BY <2>1, <3>1 DEF Selected
    <3> QED BY <1>4, <3>1, <3>2
  <2>3. found[i].datum \in Seq(Value)
    BY <2>1 DEF Row
  <2> QED BY <1>3, <2>2, <2>3
<1> QED BY <1>5 DEF HaveField, found, f

\* A line starts with the key of its row.
LEMMA LineKey ==
    ASSUME NEW row, NEW fields \in Seq(Nat)
    PROVE  Line(row, fields)[1] = row.key
<1> DEFINE rest == [j \in DOMAIN fields |-> row.datum[fields[j]]]
           S == {row.key} \cup {row.datum[fields[j]] : j \in DOMAIN fields}
<1>1. Len(fields) \in Nat /\ DOMAIN fields = 1 .. Len(fields)
  BY LenProperties
<1>2. rest \in Seq(S)
  BY <1>1
<1>3. <<row.key>> \in Seq(S) /\ Len(<<row.key>>) = 1 /\ <<row.key>>[1] = row.key
  OBVIOUS
<1> HIDE DEF rest, S
<1>4. (<<row.key>> \o rest)[1] = <<row.key>>[1]
  BY <1>2, <1>3, ConcatProperties
<1> QED BY <1>3, <1>4 DEF Line, rest

\* SELECT shows the rows it finds, sorted.
LEMMA SelectAnswer ==
    ASSUME TableTInv, Quiet, NEW q \in Reads, q.type = "Select"
    PROVE  /\ Refused(q) => execute(data, q) = Error
           /\ ~Refused(q) /\ Selected(q) = {} => execute(data, q) \in {Null, Answer(<<>>)}
           /\ ~Refused(q) /\ Selected(q) # {} =>
                 LET ans == execute(data, q)
                 IN  /\ Range(ans.value) = {Line(r, Tail(q.fields)) : r \in Selected(q)}
                     /\ \A i, j \in DOMAIN ans.value :
                           i < j => KeyRank[ans.value[i][1]] < KeyRank[ans.value[j][1]]
<1> DEFINE fs == Tail(q.fields)
           found == Matching(data, q.cond)
           wrong == q.fields = <<>> \/ q.fields[1] # 0 \/ IllFormed(q.cond)
           fails == Unknown(fs) \/ LoopThrows(data, q.cond, fs)
           lines == [i \in DOMAIN found |-> Line(found[i], fs)]
<1>1. execute(data, q) = IF wrong THEN Error
                         ELSE IF Contradicts(q.cond) THEN Answer(<<>>)
                         ELSE IF fails THEN Error
                         ELSE IF found = <<>> THEN Null ELSE Answer(SortLines(lines))
  BY DEF execute, Select
<1>2. Refused(q) <=> wrong \/ (~Contradicts(q.cond) /\ fails)
  <2>1. FieldsOf(q) = fs
    BY DEF FieldsOf
  <2>2. Refused(q) <=>
            \/ q.fields = <<>>
            \/ q.fields[1] # 0
            \/ IllFormed(q.cond)
            \/ Unknown(fs) /\ ~Contradicts(q.cond)
            \/ ~Contradicts(q.cond) /\ LoopThrows(data, q.cond, fs)
    BY <2>1, RefusedIs
  <2> QED BY <2>2, Zenon
<1>3. Contradicts(q.cond) => Selected(q) = {}
  BY DEF Selected
<1>4. ASSUME ~Refused(q), ~Contradicts(q.cond)
      PROVE  /\ found = <<>> <=> Selected(q) = {}
             /\ Selected(q) # {} =>
                   LET s == SortLines(lines)
                   IN  /\ Range(s) = {Line(r, fs) : r \in Selected(q)}
                       /\ \A i, j \in DOMAIN s :
                             i < j => KeyRank[s[i][1]] < KeyRank[s[j][1]]
  <2> DEFINE n == Len(found)
             s == SortLines(lines)
  <2>1. found \in Seq(Row) /\ Members(found) = Selected(q) /\ KeysDiffer(found)
    BY <1>4, FoundIs
  <2>2. fs \in Seq(Nat)
    <3>1. q.fields \in Seq(Nat) /\ q.fields # <<>>
      BY <1>2, <1>4, ReadsAssumption
    <3> QED BY <3>1, HeadTailProperties
  <2> HIDE DEF found
  <2>3. n \in Nat /\ DOMAIN found = 1 .. n
    BY <2>1, LenProperties
  <2>4. found = <<>> <=> Selected(q) = {}
    <3>1. found = <<>> <=> n = 0
      BY <2>1, EmptySeq
    <3>2. n = 0 => Members(found) = {}
      BY DEF Members
    <3>3. n # 0 => found[1] \in Members(found)
      BY <2>3 DEF Members
    <3> QED BY <2>1, <3>1, <3>2, <3>3
  <2>5. \A i \in 1 .. n : lines[i] = Line(found[i], fs) /\ lines[i][1] = found[i].key
    BY <2>2, <2>3, LineKey
  <2>6. DOMAIN lines = 1 .. n
    BY <2>3
  <2>7. \A i \in 1 .. n : found[i].key \in Keys
    <3>1. \A i \in 1 .. n : found[i] \in Row
      BY <2>1
    <3>2. \A r \in Row : r.key \in Keys
      BY DEF Row
    <3> QED BY <3>1, <3>2
  <2>a. \A i, j \in 1 .. n : found[i].key = found[j].key => i = j
    BY <2>1 DEF KeysDiffer
  <2> HIDE DEF fs, n, lines
  <2>8. /\ \A i \in 1 .. n : KeyRank[lines[i][1]] \in Nat
        /\ \A i, j \in 1 .. n : KeyRank[lines[i][1]] = KeyRank[lines[j][1]] => i = j
    <3>1. /\ \A k \in Keys : KeyRank[k] \in Nat
          /\ \A j, k \in Keys : KeyRank[j] = KeyRank[k] => j = k
      BY ReadsAssumption
    <3> QED BY <2>5, <2>7, <2>a, <3>1
  <2>9. /\ DOMAIN s = 1 .. n
        /\ {s[i] : i \in 1 .. n} = {lines[i] : i \in 1 .. n}
        /\ \A i, j \in 1 .. n : i < j => KeyRank[s[i][1]] < KeyRank[s[j][1]]
    BY <2>3, <2>6, <2>8, SortLinesIs
  <2> HIDE DEF s
  <2>10. Range(s) = {lines[i] : i \in 1 .. n}
    BY <2>9 DEF Range
  <2>11. {lines[i] : i \in 1 .. n} = {Line(r, fs) : r \in Selected(q)}
    BY <2>1, <2>5 DEF Members, n
  <2> QED BY <2>4, <2>9, <2>10, <2>11 DEF s
<1> HIDE DEF wrong, fails, lines, found, fs
<1>5. Refused(q) => execute(data, q) = Error
  BY <1>1, <1>2
<1>6. ~Refused(q) /\ Selected(q) = {} => execute(data, q) \in {Null, Answer(<<>>)}
  BY <1>1, <1>2, <1>4
<1>7. ASSUME ~Refused(q), Selected(q) # {}
      PROVE  LET ans == execute(data, q)
             IN  /\ Range(ans.value) = {Line(r, Tail(q.fields)) : r \in Selected(q)}
                 /\ \A i, j \in DOMAIN ans.value :
                       i < j => KeyRank[ans.value[i][1]] < KeyRank[ans.value[j][1]]
  <2>1. ~Contradicts(q.cond)
    BY <1>3, <1>7
  <2>2. execute(data, q) = Answer(SortLines(lines))
    BY <1>1, <1>2, <1>4, <1>7, <2>1
  <2>3. execute(data, q).value = SortLines(lines)
    BY <2>2 DEF Answer
  <2> QED BY <1>4, <1>7, <2>1, <2>3 DEF fs
<1> QED BY <1>5, <1>6, <1>7

\* SELECT finds and shows what it should, whatever order deletions have left.
THEOREM SelectsAreExact == TableSpec => []SelectExact
<1>1. TableTInv => SelectExact
  <2> SUFFICES ASSUME TableTInv, Quiet, NEW q \in Reads, q.type = "Select"
               PROVE  LET ans   == execute(data, q)
                          found == Selected(q)
                      IN  CASE Refused(q) -> ans = Error
                            [] ~Refused(q) /\ found = {} -> ans \in {Null, Answer(<<>>)}
                            [] OTHER ->
                                  /\ Range(ans.value) = {Line(r, Tail(q.fields)) : r \in found}
                                  /\ \A i, j \in DOMAIN ans.value :
                                        i < j => KeyRank[ans.value[i][1]]
                                                 < KeyRank[ans.value[j][1]]
    BY DEF SelectExact
  <2>1. CASE Refused(q)
    BY <2>1, SelectAnswer
  <2>2. CASE ~Refused(q) /\ Selected(q) = {}
    BY <2>2, SelectAnswer
  <2>3. CASE ~Refused(q) /\ Selected(q) # {}
    BY <2>3, SelectAnswer
  <2> QED BY <2>1, <2>2, <2>3
<1> QED BY <1>1, TableKeepsInvariants, PTL

-----------------------------------------------------------------------------
(* COUNT, SUM, MIN and MAX.                                                *)

\* The sum of a field over a set of rows, as AggregatesExact writes it.
SumOver(f, S) == MapThenSumSet(LAMBDA r : r.datum[f], S)

LEMMA SumOverIs ==
    ASSUME NEW f, NEW S, NEW v, v = [r \in S |-> r.datum[f]]
    PROVE  SumOver(f, S) = SumTable(v, S)[S]
<1> DEFINE Step(g) == [s \in SUBSET S |->
                          IF s = {} THEN 0
                          ELSE (CHOOSE x \in s : TRUE).datum[f] + g[s \ {CHOOSE x \in s : TRUE}]]
<1>1. SumOver(f, S) = (CHOOSE g : g = Step(g))[S]
  BY Zenon DEF SumOver, MapThenSumSet, MapThenFoldSet
<1>2. ASSUME NEW g PROVE Step(g) = SumStep(v, S, g)
  <2>1. \A s \in SUBSET S : s # {} => v[pick(s)] = pick(s).datum[f]
    BY DEF pick
  <2> QED BY <2>1 DEF SumStep, pick
<1> HIDE DEF Step
<1>3. SumTable(v, S) = CHOOSE g : g = Step(g)
  BY <1>2, Zenon DEF SumTable
<1> QED BY <1>1, <1>3

\* COUNT answers the number of the rows it finds.
LEMMA CountAnswer ==
    ASSUME TableTInv, Quiet, NEW q \in Reads, q.type = "Count"
    PROVE  /\ Refused(q) => execute(data, q) = Error
           /\ ~Refused(q) => execute(data, q).value = <<Cardinality(Selected(q))>>
<1> DEFINE found == Matching(data, q.cond)
<1>1. execute(data, q) = IF IllFormed(q.cond) THEN Error
                         ELSE IF Contradicts(q.cond) THEN Answer(<<0>>)
                         ELSE IF LoopThrows(data, q.cond, <<>>) THEN Error
                         ELSE Answer(<<Len(found)>>)
  BY DEF execute, Count
<1>2. Refused(q) <=> \/ IllFormed(q.cond)
                     \/ ~Contradicts(q.cond) /\ LoopThrows(data, q.cond, <<>>)
  <2>1. FieldsOf(q) = <<>> /\ ~Unknown(<<>>)
    BY DEF FieldsOf, Unknown
  <2> QED BY <2>1, RefusedIs
<1>3. CASE Contradicts(q.cond)
  <2>1. Selected(q) = {}
    BY <1>3 DEF Selected
  <2>2. Cardinality(Selected(q)) = 0
    BY <2>1, FS_EmptySet
  <2> QED BY <1>1, <1>2, <1>3, <2>2 DEF Answer
<1>4. CASE ~Contradicts(q.cond)
  <2>1. found \in Seq(Row) /\ Members(found) = Selected(q) /\ KeysDiffer(found)
    BY <1>4, FoundIs
  <2> HIDE DEF found
  <2>2. Once(found)
    BY <2>1 DEF KeysDiffer, Once
  <2>3. Cardinality(Selected(q)) = Len(found)
    BY <2>1, <2>2, MembersFinite
  <2> QED BY <1>1, <1>2, <1>4, <2>3 DEF Answer
<1> QED BY <1>3, <1>4

\* SUM, MIN and MAX are refused for the same reasons.
LEMMA OthersRefused ==
    ASSUME TableTInv, NEW q \in Reads, q.type \in {"Sum", "Min", "Max"}
    PROVE  /\ FieldsOf(q) = q.fields /\ q.fields \in Seq(Nat)
           /\ Refused(q) <=>
                 \/ q.fields = <<>> \/ Unknown(q.fields) \/ IllFormed(q.cond)
                 \/ ~Contradicts(q.cond) /\ LoopThrows(data, q.cond, q.fields)
<1>1. FieldsOf(q) = q.fields /\ q.fields \in Seq(Nat)
  BY ReadsAssumption DEF FieldsOf
<1> QED BY <1>1, RefusedIs

\* SUM answers the sums of the rows it finds, cast to the type of values.
LEMMA SumAnswer ==
    ASSUME TableTInv, Quiet, NEW q \in Reads, q.type = "Sum"
    PROVE  /\ Refused(q) => execute(data, q) = Error
           /\ ~Refused(q) => \A j \in DOMAIN q.fields :
                 LET x == execute(data, q).value[j]
                 IN  /\ x \in Value
                     /\ (x - SumOver(q.fields[j], Selected(q))) % (2 * Half) = 0
<1> DEFINE found == Matching(data, q.cond)
           sums == [j \in DOMAIN q.fields |-> ToValue(SumFold(found, q.fields[j]))]
           wrong == q.fields = <<>> \/ Unknown(q.fields) \/ IllFormed(q.cond)
           fails == LoopThrows(data, q.cond, q.fields)
<1>1. execute(data, q) = Sum(data, q)
  BY DEF execute
<1>2. Sum(data, q) = IF wrong THEN Error
                     ELSE IF Contradicts(q.cond) THEN Answer([j \in DOMAIN q.fields |-> 0])
                     ELSE IF fails THEN Error
                     ELSE Answer(sums)
  BY Zenon DEF Sum, Loop, SumFold
<1>3. Refused(q) <=> wrong \/ (~Contradicts(q.cond) /\ fails)
  BY OthersRefused
<1>4. 0 \in Value /\ Half \in Nat \ {0} /\ 2 * Half \in Nat \ {0}
  BY TableAssumption DEF Value
<1>5. ASSUME ~Refused(q), Contradicts(q.cond), NEW j \in DOMAIN q.fields
      PROVE  LET x == execute(data, q).value[j]
             IN  x \in Value /\ (x - SumOver(q.fields[j], Selected(q))) % (2 * Half) = 0
  <2>1. Selected(q) = {}
    BY <1>5 DEF Selected
  <2> DEFINE v == [r \in {} |-> r.datum[q.fields[j]]]
  <2>2. SumOver(q.fields[j], {}) = SumTable(v, {})[{}]
    BY SumOverIs
  <2>3. SumTable(v, {})[{}] = 0
    <3>1. v \in [{} -> Int] /\ IsFiniteSet({})
      BY FS_EmptySet
    <3> HIDE DEF v
    <3>2. SumTable(v, {}) = SumStep(v, {}, SumTable(v, {}))
      BY <3>1, SumTableEquation
    <3> QED BY <3>2 DEF SumStep
  <2>4. execute(data, q).value[j] = 0
    <3> HIDE DEF wrong, fails, sums
    <3> QED BY <1>1, <1>2, <1>3, <1>5 DEF Answer
  <2>5. (0 - 0) % (2 * Half) = 0
    <3>1. ((2 * Half) * 0) % (2 * Half) = 0
      BY <1>4, MultipleRemainder
    <3>2. (2 * Half) * 0 = 0 - 0
      BY <1>4
    <3> QED BY <3>1, <3>2
  <2> QED BY <1>4, <2>1, <2>2, <2>3, <2>4, <2>5
<1>6. ASSUME ~Refused(q), ~Contradicts(q.cond), NEW j \in DOMAIN q.fields
      PROVE  LET x == execute(data, q).value[j]
             IN  x \in Value /\ (x - SumOver(q.fields[j], Selected(q))) % (2 * Half) = 0
  <2> DEFINE f == q.fields[j]
             v == [r \in Members(found) |-> r.datum[f]]
             n == SumFold(found, f)
  <2>1. found \in Seq(Row) /\ Members(found) = Selected(q) /\ KeysDiffer(found)
    BY <1>6, FoundIs
  <2>2. HaveField(found, f)
    BY <1>6, OthersRefused, FoundHave
  <2>3. execute(data, q).value[j] = ToValue(n)
    <3>1. execute(data, q).value = sums
      <4> HIDE DEF wrong, fails, sums
      <4> QED BY <1>1, <1>2, <1>3, <1>6 DEF Answer
    <3> QED BY <3>1
  <2> HIDE DEF found, f
  <2>4. Once(found)
    BY <2>1 DEF KeysDiffer, Once
  <2>5. n = SumTable(v, Members(found))[Members(found)] /\ n \in Int
    BY <2>1, <2>2, <2>4, SumLoopIs
  <2>6. SumOver(f, Selected(q)) = n
    <3>1. SumOver(f, Members(found)) = SumTable(v, Members(found))[Members(found)]
      BY SumOverIs
    <3> QED BY <2>1, <2>5, <3>1
  <2> HIDE DEF n, v
  <2>7. ToValue(n) \in Value /\ (ToValue(n) - n) % (2 * Half) = 0
    BY <2>5, ToValueExact
  <2> QED BY <2>3, <2>6, <2>7 DEF f
<1> HIDE DEF wrong, fails, sums, found
<1>7. Refused(q) => execute(data, q) = Error
  BY <1>1, <1>2, <1>3
<1> QED BY <1>5, <1>6, <1>7

\* What the loop of MIN or MAX leaves for a field.
ExtremeFold(kind, rows, f) == IF kind = "Min" THEN MinFold(rows, f) ELSE MaxFold(rows, f)

\* MIN and MAX answer values that occur in the rows found and that no row found passes.
LEMMA ExtremeAnswer ==
    ASSUME TableTInv, Quiet, NEW q \in Reads, q.type \in {"Min", "Max"}
    PROVE  /\ Refused(q) => execute(data, q) = Error
           /\ ~Refused(q) /\ Selected(q) = {} => execute(data, q) = Null
           /\ ~Refused(q) /\ Selected(q) # {} => \A j \in DOMAIN q.fields :
                 LET m == execute(data, q).value[j]
                 IN  /\ \E r \in Selected(q) : r.datum[q.fields[j]] = m
                     /\ \A r \in Selected(q) : IF q.type = "Min" THEN m <= r.datum[q.fields[j]]
                                               ELSE m >= r.datum[q.fields[j]]
<1> DEFINE found == Matching(data, q.cond)
           extremes == [j \in DOMAIN q.fields |-> ExtremeFold(q.type, found, q.fields[j])]
           wrong == q.fields = <<>> \/ Unknown(q.fields) \/ IllFormed(q.cond)
           fails == LoopThrows(data, q.cond, q.fields)
           answer == IF wrong THEN Error
                     ELSE IF Contradicts(q.cond) THEN Null
                     ELSE IF fails THEN Error
                     ELSE IF found = <<>> THEN Null
                     ELSE Answer(extremes)
<1>1. execute(data, q) = answer
  <2>1. CASE q.type = "Min"
    <3>1. execute(data, q) = MinOf(data, q)
      BY <2>1 DEF execute
    <3>2. extremes = [j \in DOMAIN q.fields |-> MinFold(found, q.fields[j])]
      BY <2>1 DEF ExtremeFold
    <3> HIDE DEF extremes
    <3>3. MinOf(data, q) = answer
      BY <3>2, Zenon DEF MinOf, Extreme, Loop, MinFold, ValueTypeMax
    <3> QED BY <3>1, <3>3
  <2>2. CASE q.type = "Max"
    <3>1. execute(data, q) = MaxOf(data, q)
      BY <2>2 DEF execute
    <3>2. extremes = [j \in DOMAIN q.fields |-> MaxFold(found, q.fields[j])]
      BY <2>2 DEF ExtremeFold
    <3> HIDE DEF extremes
    <3>3. MaxOf(data, q) = answer
      BY <3>2, Zenon DEF MaxOf, Extreme, Loop, MaxFold, ValueTypeMin
    <3> QED BY <3>1, <3>3
  <2> QED BY <2>1, <2>2
<1>2. Refused(q) <=> wrong \/ (~Contradicts(q.cond) /\ fails)
  BY OthersRefused
<1>3. Contradicts(q.cond) => Selected(q) = {}
  BY DEF Selected
<1>4. ASSUME ~Contradicts(q.cond)
      PROVE  found \in Seq(Row) /\ Members(found) = Selected(q)
  BY <1>4, FoundIs
<1>5. ~Contradicts(q.cond) => (found = <<>> <=> Selected(q) = {})
  <2> HIDE DEF found
  <2>1. ASSUME ~Contradicts(q.cond) PROVE found = <<>> <=> Members(found) = {}
    <3>1. found \in Seq(Row)
      BY <1>4, <2>1
    <3>2. ASSUME found # <<>> PROVE found[1] \in Members(found)
      BY <3>1, <3>2 DEF Members
    <3>3. ASSUME found = <<>> PROVE Members(found) = {}
      BY <3>3 DEF Members
    <3> QED BY <3>2, <3>3
  <2> QED BY <2>1, <1>4
<1>6. ASSUME ~Refused(q), Selected(q) # {}, NEW j \in DOMAIN q.fields
      PROVE  LET m == execute(data, q).value[j]
             IN  /\ \E r \in Selected(q) : r.datum[q.fields[j]] = m
                 /\ \A r \in Selected(q) : IF q.type = "Min" THEN m <= r.datum[q.fields[j]]
                                           ELSE m >= r.datum[q.fields[j]]
  <2> DEFINE f == q.fields[j]
             m == ExtremeFold(q.type, found, f)
  <2>1. ~Contradicts(q.cond)
    BY <1>3, <1>6
  <2>2. found \in Seq(Row) /\ Members(found) = Selected(q) /\ found # <<>>
    <3> HIDE DEF found
    <3> QED BY <1>4, <1>5, <1>6, <2>1
  <2>3. HaveField(found, f)
    BY <1>6, <2>1, OthersRefused, FoundHave
  <2>4. execute(data, q).value[j] = m
    <3>1. execute(data, q).value = extremes
      <4> HIDE DEF wrong, fails, extremes, found
      <4> QED BY <1>1, <1>2, <1>6, <2>1, <2>2 DEF Answer
    <3> QED BY <3>1
  <2>5. m = LoopTable(q.type, found, f)[DOMAIN found]
    <3> HIDE DEF found, f
    <3> QED BY FoldsAreTables DEF ExtremeFold
  <2> HIDE DEF found, f, m
  <2>6. /\ \E i \in 1 .. Len(found) : found[i].datum[f] = m
        /\ Bounds(q.type, found, f, Len(found), m)
    BY <2>2, <2>3, <2>5, ExtremeLoopIs
  <2>7. \E r \in Selected(q) : r.datum[f] = m
    BY <2>2, <2>6 DEF Members
  <2>8. \A r \in Selected(q) : IF q.type = "Min" THEN m <= r.datum[f] ELSE m >= r.datum[f]
    BY <2>2, <2>6 DEF Members, Bounds
  <2> QED BY <2>4, <2>7, <2>8 DEF f
<1> HIDE DEF wrong, fails, extremes, found
<1>7. Refused(q) => execute(data, q) = Error
  BY <1>1, <1>2
<1>8. ~Refused(q) /\ Selected(q) = {} => execute(data, q) = Null
  BY <1>1, <1>2, <1>5
<1> QED BY <1>6, <1>7, <1>8

\* COUNT, SUM, MIN and MAX answer what the table's rows say as a set, whatever the
\* order deletions have left them in, and are refused exactly where no answer is due
\* (query/data/CountQuery.cpp, SumQuery.cpp, MinQuery.cpp, MaxQuery.cpp).
THEOREM AggregatesAreExact == TableSpec => []AggregatesExact
<1>1. TableTInv => AggregatesExact
  <2> SUFFICES ASSUME TableTInv, Quiet, NEW q \in Reads, q.type # "Select"
               PROVE  LET ans   == execute(data, q)
                          found == Selected(q)
                          extreme(m, f) ==
                              /\ \E r \in found : r.datum[f] = m
                              /\ \A r \in found : IF q.type = "Min" THEN m <= r.datum[f]
                                                  ELSE m >= r.datum[f]
                      IN  CASE Refused(q) -> ans = Error
                            [] ~Refused(q) /\ q.type = "Count" ->
                                  ans.value = <<Cardinality(found)>>
                            [] ~Refused(q) /\ q.type = "Sum" -> \A j \in DOMAIN q.fields :
                                  /\ ans.value[j] \in Value
                                  /\ (ans.value[j] - SumOver(q.fields[j], found)) % (2 * Half) = 0
                            [] ~Refused(q) /\ q.type \in {"Min", "Max"} /\ found = {} ->
                                  ans = Null
                            [] OTHER -> \A j \in DOMAIN q.fields :
                                           extreme(ans.value[j], q.fields[j])
    BY Zenon DEF AggregatesExact, SumOver
  <2>1. q.type \in {"Count", "Sum", "Min", "Max"}
    BY ReadsAssumption
  <2>2. CASE q.type = "Count"
    BY <2>2, CountAnswer, Zenon
  <2>3. CASE q.type = "Sum"
    BY <2>3, SumAnswer, Zenon
  <2>4. CASE q.type \in {"Min", "Max"}
    BY <2>4, ExtremeAnswer, Zenon
  <2> QED BY <2>1, <2>2, <2>3, <2>4
<1> QED BY <1>1, TableKeepsInvariants, PTL
=============================================================================
