-------------------------------- MODULE Table --------------------------------
(***************************************************************************)
(* db/Table.h, db/Table.cpp and the queries that write to a table          *)
(* (query/data): a vector of rows and the map from a key to its row's      *)
(* place in it.                                                            *)
(*                                                                         *)
(* A query runs alone on its table: it holds the table's exclusive lock,   *)
(* as module LemonDB shows.  INSERT and TRUNCATE are one step; the others  *)
(* walk over the rows, or over a list of keys, one row or key a step, so a *)
(* row that fails in the middle leaves the ones before it changed.         *)
(*                                                                         *)
(* UPDATE may give a row the KEY of another one.  The map then has one     *)
(* entry for two rows, and later calls of setKey and deleteByIndex         *)
(* dereference the end iterator or an invalid one: the module follows the  *)
(* table up to that point and no further (phase "collided").               *)
(***************************************************************************)
EXTENDS Integers, Sequences, FiniteSets, FiniteSetsExt

CONSTANTS
    Keys,          \* the keys of rows
    NoKey,         \* the empty key of a statement that names none
    CopyKey,       \* key + "_copy"; NoKey: beyond the bound on keys
    NumFields,     \* the columns besides KEY
    Half,          \* 2 ^ (w - 1), for the w bits of Table::ValueType
    MaxRows,       \* bound: rows of the table
    Statements     \* the queries a client may send

Value == -Half .. (Half - 1)

\* Mutant: the number is kept as it is.
ToValueAsIs(n) == n

\* static_cast<int> of a wider number.
ToValue(n) == ((n + Half) % (2 * Half)) - Half

Row == [key : Keys, datum : Seq(Value)]

\* A condition on KEY has field 0; a field beyond NumFields does not exist.  Values have
\* no field 0 (getFieldIndex does not know KEY).
Condition == [field : Nat, op : {"<", "<=", "=", ">=", ">"},
              key : Keys \cup {NoKey}, val : Value]

Statement == [type : {"Insert", "Delete", "Duplicate", "UpdateKey", "Update", "Add",
                      "Sub", "Swap", "Truncate", "Nop"},
              cond : Seq(Condition),
              key : Keys \cup {NoKey}, datum : Seq(Value),
              src : Seq(Nat \ {0}), dst : Nat \ {0}, val : Value]

NoStatement == [type |-> "Nop", cond |-> <<>>, key |-> NoKey, datum |-> <<>>,
                src |-> <<>>, dst |-> 1, val |-> 0]

ASSUME TableAssumption ==
    /\ NumFields \in Nat /\ Half \in Nat \ {0} /\ MaxRows \in Nat
    /\ NoKey \notin Keys
    /\ CopyKey \in [Keys -> Keys \cup {NoKey}]
    /\ \A j, k \in Keys : CopyKey[j] = CopyKey[k] /\ CopyKey[j] # NoKey => j = k
    /\ \A k \in Keys : CopyKey[k] # k
    /\ Statements \subseteq Statement
    /\ \A s \in Statements :
          /\ s.type \in {"Insert", "UpdateKey"} => s.key \in Keys
          /\ s.type \in {"Add", "Sub"} => s.src # <<>>
          /\ s.type = "Swap" => Len(s.src) = 1

VARIABLES
    data,      \* Table::data
    keyMap,    \* Table::keyMap; places count from 1, 0 stands for no entry
    stmt,      \* the statement that executes, or the last one
    phase,     \* what remains of it: rows to visit, keys to treat, nothing
    cursor,    \* the next row
    todo,      \* the keys that DELETE or DUPLICATE collected and has not treated
    counter,   \* how many rows it has changed
    failed,    \* it ended with an error
    before     \* history: the table when it started

queryVars == <<stmt, phase, cursor, todo, counter, failed, before>>
tvars == <<data, keyMap, queryVars>>

TableTypeOK ==
    /\ data \in Seq(Row)
    /\ keyMap \in [Keys -> Nat]
    /\ stmt \in Statement
    /\ phase \in {"idle", "collect", "keys", "rows", "collided"}
    /\ cursor \in Nat \ {0}
    /\ todo \in Seq(Keys)
    /\ counter \in Nat
    /\ failed \in BOOLEAN
    /\ before \in Seq(Row)

TableInit ==
    /\ data = <<>> /\ keyMap = [k \in Keys |-> 0]
    /\ stmt = NoStatement /\ phase = "idle"
    /\ cursor = 1 /\ todo = <<>> /\ counter = 0 /\ failed = FALSE
    /\ before = <<>>

-----------------------------------------------------------------------------
(* Conditions.                                                             *)

Compare(op, a, b) == CASE op = "<"  -> a < b
                       [] op = "<=" -> a <= b
                       [] op = "="  -> a = b
                       [] op = ">=" -> a >= b
                       [] op = ">"  -> a > b

Holds(c, row) == IF c.field = 0 THEN row.key = c.key
                 ELSE /\ c.field <= Len(row.datum)
                      /\ Compare(c.op, row.datum[c.field], c.val)

\* initCondition finds two different keys, and no row is visited.
Contradicts(cond) ==
    \E i, j \in DOMAIN cond :
        cond[i].field = 0 /\ cond[j].field = 0 /\ cond[i].key # cond[j].key

\* initCondition throws before that: KEY is not compared for equality, or a field
\* does not exist.
IllFormed(cond) ==
    \E i \in DOMAIN cond :
        /\ \/ cond[i].field = 0 /\ cond[i].op # "="
           \/ cond[i].field > NumFields
        /\ ~Contradicts(SubSeq(cond, 1, i - 1))

\* evalCondition: the conditions are evaluated from the left up to the first that
\* does not hold; to read a field the row has not throws.
evalCondition(cond, row) == \A i \in DOMAIN cond : Holds(cond[i], row)

EvalThrows(cond, row) ==
    \E i \in DOMAIN cond : /\ cond[i].field > Len(row.datum)
                           /\ \A j \in 1 .. (i - 1) : Holds(cond[j], row)

-----------------------------------------------------------------------------
(* The operations of Table.                                                *)

Start(s) ==
    /\ phase = "idle"
    /\ stmt' = s
    /\ before' = data

End(n, err) ==
    /\ phase' = "idle"
    /\ counter' = n
    /\ failed' = err
    /\ cursor' = 1
    /\ todo' = <<>>

\* The statement starts to visit the rows.
Begin(p) ==
    /\ phase' = p
    /\ cursor' = 1 /\ todo' = <<>> /\ counter' = 0 /\ failed' = FALSE

\* insertByIndex; the caller has seen that the key is free.
PushBack(k, datum) ==
    /\ keyMap' = [keyMap EXCEPT ![k] = Len(data) + 1]
    /\ data' = Append(data, [key |-> k, datum |-> datum])

\* Mutant: the row is added before the key is looked up.
InsertThenCheck(s) ==
    /\ s.type = "Insert" /\ Len(data) < MaxRows
    /\ Start(s)
    /\ data' = Append(data, [key |-> s.key, datum |-> s.datum])
    /\ keyMap' = [keyMap EXCEPT ![s.key] = Len(data) + 1]
    /\ End(1, keyMap[s.key] # 0)

\* InsertQuery::execute accepts any number of values.
Insert(s) ==
    /\ s.type = "Insert" /\ Len(data) < MaxRows
    /\ Start(s)
    /\ \/ /\ keyMap[s.key] = 0
          /\ PushBack(s.key, s.datum)
          /\ End(1, FALSE)
       \/ /\ keyMap[s.key] # 0
          /\ End(0, TRUE)
          /\ UNCHANGED <<data, keyMap>>

\* Table::clear
Truncate(s) ==
    /\ s.type = "Truncate"
    /\ Start(s)
    /\ data' = <<>>
    /\ keyMap' = [k \in Keys |-> 0]
    /\ End(0, FALSE)

PopBack(rows) == SubSeq(rows, 1, Len(rows) - 1)

\* Mutant: the entry of the row that moves is not updated.
deleteInPlace(k) ==
    LET d == keyMap[k]
    IN  /\ data' = PopBack([data EXCEPT ![d] = data[Len(data)]])
        /\ keyMap' = [keyMap EXCEPT ![k] = 0]

\* The last row takes the place of the deleted one.
deleteByIndex(k) ==
    LET d    == keyMap[k]
        last == data[Len(data)]
    IN  IF d = 0 THEN UNCHANGED <<data, keyMap>>
        ELSE /\ data' = PopBack([data EXCEPT ![d] = last])
             /\ keyMap' = [keyMap EXCEPT ![last.key] = d, ![k] = 0]

\* A copy of the row at key src, if there is one and key dst is free.
CanDuplicate(src, dst) == keyMap[dst] = 0 /\ keyMap[src] # 0

duplicateByKey(src, dst) ==
    IF CanDuplicate(src, dst) THEN PushBack(dst, data[keyMap[src]].datum)
    ELSE UNCHANGED <<data, keyMap>>

-----------------------------------------------------------------------------
(* DELETE and DUPLICATE collect keys first and treat them one by one.      *)

\* Bound: the copies that DUPLICATE makes have keys in Keys, and there is room.
CopiesInBound(s) ==
    LET wanted == {i \in DOMAIN data : evalCondition(s.cond, data[i])}
    IN  s.type = "Duplicate" =>
            /\ \A i \in wanted : CopyKey[data[i].key] # NoKey
            /\ Len(data) + Cardinality(wanted) <= MaxRows

Collect(s) ==
    /\ s.type \in {"Delete", "Duplicate"}
    /\ Start(s)
    /\ CopiesInBound(s)
    /\ \/ IllFormed(s.cond) /\ End(0, TRUE)
       \/ ~IllFormed(s.cond) /\ Contradicts(s.cond) /\ End(0, FALSE)
       \/ ~IllFormed(s.cond) /\ ~Contradicts(s.cond) /\ Begin("collect")
    /\ UNCHANGED <<data, keyMap>>

\* The statement goes on with the next row.
NextRow(n) ==
    /\ cursor' = cursor + 1
    /\ counter' = counter + n
    /\ UNCHANGED <<stmt, phase, failed, before>>

\* A row whose copy exists already is not copied.
Wants(row) ==
    /\ evalCondition(stmt.cond, row)
    /\ stmt.type = "Duplicate" => keyMap[CopyKey[row.key]] = 0

CollectRow ==
    LET row == data[cursor]
    IN  /\ phase = "collect" /\ cursor <= Len(data)
        /\ \/ /\ EvalThrows(stmt.cond, row)
              /\ End(0, TRUE)
              /\ UNCHANGED <<stmt, before>>
           \/ /\ ~EvalThrows(stmt.cond, row)
              /\ todo' = IF Wants(row) THEN Append(todo, row.key) ELSE todo
              /\ NextRow(0)
        /\ UNCHANGED <<data, keyMap>>

CollectDone ==
    /\ phase = "collect" /\ cursor > Len(data)
    /\ phase' = "keys"
    /\ UNCHANGED <<data, keyMap, stmt, cursor, todo, counter, failed, before>>

\* The statement goes on with the next key.
NextKey(n) ==
    /\ todo' = Tail(todo)
    /\ counter' = counter + n
    /\ UNCHANGED <<stmt, phase, cursor, failed, before>>

DeleteKey ==
    LET k == Head(todo)
    IN  /\ phase = "keys" /\ stmt.type = "Delete" /\ todo # <<>>
        /\ deleteByIndex(k)
        /\ NextKey(IF keyMap[k] # 0 THEN 1 ELSE 0)

DuplicateKey ==
    LET k == Head(todo)
    IN  /\ phase = "keys" /\ stmt.type = "Duplicate" /\ todo # <<>>
        /\ duplicateByKey(k, CopyKey[k])
        /\ NextKey(IF CanDuplicate(k, CopyKey[k]) THEN 1 ELSE 0)

KeysDone ==
    /\ phase = "keys" /\ todo = <<>>
    /\ End(counter, FALSE)
    /\ UNCHANGED <<data, keyMap, stmt, before>>

-----------------------------------------------------------------------------
(* UPDATE, ADD, SUB and SWAP visit the rows one by one.                    *)

RowTypes == {"UpdateKey", "Update", "Add", "Sub", "Swap"}

\* The fields a statement names.
FieldsNamed(s) == CASE s.type = "UpdateKey" -> {}
                    [] s.type = "Update" -> {s.dst}
                    [] OTHER -> {s.dst} \cup {s.src[i] : i \in DOMAIN s.src}

\* It names a field that does not exist, or its condition is ill-formed.
RefusedAtOnce(s) == IllFormed(s.cond) \/ \E f \in FieldsNamed(s) : f > NumFields

StartRows(s) ==
    /\ s.type \in RowTypes
    /\ Start(s)
    /\ \/ RefusedAtOnce(s) /\ End(0, TRUE)
       \/ ~RefusedAtOnce(s) /\ Contradicts(s.cond) /\ End(0, FALSE)
       \/ ~RefusedAtOnce(s) /\ ~Contradicts(s.cond) /\ Begin("rows")
    /\ UNCHANGED <<data, keyMap>>

\* The sum of the fields src[i], src[i + 1], ... of a row, in 64 bits.
SumFrom(datum, src, i) == MapThenSumSet(LAMBDA j : datum[src[j]], i .. Len(src))

\* What ADD, SUB and SWAP make of the values of a row.
Added(s, datum) == [datum EXCEPT ![s.dst] = ToValue(SumFrom(datum, s.src, 1))]

Subtracted(s, datum) ==
    [datum EXCEPT ![s.dst] = ToValue(datum[s.src[1]] - SumFrom(datum, s.src, 2))]

\* Mutant: the other field is lost.
SwapOnce(s, datum) == [datum EXCEPT ![s.dst] = datum[s.src[1]]]

\* SWAP of a field with itself only counts the row.
Swapped(s, datum) ==
    IF s.src[1] = s.dst THEN datum
    ELSE [datum EXCEPT ![s.dst] = datum[s.src[1]], ![s.src[1]] = datum[s.dst]]

\* The values of a row that the statement changes.
Written(s, datum) ==
    CASE s.type = "Update" -> [datum EXCEPT ![s.dst] = s.val]
      [] s.type = "Add" -> Added(s, datum)
      [] s.type = "Sub" -> Subtracted(s, datum)
      [] s.type = "Swap" -> Swapped(s, datum)

\* Mutant: the entry keeps the old key.
setRowKey(i, k) == data' = [data EXCEPT ![i].key = k] /\ UNCHANGED keyMap

\* Object::setKey, for a row whose key is in the map: erase, then emplace, which
\* does nothing if the new key is there.
setKey(i, k) ==
    LET erased == [keyMap EXCEPT ![data[i].key] = 0]
    IN  /\ keyMap' = IF erased[k] = 0 THEN [erased EXCEPT ![k] = keyMap[data[i].key]]
                     ELSE erased
        /\ data' = [data EXCEPT ![i].key = k]

\* The fields it reads or writes in a row.
FieldsUsed(s) == IF s.type = "Swap" /\ s.src[1] = s.dst THEN {} ELSE FieldsNamed(s)

RowThrows(s, row) ==
    \/ EvalThrows(s.cond, row)
    \/ /\ evalCondition(s.cond, row)
       /\ \E f \in FieldsUsed(s) : f > Len(row.datum)

\* What UPDATE of KEY does not check: the new key is that of another row.
Collides(i, k) == keyMap[k] \notin {0, i}

VisitRow ==
    LET row == data[cursor]
        wanted == evalCondition(stmt.cond, row)
    IN  /\ phase = "rows" /\ cursor <= Len(data)
        /\ \/ /\ RowThrows(stmt, row)
              /\ End(counter, TRUE)
              /\ UNCHANGED <<data, keyMap, stmt, before>>
           \/ /\ ~RowThrows(stmt, row) /\ ~wanted
              /\ NextRow(0)
              /\ UNCHANGED <<data, keyMap, todo>>
           \/ /\ ~RowThrows(stmt, row) /\ wanted /\ stmt.type # "UpdateKey"
              /\ data' = [data EXCEPT ![cursor].datum = Written(stmt, @)]
              /\ NextRow(1)
              /\ UNCHANGED <<keyMap, todo>>
           \/ /\ ~RowThrows(stmt, row) /\ wanted /\ stmt.type = "UpdateKey"
              /\ setKey(cursor, stmt.key)
              /\ cursor' = cursor + 1
              /\ counter' = counter + 1
              /\ phase' = IF Collides(cursor, stmt.key) THEN "collided" ELSE phase
              /\ UNCHANGED <<stmt, todo, failed, before>>

RowsDone ==
    /\ phase = "rows" /\ cursor > Len(data)
    /\ End(counter, FALSE)
    /\ UNCHANGED <<data, keyMap, stmt, before>>

StartStatement ==
    \E s \in Statements : \/ Insert(s) \/ Truncate(s) \/ Collect(s) \/ StartRows(s)

TableNext == \/ StartStatement
             \/ CollectRow \/ CollectDone \/ DeleteKey \/ DuplicateKey
             \/ KeysDone \/ VisitRow \/ RowsDone
             \/ phase = "collided" /\ UNCHANGED tvars

TableSpec == TableInit /\ [][TableNext]_tvars

-----------------------------------------------------------------------------
(* Properties.                                                             *)

\* The map and the vector agree after every row that is moved, added, renamed or
\* deleted: a key has at most one row, and the map knows its place.
KeyMapExact ==
    phase # "collided" =>
        /\ \A k \in Keys :
              keyMap[k] # 0 => keyMap[k] \in DOMAIN data /\ data[keyMap[k]].key = k
        /\ \A i \in DOMAIN data : keyMap[data[i].key] = i

\* The rows that a statement is about, as it finds them.
Wanted(rows, s) ==
    {i \in DOMAIN rows : ~Contradicts(s.cond) /\ evalCondition(s.cond, rows[i])}

\* ... those among them that DUPLICATE copies.
Copied(rows, s) ==
    {i \in Wanted(rows, s) : \A j \in DOMAIN rows : rows[j].key # CopyKey[rows[i].key]}

\* The sum or the difference that ADD or SUB is to compute.
ExactSum(s, row) ==
    LET sign(i) == IF s.type = "Sub" /\ i > 1 THEN -1 ELSE 1
    IN  MapThenSumSet(LAMBDA i : sign(i) * row.datum[s.src[i]], DOMAIN s.src)

\* The value of field f in a row that a statement on values has changed: the sum or
\* the difference modulo 2 * Half, the value given, or that of the other field.
FieldAfter(s, row, f) ==
    CASE f = s.dst /\ s.type = "Update" -> s.val
      [] f = s.dst /\ s.type \in {"Add", "Sub"} ->
            CHOOSE v \in Value : (v - ExactSum(s, row)) % (2 * Half) = 0
      [] f = s.dst /\ s.type = "Swap" -> row.datum[s.src[1]]
      [] f # s.dst /\ s.type = "Swap" /\ f = s.src[1] -> row.datum[s.dst]
      [] OTHER -> row.datum[f]

Changed(s, row) == [row EXCEPT !.datum = [f \in DOMAIN @ |-> FieldAfter(s, row, f)]]

\* What a statement makes of the table, all rows at once and in no order.
Expected(rows, s) ==
    LET all == {rows[i] : i \in DOMAIN rows}
        old == {rows[i] : i \in Wanted(rows, s)}
    IN  CASE s.type = "Insert" -> all \cup {[key |-> s.key, datum |-> s.datum]}
          [] s.type = "Truncate" -> {}
          [] s.type = "Delete" -> all \ old
          [] s.type = "Duplicate" ->
                all \cup {[rows[i] EXCEPT !.key = CopyKey[@]] : i \in Copied(rows, s)}
          [] s.type = "UpdateKey" ->
                (all \ old) \cup {[r EXCEPT !.key = s.key] : r \in old}
          [] OTHER -> (all \ old) \cup {Changed(s, r) : r \in old}

\* A statement that succeeds has done to the table what it says, although it deletes
\* and adds rows while others change place, and its counter is the number of rows it
\* found.
StatementEffect ==
    phase = "idle" /\ ~failed /\ stmt.type # "Nop" =>
        /\ {data[i] : i \in DOMAIN data} = Expected(before, stmt)
        /\ stmt.type \in RowTypes \cup {"Delete"} =>
              counter = Cardinality(Wanted(before, stmt))
        /\ stmt.type = "Duplicate" => counter = Cardinality(Copied(before, stmt))

\* INSERT, DELETE and DUPLICATE are atomic: when one fails, on a key that exists or
\* on a row too short for the condition, the table is as it was.
FailureAtomic ==
    phase = "idle" /\ failed /\ stmt.type \in {"Insert", "Delete", "Duplicate"} =>
        data = before

\* What a statement that visits the rows makes of one that it is about.
After(s, r) == IF s.type = "UpdateKey" THEN [r EXCEPT !.key = s.key] ELSE Changed(s, r)

\* UPDATE, ADD, SUB and SWAP are not atomic.  One that fails for a row stops at the
\* first row that is too short for it: the rows in front of that one are changed in
\* full, it and those behind it are not, and no row moves.  One that is refused at
\* once changes nothing.
FailedUpdateStops ==
    phase = "idle" /\ failed /\ stmt.type \in RowTypes =>
        \/ RefusedAtOnce(stmt) /\ data = before
        \/ \E c \in DOMAIN before :
              /\ RowThrows(stmt, before[c])
              /\ \A i \in DOMAIN before : i < c => ~RowThrows(stmt, before[i])
              /\ DOMAIN data = DOMAIN before
              /\ \A i \in DOMAIN before :
                    data[i] = IF i < c /\ i \in Wanted(before, stmt)
                              THEN After(stmt, before[i]) ELSE before[i]
=============================================================================
