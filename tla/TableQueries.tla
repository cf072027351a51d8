----------------------------- MODULE TableQueries -----------------------------
(***************************************************************************)
(* The queries that read one table (query/data/SelectQuery.cpp,            *)
(* CountQuery.cpp, SumQuery.cpp, MinQuery.cpp, MaxQuery.cpp) and the two   *)
(* that write it to a file and read it back, on every table the statements *)
(* of module Table can make.                                               *)
(*                                                                         *)
(* They do not change the table, so each is a function of its rows, in the *)
(* order in which the rows lie: that order depends on what was deleted     *)
(* before (deleteByIndex), and what a query answers must not.              *)
(***************************************************************************)
EXTENDS Table, SequencesExt

CONSTANTS
    Reads,         \* the queries considered: [type, fields, cond]
    KeyRank,       \* the place of a key in lexical order
    NameWidth,     \* the length of the name of each field
    ColumnWidth    \* the width DUMP gives a column

ASSUME ReadsAssumption ==
    /\ Reads \subseteq [type : {"Select", "Count", "Sum", "Min", "Max"},
                        fields : Seq(Nat), cond : Seq(Condition)]
    /\ KeyRank \in [Keys -> Nat]
    /\ \A j, k \in Keys : KeyRank[j] = KeyRank[k] => j = k
    /\ NameWidth \in [1 .. NumFields -> Nat] /\ ColumnWidth \in Nat

-----------------------------------------------------------------------------
(* SELECT, COUNT, SUM, MIN, MAX.  Field 0 is KEY.                          *)

ValueTypeMax == Half - 1
ValueTypeMin == -Half

Error     == [status |-> "error"]
Null      == [status |-> "null"]
Answer(v) == [status |-> "answer", value |-> v]

Unknown(fields) == \E i \in DOMAIN fields : fields[i] \notin 1 .. NumFields

Matching(rows, cond) ==
    FoldLeft(LAMBDA found, row : IF evalCondition(cond, row) THEN Append(found, row)
                                 ELSE found, <<>>, rows)

\* The loop over the rows throws: at a condition or at a field that the row has not.
LoopThrows(rows, cond, fields) ==
    \E i \in DOMAIN rows :
        \/ EvalThrows(cond, rows[i])
        \/ /\ evalCondition(cond, rows[i])
           /\ \E j \in DOMAIN fields : fields[j] > Len(rows[i].datum)

\* What a loop computes for each field, in the order of the rows.
Loop(rows, fields, op(_, _), base) ==
    [j \in DOMAIN fields |->
        FoldLeft(LAMBDA acc, row : op(acc, row.datum[fields[j]]), base, rows)]

Line(row, fields) == <<row.key>> \o [j \in DOMAIN fields |-> row.datum[fields[j]]]

\* Mutant: the lines are shown in the order of the rows.
LinesAsFound(lines) == lines

\* std::ranges::sort puts the lines into an order that ascends.
Ascends(lines, order) ==
    \A i, j \in DOMAIN lines :
        i < j => KeyRank[lines[order[i]][1]] <= KeyRank[lines[order[j]][1]]

SortLines(lines) ==
    LET order == CHOOSE p \in Bijection(DOMAIN lines, DOMAIN lines) : Ascends(lines, p)
    IN  [i \in DOMAIN lines |-> lines[order[i]]]

\* Conditions that contradict each other are noticed before the fields are looked up.
Select(rows, q) ==
    LET fields == Tail(q.fields)
        found  == Matching(rows, q.cond)
    IN  IF q.fields = <<>> \/ q.fields[1] # 0 \/ IllFormed(q.cond) THEN Error
        ELSE IF Contradicts(q.cond) THEN Answer(<<>>)
        ELSE IF Unknown(fields) \/ LoopThrows(rows, q.cond, fields) THEN Error
        ELSE IF found = <<>> THEN Null
        ELSE Answer(SortLines([i \in DOMAIN found |-> Line(found[i], fields)]))

Count(rows, q) ==
    IF IllFormed(q.cond) THEN Error
    ELSE IF Contradicts(q.cond) THEN Answer(<<0>>)
    ELSE IF LoopThrows(rows, q.cond, <<>>) THEN Error
    ELSE Answer(<<Len(Matching(rows, q.cond))>>)

\* The accumulators have 64 bits; the answer is cast to ValueType.
Sum(rows, q) ==
    LET sums == Loop(Matching(rows, q.cond), q.fields, LAMBDA a, v : a + v, 0)
    IN  IF q.fields = <<>> \/ Unknown(q.fields) \/ IllFormed(q.cond) THEN Error
        ELSE IF Contradicts(q.cond) THEN Answer([j \in DOMAIN q.fields |-> 0])
        ELSE IF LoopThrows(rows, q.cond, q.fields) THEN Error
        ELSE Answer([j \in DOMAIN q.fields |-> ToValue(sums[j])])

\* MIN and MAX start from the other end of ValueType; a counter tells whether any row
\* was found.
Extreme(rows, q, op(_, _), base) ==
    LET found == Matching(rows, q.cond)
    IN  IF q.fields = <<>> \/ Unknown(q.fields) \/ IllFormed(q.cond) THEN Error
        ELSE IF Contradicts(q.cond) THEN Null
        ELSE IF LoopThrows(rows, q.cond, q.fields) THEN Error
        ELSE IF found = <<>> THEN Null
        ELSE Answer(Loop(found, q.fields, op, base))

\* Mutant: the maximum starts from zero.
MaxFromZero(rows, q) == Extreme(rows, q, LAMBDA m, v : IF v > m THEN v ELSE m, 0)

MinOf(rows, q) == Extreme(rows, q, LAMBDA m, v : IF v < m THEN v ELSE m, ValueTypeMax)
MaxOf(rows, q) == Extreme(rows, q, LAMBDA m, v : IF v > m THEN v ELSE m, ValueTypeMin)

execute(rows, q) == CASE q.type = "Select" -> Select(rows, q)
                      [] q.type = "Count"  -> Count(rows, q)
                      [] q.type = "Sum"    -> Sum(rows, q)
                      [] q.type = "Min"    -> MinOf(rows, q)
                      [] q.type = "Max"    -> MaxOf(rows, q)

-----------------------------------------------------------------------------
(* DUMP and LOAD.                                                          *)

\* The length of a number in decimal.
TextWidth(n) ==
    LET digits[m \in Nat] == IF m < 10 THEN 1 ELSE 1 + digits[m \div 10]
    IN  IF n < 0 THEN 1 + digits[-n] ELSE digits[n]

\* operator<<: each cell is padded to ColumnWidth, and nothing else parts it from the
\* one before.
Glued(width) == width >= ColumnWidth

\* What LOAD can tell apart: a cell glued to the one before is part of it, except that
\* a number also ends where the sign of the next one stands.
Readable(row) ==
    \A f \in 1 .. NumFields :
        Glued(TextWidth(row.datum[f])) => f > 1 /\ row.datum[f] < 0

HeaderReadable == \A f \in 1 .. NumFields : ~Glued(NameWidth[f])

\* loadTableFromStream, of what DUMP made of the rows: a row with a value too few or
\* with a key that exists ends it, and no table is registered.  DUMP writes the first
\* NumFields values of a row, and reads past the end of a row that has fewer.
Reload(rows) ==
    IF /\ HeaderReadable
       /\ \A i \in DOMAIN rows : Readable(rows[i])
       /\ \A i, j \in DOMAIN rows : rows[i].key = rows[j].key => i = j
    THEN Answer([i \in DOMAIN rows |->
                    [rows[i] EXCEPT !.datum = SubSeq(@, 1, NumFields)]])
    ELSE Error

-----------------------------------------------------------------------------
(* Properties.                                                             *)

\* Queries run when no statement does, and not on a table that has lost its key map.
Quiet == phase = "idle"

\* The rows of the table, in no order.
Rows == {data[i] : i \in DOMAIN data}

Selected(q) == {r \in Rows : ~Contradicts(q.cond) /\ evalCondition(q.cond, r)}

Refused(q) ==
    LET fields == IF q.type = "Select" THEN Tail(q.fields)
                  ELSE IF q.type = "Count" THEN <<>> ELSE q.fields
        beyond(r) == \E f \in Range(fields) : f > Len(r.datum)
    IN  \/ q.type # "Count" /\ q.fields = <<>>
        \/ q.type = "Select" /\ q.fields[1] # 0
        \/ IllFormed(q.cond)
        \/ Unknown(fields) /\ ~(q.type = "Select" /\ Contradicts(q.cond))
        \/ /\ ~Contradicts(q.cond)
           /\ \E r \in Rows : EvalThrows(q.cond, r) \/ (r \in Selected(q) /\ beyond(r))

\* SELECT shows each row it finds once, in the lexical order of the keys, whatever
\* order deletions have left the rows in, and nothing of the others; it fails if it is
\* refused, wherever the row lies that it fails on.
SelectExact ==
    Quiet => \A q \in Reads : q.type = "Select" =>
        LET ans   == execute(data, q)
            found == Selected(q)
        IN  CASE Refused(q) -> ans = Error
              [] ~Refused(q) /\ found = {} -> ans \in {Null, Answer(<<>>)}
              [] OTHER ->
                    /\ Range(ans.value) = {Line(r, Tail(q.fields)) : r \in found}
                    /\ \A i, j \in DOMAIN ans.value :
                          i < j => KeyRank[ans.value[i][1]] < KeyRank[ans.value[j][1]]

\* COUNT, SUM, MIN and MAX answer what the rows say as a set: sums modulo 2 * Half,
\* extremes that occur, no answer of MIN and MAX without a row, an error if refused.
AggregatesExact ==
    Quiet => \A q \in Reads : q.type # "Select" =>
        LET ans   == execute(data, q)
            found == Selected(q)
            exact(f) == MapThenSumSet(LAMBDA r : r.datum[f], found)
            extreme(m, f) ==
                /\ \E r \in found : r.datum[f] = m
                /\ \A r \in found : IF q.type = "Min" THEN m <= r.datum[f]
                                    ELSE m >= r.datum[f]
        IN  CASE Refused(q) -> ans = Error
              [] ~Refused(q) /\ q.type = "Count" -> ans.value = <<Cardinality(found)>>
              [] ~Refused(q) /\ q.type = "Sum" -> \A j \in DOMAIN q.fields :
                    /\ ans.value[j] \in Value
                    /\ (ans.value[j] - exact(q.fields[j])) % (2 * Half) = 0
              [] ~Refused(q) /\ q.type \in {"Min", "Max"} /\ found = {} -> ans = Null
              [] OTHER -> \A j \in DOMAIN q.fields :
                             extreme(ans.value[j], q.fields[j])

\* LOAD refuses a file for an "Invalid row" (db/Database.cpp); a table whose rows all
\* have their values is not one, and DUMP followed by LOAD gives it back.
DumpReadsBack ==
    Quiet /\ (\A r \in Rows : Len(r.datum) = NumFields) => Reload(data) = Answer(data)
=============================================================================
