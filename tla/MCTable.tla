------------------------------ MODULE MCTable ------------------------------
(* Small instances of Table: four keys, two fields, four values.            *)
EXTENDS TableQueries

CONSTANTS a, b, aCopy, bCopy

CopyKeyDef == [k \in Keys |-> CASE k = a -> aCopy [] k = b -> bCopy [] OTHER -> NoKey]

\* Conditions: KEY = k, and field f compared with v.
KeyIs(k)       == [field |-> 0, op |-> "=", key |-> k, val |-> 0]
Field(f, o, v) == [field |-> f, op |-> o, key |-> NoKey, val |-> v]

Stmt(type, cond) == [NoStatement EXCEPT !.type = type, !.cond = cond]
InsertRow(k, d)  == [NoStatement EXCEPT !.type = "Insert", !.key = k, !.datum = d]
Calc(type, src, dst, cond) == [Stmt(type, cond) EXCEPT !.src = src, !.dst = dst]

\* Rows come, go, are copied and renamed, and their values change; some rows are too
\* short, some fields do not exist.
SomeStatements ==
    {InsertRow(a, <<1, 0>>), InsertRow(b, <<0, 1>>), InsertRow(b, <<1>>),
     Stmt("Delete", <<KeyIs(a)>>), Stmt("Delete", <<Field(1, ">=", 1)>>),
     Stmt("Delete", <<Field(2, "=", 1)>>), Stmt("Delete", <<KeyIs(a), KeyIs(b)>>),
     Stmt("Delete", <<Field(3, "=", 1)>>), Stmt("Delete", <<[KeyIs(a) EXCEPT !.op = "<"]>>),
     Stmt("Duplicate", <<KeyIs(a)>>), Stmt("Duplicate", <<Field(2, "<", 1)>>),
     Stmt("Duplicate", <<Field(1, "<=", 1)>>),
     [Stmt("UpdateKey", <<KeyIs(a)>>) EXCEPT !.key = b],
     [Stmt("UpdateKey", <<KeyIs(aCopy)>>) EXCEPT !.key = a],
     [Stmt("UpdateKey", <<Field(1, "=", 1)>>) EXCEPT !.key = bCopy],
     [Stmt("Update", <<Field(2, ">", 0)>>) EXCEPT !.dst = 1, !.val = -2],
     [Stmt("Update", <<>>) EXCEPT !.dst = 3],
     Calc("Add", <<1, 2>>, 1, <<>>), Calc("Sub", <<1, 2>>, 2, <<KeyIs(b)>>),
     Calc("Swap", <<1>>, 2, <<Field(1, "=", 1)>>), Calc("Swap", <<2>>, 2, <<>>),
     Stmt("Truncate", <<>>)}

\* Reading queries: whole tables, parts, nothing, conditions that contradict each
\* other, fields that do not exist, KEY where it may not stand, no fields.
Read(type, fields, cond) == [type |-> type, fields |-> fields, cond |-> cond]

SomeReads ==
    {Read("Select", <<0, 2>>, <<>>), Read("Select", <<0, 1, 2>>, <<Field(1, "<=", 0)>>),
     Read("Select", <<0, 3>>, <<KeyIs(a), KeyIs(b)>>), Read("Select", <<0, 3>>, <<>>),
     Read("Select", <<2, 0>>, <<>>), Read("Select", <<>>, <<KeyIs(a), KeyIs(b)>>),
     Read("Count", <<>>, <<Field(2, ">", -1)>>), Read("Count", <<>>, <<KeyIs(a)>>),
     Read("Sum", <<1, 2>>, <<>>), Read("Sum", <<2>>, <<KeyIs(a), KeyIs(b)>>),
     Read("Sum", <<0>>, <<>>), Read("Sum", <<>>, <<>>), Read("Min", <<1, 2>>, <<>>),
     Read("Max", <<2, 1>>, <<Field(1, "<", 0)>>)}

Rank == [k \in Keys |-> CASE k = a -> 1 [] k = aCopy -> 2 [] k = b -> 3 [] OTHER -> 4]

\* Fields with short names.
ShortNames == [f \in 1 .. NumFields |-> 1]
=============================================================================
