--------------------------- MODULE ExecutorProofs ---------------------------
(***************************************************************************)
(* Proofs about executeQueries and the parser it reads with.               *)
(*                                                                         *)
(* TokenShape says what parseToken leaves in a builder, and from it        *)
(* ComplexMade, with DebugMade and ManageMade, that a query that was made  *)
(* of a statement is spelt by it.  ParseStep collects what parseQuery does *)
(* to the builders and to the cache of table names.                        *)
(*                                                                         *)
(* The other way round, ComplexLaid says where the tokens of a query stand *)
(* in a statement that spells it, and TokenRead that parseToken finds them *)
(* there: PlainRead, that such a statement is read as that query.          *)
(*                                                                         *)
(* The order the files are read in is that of their levels.  ReadInLevels  *)
(* shows it of every sequence of files that is the main file and the files *)
(* these LISTEN to, none of them in front of the LISTEN that names it: the *)
(* files left to read grow fewer from level to level.                      *)
(*                                                                         *)
(* The invariant of the program, ExecutorInv, adds three parts to what is  *)
(* to be shown: NamesKnown, that the cache agrees with the DUMPs read so   *)
(* far, PrintedSoFar, how far the output has got in every phase, and       *)
(* ReadingSoFar, which files and statements have been read.                *)
(***************************************************************************)
EXTENDS Executor, Induction, SequenceTheorems

-----------------------------------------------------------------------------
(* The parser takes only tokens that are there.                            *)

\* The least member of a set of numbers.
LEMMA MinIs ==
    ASSUME NEW S \in SUBSET Nat, S # {}
    PROVE  Min(S) \in S /\ \A n \in S : Min(S) <= n
<1>1. \E n \in S : \A m \in S : n <= m
  BY SmallestOf
<1> QED BY <1>1 DEF Min

\* find: the first tok at place i or behind it, or the end.
LEMMA FindPlace ==
    ASSUME NEW t \in Text, NEW tok, NEW i \in Nat, 1 <= i, i <= Len(t) + 1
    PROVE  LET j == Find(tok, t, i)
           IN  /\ j \in i .. Len(t) + 1
               /\ j <= Len(t) => t[j] = tok
<1> DEFINE S == {j \in i .. Len(t) : t[j] = tok} \cup {Len(t) + 1}
<1>1. Len(t) \in Nat
  BY DEF Text
<1>2. S \in SUBSET Nat /\ S # {} /\ S \subseteq i .. Len(t) + 1
  BY <1>1
<1>3. Min(S) \in S
  BY <1>2, MinIs
<1>4. Find(tok, t, i) = Min(S)
  BY DEF Find
<1>5. \A j \in S : j <= Len(t) => t[j] = tok
  BY <1>1
<1> HIDE DEF S
<1> QED BY <1>2, <1>3, <1>4, <1>5

\* A part of a statement.
LEMMA PartOf ==
    ASSUME NEW t \in Text, NEW i \in Nat, NEW j \in Int, 1 <= i, j <= Len(t)
    PROVE  /\ SubSeq(t, i, j) \in Text
           /\ i <= j + 1 => Len(SubSeq(t, i, j)) = j - i + 1
           /\ \A k \in 1 .. j - i + 1 : SubSeq(t, i, j)[k] = t[i + k - 1]
<1>1. t \in Seq(STRING) /\ Len(t) \in Nat /\ \A k \in 1 .. Len(t) : t[k] \in STRING
  BY DEF Text
<1>2. SubSeq(t, i, j) \in Seq(STRING)
  BY <1>1
<1> QED BY <1>1, <1>2 DEF Text

\* A token may be a name.
LEMMA TokenIsName ==
    ASSUME NEW t \in Text, NEW k \in 1 .. Len(t)
    PROVE  t[k] \in Name
<1>1. t[k] \in STRING
  BY DEF Text
<1> QED BY <1>1, Zenon DEF Name

\* Conditions: the groups of five tokens from place i on.
IsGroup(t, o) == o + 4 <= Len(t) /\ t[o] = "(" /\ t[o + 4] = ")"
Conditions(t, i, n) == [k \in 1 .. n |-> SubSeq(t, i + 5 * (k - 1) + 1, i + 5 * (k - 1) + 3)]

LEMMA ConditionsType ==
    ASSUME NEW t \in Text, NEW i \in Nat, 1 <= i, NEW n \in Nat,
           \A k \in 0 .. n - 1 : IsGroup(t, i + 5 * k)
    PROVE  Conditions(t, i, n) \in Seq(Text)
<1>1. ASSUME NEW k \in 1 .. n
      PROVE  SubSeq(t, i + 5 * (k - 1) + 1, i + 5 * (k - 1) + 3) \in Text
  <2>1. k - 1 \in 0 .. n - 1 /\ i + 5 * (k - 1) \in Nat
    OBVIOUS
  <2>2. i + 5 * (k - 1) + 4 <= Len(t)
    BY <2>1 DEF IsGroup
  <2>3. Len(t) \in Nat
    BY DEF Text
  <2>4. /\ i + 5 * (k - 1) + 1 \in Nat /\ 1 <= i + 5 * (k - 1) + 1
        /\ i + 5 * (k - 1) + 3 \in Int /\ i + 5 * (k - 1) + 3 <= Len(t)
    BY <2>1, <2>2, <2>3
  <2> QED BY <2>4, PartOf
<1> QED BY <1>1 DEF Conditions

\* What parseWhereConditions leaves, and that it reads to the end or fails.
LEMMA WhereShape ==
    ASSUME NEW b \in Builder, NEW t \in Text, NEW i \in Nat, 1 <= i, i <= Len(t) + 1
    PROVE  \E n \in Nat :
              LET p == parseWhereConditions(b, t, i)
              IN  /\ p.builder = [b EXCEPT !.conditionToken = @ \o Conditions(t, i, n)]
                  /\ Conditions(t, i, n) \in Seq(Text)
                  /\ p.status \in {"Parsed", "IllFormed"}
                  /\ \A k \in 0 .. n - 1 : IsGroup(t, i + 5 * k)
                  /\ p.status = "Parsed" => Len(t) = i + 5 * n - 1
<1> DEFINE S == {k \in 0 .. Len(t) : ~IsGroup(t, i + 5 * k)}
           n == Min(S)
           filled == [b EXCEPT !.conditionToken = @ \o Conditions(t, i, n)]
<1>1. Len(t) \in Nat
  BY DEF Text
<1>2. Len(t) \in S
  BY <1>1 DEF IsGroup
<1>3. n \in S /\ \A k \in S : n <= k
  <2>1. S \in SUBSET Nat /\ S # {}
    BY <1>1, <1>2
  <2> HIDE DEF S
  <2> QED BY <2>1, MinIs
<1>4. n \in Nat /\ n <= Len(t)
  BY <1>1, <1>3
<1>5. \A k \in 0 .. n - 1 : IsGroup(t, i + 5 * k)
  BY <1>1, <1>3, <1>4
<1>6. n > 0 => i + 5 * (n - 1) + 4 <= Len(t)
  <2> SUFFICES ASSUME n > 0 PROVE i + 5 * (n - 1) + 4 <= Len(t)
    OBVIOUS
  <2> HIDE DEF n
  <2>1. n - 1 \in 0 .. n - 1
    BY <1>4
  <2> QED BY <1>5, <2>1 DEF IsGroup
<1>7. Conditions(t, i, n) \in Seq(Text)
  <2> HIDE DEF n
  <2> QED BY <1>4, <1>5, ConditionsType
<1>8. parseWhereConditions(b, t, i) =
         IF i + 5 * n > Len(t) THEN Parsed(filled) ELSE IllFormed(filled)
  BY DEF parseWhereConditions, IsGroup, Conditions
<1> HIDE DEF S, n
<1>9. /\ parseWhereConditions(b, t, i).builder = filled
      /\ parseWhereConditions(b, t, i).status \in {"Parsed", "IllFormed"}
      /\ parseWhereConditions(b, t, i).status = "Parsed" => i + 5 * n > Len(t)
  BY <1>8 DEF Parsed, IllFormed
<1>10. i + 5 * n > Len(t) => Len(t) = i + 5 * n - 1
  <2>1. CASE n = 0
    BY <1>1, <2>1
  <2>2. CASE n > 0
    BY <1>1, <1>4, <1>6, <2>2
  <2> QED BY <1>4, <2>1, <2>2
<1> HIDE DEF filled
<1> QED BY <1>4, <1>5, <1>7, <1>9, <1>10 DEF filled

\* The end of a statement, from place i on, spells the conditions c.
WhereIs(t, i, c) ==
    \/ i = Len(t) + 1 /\ c = <<>>
    \/ /\ i <= Len(t) /\ t[i] = "WHERE"
       /\ \E n \in Nat : /\ c = Conditions(t, i + 1, n) /\ Len(t) = i + 5 * n
                         /\ \A k \in 0 .. n - 1 : IsGroup(t, i + 1 + 5 * k)

\* r names the table behind the FROM at place i of t, and the conditions to its end.
Aimed(r, b, t, i) ==
    \E c \in Seq(Text) :
       /\ i + 1 <= Len(t)
       /\ r.builder = [b EXCEPT !.targetTable = t[i + 1], !.conditionToken = @ \o c]
       /\ WhereIs(t, i + 2, c)

LEMMA TargetShape ==
    ASSUME NEW b \in Builder, NEW t \in Text, NEW i \in Nat, 1 <= i, i <= Len(t)
    PROVE  LET p == parseTarget(b, t, i)
           IN  /\ p.builder \in Builder /\ p.status \in {"Parsed", "IllFormed"}
               /\ p.status = "Parsed" => Aimed(p, b, t, i)
<1> DEFINE p == parseTarget(b, t, i)
           named == [b EXCEPT !.targetTable = t[i + 1]]
<1>1. Len(t) \in Nat /\ \A k \in 1 .. Len(t) : t[k] \in STRING
  BY DEF Text
<1>2. CASE i + 1 > Len(t)
  <2>1. p = IllFormed(b)
    BY <1>2 DEF parseTarget
  <2> QED BY <2>1 DEF IllFormed
<1>3. ASSUME i + 1 <= Len(t) PROVE named \in Builder
  <2>1. t[i + 1] \in Name
    BY <1>1, <1>3, TokenIsName
  <2> QED BY <2>1 DEF Builder
<1>4. CASE i + 1 = Len(t)
  <2>1. p = Parsed(named)
    BY <1>1, <1>4 DEF parseTarget
  <2>2. p.builder = named /\ p.status = "Parsed"
    BY <2>1 DEF Parsed
  <2>3. <<>> \in Seq(Text) /\ WhereIs(t, i + 2, <<>>)
    BY <1>1, <1>4 DEF WhereIs
  <2>4. named = [b EXCEPT !.targetTable = t[i + 1], !.conditionToken = @ \o <<>>]
    <3>1. b.conditionToken \in Seq(Text)
      BY DEF Builder
    <3>2. b.conditionToken \o <<>> = b.conditionToken
      BY <3>1
    <3> QED BY <3>2 DEF Builder
  <2> HIDE DEF p, named
  <2>5. named \in Builder /\ i + 1 <= Len(t)
    BY <1>1, <1>3, <1>4
  <2>6. Aimed(p, b, t, i)
    BY <2>2, <2>3, <2>4, <2>5 DEF Aimed
  <2> QED BY <2>2, <2>5, <2>6 DEF p
<1>5. CASE i + 1 < Len(t) /\ t[i + 2] # "WHERE"
  <2>1. p = IllFormed(named)
    BY <1>1, <1>5 DEF parseTarget
  <2>2. named \in Builder
    BY <1>3, <1>5
  <2> QED BY <2>1, <2>2 DEF IllFormed
<1>6. CASE i + 1 < Len(t) /\ t[i + 2] = "WHERE"
  <2>1. p = parseWhereConditions(named, t, i + 3)
    BY <1>1, <1>6 DEF parseTarget
  <2>2. named \in Builder
    BY <1>3, <1>6
  <2>3. i + 3 \in Nat /\ 1 <= i + 3 /\ i + 3 <= Len(t) + 1
    BY <1>1, <1>6
  <2> HIDE DEF p, named
  <2>4. PICK n \in Nat :
           /\ p.builder = [named EXCEPT !.conditionToken = @ \o Conditions(t, i + 3, n)]
           /\ Conditions(t, i + 3, n) \in Seq(Text)
           /\ p.status \in {"Parsed", "IllFormed"}
           /\ \A k \in 0 .. n - 1 : IsGroup(t, i + 3 + 5 * k)
           /\ p.status = "Parsed" => Len(t) = i + 3 + 5 * n - 1
    BY <2>1, <2>2, <2>3, WhereShape
  <2> DEFINE c == Conditions(t, i + 3, n)
  <2>5. named.conditionToken \in Seq(Text)
    BY <2>2 DEF Builder
  <2>6. named.conditionToken \o c \in Seq(Text)
    BY <2>4, <2>5
  <2>7. p.builder \in Builder
    BY <2>2, <2>4, <2>6 DEF Builder
  <2>8. p.builder = [b EXCEPT !.targetTable = t[i + 1], !.conditionToken = @ \o c]
    BY <2>4 DEF named, Builder
  <2>9. p.status = "Parsed" => WhereIs(t, i + 2, c)
    <3> SUFFICES ASSUME p.status = "Parsed" PROVE WhereIs(t, i + 2, c)
      OBVIOUS
    <3>1. (i + 2) + 1 = i + 3 /\ Len(t) = (i + 2) + 5 * n /\ i + 2 <= Len(t)
      BY <1>1, <1>6, <2>4
    <3> QED BY <1>6, <2>4, <3>1 DEF WhereIs
  <2>10. i + 1 <= Len(t) /\ c \in Seq(Text)
    BY <1>6, <2>4
  <2> HIDE DEF c
  <2>11. p.status = "Parsed" => Aimed(p, b, t, i)
    BY <2>8, <2>9, <2>10 DEF Aimed
  <2> QED BY <2>4, <2>7, <2>11 DEF p
<1> QED BY <1>1, <1>2, <1>4, <1>5, <1>6

\* The operands o stand between the operation and the FROM at place f.
OperandsAre(t, f, o) ==
    \/ f = 2 /\ o = <<>>
    \/ /\ f >= 4 /\ t[2] = "(" /\ t[f - 1] = ")"
       /\ o = SubSeq(t, 3, f - 2)

\* r is filled with all tokens of t behind the first.
Filled(r, b, t) ==
    \E o \in Text, c \in Seq(Text), f \in 2 .. Len(t) - 1 :
       /\ r.builder = [targetTable    |-> t[f + 1],
                       operandToken   |-> b.operandToken \o o,
                       conditionToken |-> b.conditionToken \o c]
       /\ t[f] = "FROM"
       /\ OperandsAre(t, f, o) /\ WhereIs(t, f + 2, c)

\* What parseToken makes of a statement: a builder filled with its tokens, all of them
\* if it is accepted.
LEMMA TokenShape ==
    ASSUME NEW b \in Builder, NEW t \in Text, t # <<>>
    PROVE  LET p == parseToken(b, t)
           IN  /\ p.builder \in Builder
               /\ p.status \in {"Parsed", "IllFormed", "Undefined"}
               /\ p.status = "Parsed" => Filled(p, b, t)
<1> DEFINE p == parseToken(b, t)
           close == Find(")", t, 3)
           ops == SubSeq(t, 3, close - 1)
           filled == [b EXCEPT !.operandToken = @ \o ops]
           OK(r) == /\ r.builder \in Builder
                    /\ r.status \in {"Parsed", "IllFormed", "Undefined"}
                    /\ r.status = "Parsed" => Filled(r, b, t)
<1>1. /\ Len(t) \in Nat /\ Len(t) >= 1 /\ \A k \in 1 .. Len(t) : t[k] \in STRING
      /\ b.operandToken \in Text /\ b.conditionToken \in Seq(Text)
      /\ b.targetTable \in Name
  BY DEF Text, Builder
\* The tokens from FROM on, with the operands o in front of them.
<1>2. ASSUME NEW o \in Text, NEW a \in Builder, NEW f \in 2 .. Len(t),
             a = [b EXCEPT !.operandToken = @ \o o],
             t[f] = "FROM", OperandsAre(t, f, o)
      PROVE  OK(parseTarget(a, t, f))
  <2> DEFINE r == parseTarget(a, t, f)
  <2>1. 1 <= f /\ f <= Len(t) /\ f \in Nat
    BY <1>1
  <2>2. /\ r.builder \in Builder /\ r.status \in {"Parsed", "IllFormed"}
        /\ r.status = "Parsed" => Aimed(r, a, t, f)
    BY <2>1, TargetShape
  <2> HIDE DEF r
  <2>3. ASSUME r.status = "Parsed" PROVE Filled(r, b, t)
    <3>1. PICK c \in Seq(Text) :
             /\ f + 1 <= Len(t)
             /\ r.builder = [a EXCEPT !.targetTable = t[f + 1],
                                      !.conditionToken = @ \o c]
             /\ WhereIs(t, f + 2, c)
      BY <2>2, <2>3 DEF Aimed
    <3>2. a = [targetTable    |-> b.targetTable,
               operandToken   |-> b.operandToken \o o,
               conditionToken |-> b.conditionToken]
      BY <1>2 DEF Builder
    <3>3. r.builder = [targetTable    |-> t[f + 1],
                       operandToken   |-> b.operandToken \o o,
                       conditionToken |-> b.conditionToken \o c]
      BY <3>1, <3>2
    <3>4. f \in 2 .. Len(t) - 1
      BY <1>1, <3>1
    <3> QED BY <1>2, <3>1, <3>3, <3>4 DEF Filled
  <2> QED BY <2>2, <2>3 DEF r
<1>3. ASSUME NEW a \in Builder PROVE OK(IllFormed(a)) /\ OK(PastTheEnd(a))
  <2> QED BY <1>3 DEF IllFormed, PastTheEnd
<1>4. CASE Len(t) = 1
  <2>1. p = IllFormed(b)
    BY <1>4 DEF parseToken
  <2> HIDE DEF OK
  <2> QED BY <1>3, <2>1 DEF OK, p
<1>5. CASE Len(t) > 1 /\ t[2] = "FROM"
  <2>1. p = parseTarget(b, t, 2)
    BY <1>1, <1>5 DEF parseToken
  <2>2. b = [b EXCEPT !.operandToken = @ \o <<>>] /\ <<>> \in Text
    <3>1. b.operandToken \o <<>> = b.operandToken /\ <<>> \in Text
      BY <1>1 DEF Text
    <3> QED BY <3>1 DEF Builder
  <2>3. OperandsAre(t, 2, <<>>) /\ 2 \in 2 .. Len(t)
    BY <1>1, <1>5 DEF OperandsAre
  <2> HIDE DEF OK, p
  <2>4. OK(p)
    BY <1>2, <1>5, <2>1, <2>2, <2>3
  <2> QED BY <2>4, Zenon DEF OK, p
<1>6. CASE Len(t) = 2 /\ t[2] = "("
  <2>1. p = PastTheEnd(b)
    BY <1>1, <1>6 DEF parseToken
  <2> HIDE DEF OK
  <2> QED BY <1>3, <2>1 DEF OK, p
<1>7. CASE Len(t) > 1 /\ t[2] # "FROM" /\ t[2] # "("
  <2>1. p = IllFormed(b)
    BY <1>1, <1>7 DEF parseToken
  <2> HIDE DEF OK
  <2> QED BY <1>3, <2>1 DEF OK, p
<1>8. CASE Len(t) > 2 /\ t[2] = "("
  <2>1. close \in 3 .. Len(t) + 1 /\ (close <= Len(t) => t[close] = ")")
    <3>1. 3 \in Nat /\ 1 <= 3 /\ 3 <= Len(t) + 1
      BY <1>1, <1>8
    <3> QED BY <3>1, FindPlace
  <2>2. p = IF close >= Len(t) \/ t[close + 1] # "FROM" THEN IllFormed(filled)
            ELSE parseTarget(filled, t, close + 1)
    BY <1>1, <1>8 DEF parseToken
  <2> HIDE DEF close, p, OK
  <2>3. ops \in Text
    <3>1. 3 \in Nat /\ close - 1 \in Int /\ 1 <= 3 /\ close - 1 <= Len(t)
      BY <1>1, <2>1
    <3> QED BY <3>1, PartOf
  <2> HIDE DEF ops
  <2>4. filled \in Builder
    <3>1. b.operandToken \o ops \in Text
      BY <1>1, <2>3 DEF Text
    <3> QED BY <3>1 DEF Builder
  <2>5. OK(p)
    <3>1. CASE close >= Len(t) \/ t[close + 1] # "FROM"
      BY <1>3, <2>2, <2>4, <3>1
    <3>2. CASE close < Len(t) /\ t[close + 1] = "FROM"
      <4>1. close + 1 \in 2 .. Len(t) /\ (close + 1) - 1 = close
            /\ (close + 1) - 2 = close - 1 /\ close + 1 >= 4
        BY <1>1, <2>1, <3>2
      <4>2. t[close] = ")"
        BY <1>1, <2>1, <3>2
      <4>3. OperandsAre(t, close + 1, ops)
        BY <1>8, <4>1, <4>2 DEF OperandsAre, ops
      <4>4. OK(parseTarget(filled, t, close + 1))
        BY <1>2, <2>3, <2>4, <3>2, <4>1, <4>3
      <4>5. p = parseTarget(filled, t, close + 1)
        BY <1>1, <2>1, <2>2, <3>2
      <4> QED BY <4>4, <4>5
    <3> QED BY <1>1, <2>1, <3>1, <3>2
  <2> QED BY <2>5, Zenon DEF OK, p
<1>9. \/ Len(t) = 1
      \/ Len(t) > 1 /\ t[2] = "FROM"
      \/ Len(t) = 2 /\ t[2] = "("
      \/ Len(t) > 1 /\ t[2] # "FROM" /\ t[2] # "("
      \/ Len(t) > 2 /\ t[2] = "("
  <2>1. /\ Len(t) = 1 \/ Len(t) > 1
        /\ Len(t) > 1 => Len(t) = 2 \/ Len(t) > 2
    <3>1. \A n \in Nat : n >= 1 => (n = 1 \/ n > 1) /\ (n > 1 => n = 2 \/ n > 2)
      OBVIOUS
    <3> QED BY <1>1, <3>1, Zenon
  <2> QED BY <2>1, Zenon
<1> QED BY <1>4, <1>5, <1>6, <1>7, <1>8, <1>9, Zenon

-----------------------------------------------------------------------------
(* What the builders make is a query, and the statement spells it.         *)

\* Two statements of the same tokens.
LEMMA SameText ==
    ASSUME NEW s \in Text, NEW t \in Text, Len(s) = Len(t),
           \A k \in 1 .. Len(t) : s[k] = t[k]
    PROVE  s = t
BY DEF Text

LEMMA BareType ==
    ASSUME NEW type \in QueryTypes
    PROVE  Bare(type) \in Query
<1>1. <<>> \in Text /\ <<>> \in Seq(Text) /\ "" \in Name
  BY DEF Text, Name
<1> QED BY <1>1 DEF Bare, Query

\* DebugQueryBuilder.
LEMMA DebugMade ==
    ASSUME NEW t \in Text, DebugMatches(t)
    PROVE  \E q \in Query : /\ Debug(t) = Made(q) /\ t \in Spellings(q)
                            /\ q.type \in {"List", "Quit", "PrintTable", "Listen"}
<1>1. t \in Seq(STRING) /\ Len(t) \in Nat /\ \A k \in 1 .. Len(t) : t[k] \in STRING
  BY DEF Text
<1>2. CASE t = <<"LIST">>
  <2>1. Debug(t) = Made(Bare("List"))
    BY <1>2 DEF Debug
  <2>2. Bare("List") \in Query /\ Bare("List").type = "List"
    <3>1. "List" \in QueryTypes
      BY DEF QueryTypes, ReadTypes
    <3> QED BY <3>1, BareType DEF Bare
  <2>3. t \in Spellings(Bare("List"))
    BY <1>2, <2>2 DEF Spellings
  <2> QED BY <2>1, <2>2, <2>3
<1>3. CASE t = <<"QUIT">>
  <2>1. Debug(t) = Made(Bare("Quit"))
    BY <1>3 DEF Debug
  <2>2. Bare("Quit") \in Query /\ Bare("Quit").type = "Quit"
    <3>1. "Quit" \in QueryTypes
      BY DEF QueryTypes, NullTypes
    <3> QED BY <3>1, BareType DEF Bare
  <2>3. t \in Spellings(Bare("Quit"))
    BY <1>3, <2>2 DEF Spellings
  <2> QED BY <2>1, <2>2, <2>3
<1>4. CASE Len(t) = 2 /\ t[1] = "SHOWTABLE"
  <2> DEFINE q == Of("PrintTable", t[2])
  <2>1. Debug(t) = Made(q)
    BY <1>4 DEF Debug
  <2>2. t[2] \in Name
    BY <1>1, <1>4, TokenIsName
  <2>3. q \in Query /\ q.type = "PrintTable" /\ q.table = t[2]
    <3>1. "PrintTable" \in QueryTypes
      BY DEF QueryTypes, ReadTypes
    <3>2. Bare("PrintTable") \in Query
      BY <3>1, BareType
    <3> QED BY <2>2, <3>2 DEF Of, Query, Bare
  <2>4. t = <<"SHOWTABLE", t[2]>>
    BY <1>4 DEF Text
  <2> HIDE DEF q
  <2>5. t \in Spellings(q)
    BY <2>3, <2>4 DEF Spellings
  <2> QED BY <2>1, <2>3, <2>5
<1>5. CASE Len(t) = 4 /\ t[1] = "LISTEN" /\ t[2] = "(" /\ t[4] = ")"
  <2> DEFINE q == [Bare("Listen") EXCEPT !.file = t[3]]
  <2>1. Debug(t) = Made(q)
    BY <1>5 DEF Debug
  <2>2. t[3] \in Name
    BY <1>1, <1>5, TokenIsName
  <2>3. q \in Query /\ q.type = "Listen" /\ q.file = t[3]
    <3>1. "Listen" \in QueryTypes
      BY DEF QueryTypes, NullTypes
    <3>2. Bare("Listen") \in Query
      BY <3>1, BareType
    <3> QED BY <2>2, <3>2 DEF Query, Bare
  <2>4. t = <<"LISTEN", "(", t[3], ")">>
    BY <1>5 DEF Text
  <2> HIDE DEF q
  <2>5. t \in Spellings(q)
    BY <2>3, <2>4 DEF Spellings
  <2> QED BY <2>1, <2>3, <2>5
<1> QED BY <1>2, <1>3, <1>4, <1>5 DEF DebugMatches

\* Every word means one type, and its name is the one of that type.
LEMMA WordOfManage ==
    ASSUME NEW w \in DOMAIN ManageTypes
    PROVE  Words(ManageTypes[w], ManageTypes) = w
<1>1. \A v \in DOMAIN ManageTypes : ManageTypes[v] = ManageTypes[w] => v = w
  BY DEF ManageTypes
<1> QED BY <1>1 DEF Words

LEMMA WordOfComplex ==
    ASSUME NEW w \in DOMAIN ComplexTypes
    PROVE  Words(ComplexTypes[w], ComplexTypes) = w
<1>1. \A v \in DOMAIN ComplexTypes : ComplexTypes[v] = ComplexTypes[w] => v = w
  BY DEF ComplexTypes
<1> QED BY <1>1 DEF Words

\* The cache of table names is one.
CacheTyped == DOMAIN fileTableNameMap \subseteq STRING /\ Range(fileTableNameMap) \subseteq Name

LEMMA NameOfFile ==
    ASSUME CacheTyped, NEW path
    PROVE  getFileTableName(path) \in Name
<1>1. CASE path \in DOMAIN fileTableNameMap
  BY <1>1 DEF CacheTyped, Range, getFileTableName
<1>2. CASE path \notin DOMAIN fileTableNameMap /\ path \in DOMAIN TableFile
  <2>1. TableFile[path] \in STRING
    BY <1>2, ParserAssumption DEF Range
  <2>2. TableFile[path] \in Name
    BY <2>1, Zenon DEF Name
  <2> QED BY <1>2, <2>2 DEF getFileTableName
<1>3. CASE path \notin DOMAIN fileTableNameMap /\ path \notin DOMAIN TableFile
  <2>1. "" \in Name
    BY Zenon DEF Name
  <2> QED BY <1>3, <2>1 DEF getFileTableName
<1> QED BY <1>1, <1>2, <1>3

\* What ManageTableQueryBuilder makes of the statement t.
ManageIs(q, t) ==
    \/ /\ t[1] = "LOAD" /\ q.type = "Load"
       /\ q.file = t[2] /\ q.table = getFileTableName(t[2])
    \/ /\ t[1] = "DUMP" /\ q.type = "Dump"
       /\ q.table = t[2] /\ q.file = t[3]
    \/ t[1] \notin {"LOAD", "DUMP"} /\ q.type \in {"Drop", "Truncate", "CopyTable"}

LEMMA ManageMade ==
    ASSUME NEW t \in Text, ManageTableMatches(t), CacheTyped
    PROVE  \E q \in Query : ManageTable(t) = Made(q) /\ t \in Spellings(q) /\ ManageIs(q, t)
<1> DEFINE q == Of(ManageTypes[t[1]], t[2])
<1>1. t \in Seq(STRING) /\ Len(t) \in Nat /\ \A k \in 1 .. Len(t) : t[k] \in Name
  BY TokenIsName DEF Text
<1>2. ASSUME t[1] \in DOMAIN ManageTypes
      PROVE  /\ q \in Query /\ q.type = ManageTypes[t[1]] /\ q.table = t[2]
             /\ q = [Bare(ManageTypes[t[1]]) EXCEPT !.table = t[2]]
  <2>1. ManageTypes[t[1]] \in QueryTypes
    BY <1>2 DEF ManageTypes, QueryTypes, ReadTypes, WriteTypes
  <2>2. Bare(ManageTypes[t[1]]) \in Query
    BY <2>1, BareType
  <2>3. t[2] \in Name
    BY <1>1 DEF ManageTableMatches
  <2> QED BY <2>2, <2>3 DEF Of, Bare, Query
<1>3. CASE Len(t) = 2 /\ t[1] = "LOAD"
  <2> DEFINE r == [q EXCEPT !.table = getFileTableName(t[2]), !.file = t[2]]
  <2>1. ManageTable(t) = Made(r)
    BY <1>3 DEF ManageTable
  <2>2. t[1] \in DOMAIN ManageTypes /\ ManageTypes[t[1]] = "Load"
    BY <1>3 DEF ManageTypes
  <2>3. t[2] \in Name /\ getFileTableName(t[2]) \in Name
    BY <1>1, <1>3, NameOfFile
  <2>4. /\ r \in Query /\ r.type = "Load"
        /\ r.table = getFileTableName(t[2]) /\ r.file = t[2]
    BY <1>2, <2>2, <2>3 DEF Query
  <2>5. t = <<"LOAD", t[2]>>
    BY <1>3 DEF Text
  <2> HIDE DEF r
  <2>6. t \in Spellings(r)
    BY <2>4, <2>5 DEF Spellings
  <2> QED BY <1>3, <2>1, <2>4, <2>6 DEF ManageIs
<1>4. CASE Len(t) = 3 /\ t[1] = "DUMP"
  <2> DEFINE r == [q EXCEPT !.file = t[3]]
  <2>1. ManageTable(t) = Made(r)
    BY <1>4 DEF ManageTable
  <2>2. t[1] \in DOMAIN ManageTypes /\ ManageTypes[t[1]] = "Dump"
    BY <1>4 DEF ManageTypes
  <2>3. t[3] \in Name
    BY <1>1, <1>4
  <2>4. r \in Query /\ r.type = "Dump" /\ r.table = t[2] /\ r.file = t[3]
    BY <1>2, <2>2, <2>3 DEF Query
  <2>5. t = <<"DUMP", t[2], t[3]>>
    BY <1>4 DEF Text
  <2> HIDE DEF r
  <2>6. t \in Spellings(r)
    BY <2>4, <2>5 DEF Spellings
  <2> QED BY <1>4, <2>1, <2>4, <2>6 DEF ManageIs
<1>5. CASE Len(t) = 3 /\ t[1] = "COPYTABLE"
  <2> DEFINE r == [q EXCEPT !.newTable = t[3]]
  <2>1. ManageTable(t) = Made(r)
    BY <1>5 DEF ManageTable
  <2>2. t[1] \in DOMAIN ManageTypes /\ ManageTypes[t[1]] = "CopyTable"
    BY <1>5 DEF ManageTypes
  <2>3. t[3] \in Name
    BY <1>1, <1>5
  <2>4. r \in Query /\ r.type = "CopyTable" /\ r.table = t[2] /\ r.newTable = t[3]
    BY <1>2, <2>2, <2>3 DEF Query
  <2>5. t = <<"COPYTABLE", t[2], t[3]>>
    BY <1>5 DEF Text
  <2> HIDE DEF r
  <2>6. t \in Spellings(r)
    BY <2>4, <2>5 DEF Spellings
  <2> QED BY <1>5, <2>1, <2>4, <2>6 DEF ManageIs
<1>6. CASE Len(t) = 2 /\ t[1] \in {"DROP", "TRUNCATE"}
  <2>1. ManageTable(t) = Made(q)
    BY <1>6 DEF ManageTable
  <2>2. t[1] \in DOMAIN ManageTypes /\ ManageTypes[t[1]] \in {"Drop", "Truncate"}
    BY <1>6 DEF ManageTypes
  <2>3. q \in Query /\ q.type \in {"Drop", "Truncate"} /\ q.table = t[2]
    BY <1>2, <2>2
  <2>4. Words(q.type, ManageTypes) = t[1]
    BY <1>2, <2>2, WordOfManage
  <2>5. t = <<t[1], t[2]>>
    BY <1>6 DEF Text
  <2> HIDE DEF q
  <2>6. t \in Spellings(q)
    BY <2>3, <2>4, <2>5 DEF Spellings
  <2> QED BY <1>6, <2>1, <2>3, <2>6 DEF ManageIs
<1> QED BY <1>3, <1>4, <1>5, <1>6 DEF ManageTableMatches

-----------------------------------------------------------------------------
(* FlattenSeq.                                                             *)

\* What follows FlattenSeq's equations is what it returns.
LEMMA FlattenIs ==
    ASSUME NEW seqs, Len(seqs) \in Nat, Len(seqs) > 0, NEW g,
           g = [m \in 1 .. Len(seqs) |-> IF m = 1 THEN seqs[m] ELSE g[m - 1] \o seqs[m]]
    PROVE  FlattenSeq(seqs) = g[Len(seqs)]
<1> DEFINE n == Len(seqs)
           Step(f) == [m \in 1 .. n |-> IF m = 1 THEN seqs[m] ELSE f[m - 1] \o seqs[m]]
           h == CHOOSE f : f = Step(f)
<1>1. FlattenSeq(seqs) = h[n]
  BY DEF FlattenSeq
<1>2. g = Step(g)
  OBVIOUS
<1>3. h = Step(h)
  <2> HIDE DEF Step
  <2> QED BY <1>2
<1> HIDE DEF h
<1> DEFINE Same == {m \in Nat : m \in 1 .. n => h[m] = g[m]}
<1>4. ASSUME NEW m \in Nat, \A l \in Nat : l < m => l \in Same PROVE m \in Same
  <2> SUFFICES ASSUME m \in 1 .. n PROVE h[m] = g[m]
    OBVIOUS
  <2>1. h[m] = IF m = 1 THEN seqs[m] ELSE h[m - 1] \o seqs[m]
    BY <1>3
  <2>2. g[m] = IF m = 1 THEN seqs[m] ELSE g[m - 1] \o seqs[m]
    BY <1>2
  <2>3. m # 1 => m - 1 \in Nat /\ m - 1 < m /\ m - 1 \in 1 .. n
    OBVIOUS
  <2>4. m # 1 => h[m - 1] = g[m - 1]
    BY <1>4, <2>3
  <2> QED BY <2>1, <2>2, <2>4
<1>5. n \in Same
  <2>1. \A m \in Nat : m \in Same
    <3> HIDE DEF Same
    <3> QED BY <1>4, StrongInduction
  <2> HIDE DEF Same
  <2> QED BY <2>1
<1> QED BY <1>1, <1>5

\* Two adjacent parts of a statement.
LEMMA AdjacentParts ==
    ASSUME NEW t \in Text, NEW i \in Nat, NEW j \in Nat, NEW k \in Nat,
           1 <= i, i <= j + 1, j <= k, k <= Len(t)
    PROVE  SubSeq(t, i, j) \o SubSeq(t, j + 1, k) = SubSeq(t, i, k)
<1>1. Len(t) \in Nat
  BY DEF Text
<1>2. /\ SubSeq(t, i, j) \in Text /\ Len(SubSeq(t, i, j)) = j - i + 1
      /\ \A l \in 1 .. j - i + 1 : SubSeq(t, i, j)[l] = t[i + l - 1]
  BY <1>1, PartOf
<1>3. /\ SubSeq(t, j + 1, k) \in Text /\ Len(SubSeq(t, j + 1, k)) = k - j
      /\ \A l \in 1 .. k - j : SubSeq(t, j + 1, k)[l] = t[j + l]
  <2>1. 1 <= j + 1 /\ j + 1 <= k + 1
    OBVIOUS
  <2>2. /\ SubSeq(t, j + 1, k) \in Text /\ Len(SubSeq(t, j + 1, k)) = k - (j + 1) + 1
        /\ \A l \in 1 .. k - (j + 1) + 1 : SubSeq(t, j + 1, k)[l] = t[(j + 1) + l - 1]
    BY <1>1, <2>1, PartOf
  <2> QED BY <2>2
<1>4. /\ SubSeq(t, i, k) \in Text /\ Len(SubSeq(t, i, k)) = k - i + 1
      /\ \A l \in 1 .. k - i + 1 : SubSeq(t, i, k)[l] = t[i + l - 1]
  BY <1>1, PartOf
<1> DEFINE a == SubSeq(t, i, j)
           b == SubSeq(t, j + 1, k)
           c == SubSeq(t, i, k)
<1> HIDE DEF a, b, c
<1>5. a \o b \in Text /\ Len(a \o b) = k - i + 1
  BY <1>2, <1>3 DEF Text, a, b
<1>6. \A l \in 1 .. k - i + 1 : (a \o b)[l] = c[l]
  <2> TAKE l \in 1 .. k - i + 1
  <2>1. (a \o b)[l] = IF l <= Len(a) THEN a[l] ELSE b[l - Len(a)]
    BY <1>2, <1>3 DEF Text, a, b
  <2>2. CASE l <= j - i + 1
    <3>1. l \in 1 .. j - i + 1 /\ l <= Len(a)
      BY <1>2, <2>2 DEF a
    <3>2. l <= j - i + 1 /\ Len(a) = j - i + 1
      BY <1>2, <2>2 DEF a
    <3>3. (a \o b)[l] = a[l]
      BY <2>1, <3>1
    <3>4. a[l] = t[i + l - 1]
      BY <1>2, <3>1 DEF a
    <3>5. c[l] = t[i + l - 1]
      BY <1>4 DEF c
    <3> QED BY <3>3, <3>4, <3>5
  <2>3. CASE l > j - i + 1
    <3>1. l - (j - i + 1) \in 1 .. k - j /\ j + (l - (j - i + 1)) = i + l - 1
          /\ ~(l <= j - i + 1)
      BY <2>3
    <3>2. b[l - (j - i + 1)] = t[i + l - 1]
      BY <1>3, <3>1 DEF b
    <3>3. Len(a) = j - i + 1
      BY <1>2 DEF a
    <3>4. (a \o b)[l] = b[l - (j - i + 1)]
      BY <2>1, <3>1, <3>3
    <3>5. c[l] = t[i + l - 1]
      BY <1>4 DEF c
    <3> QED BY <3>2, <3>4, <3>5
  <2>4. l <= j - i + 1 \/ l > j - i + 1
    OBVIOUS
  <2> QED BY <2>2, <2>3, <2>4
<1> QED BY <1>4, <1>5, <1>6, SameText DEF a, b, c

\* A single token.
LEMMA OnePart ==
    ASSUME NEW t \in Text, NEW k \in Nat, 1 <= k, k <= Len(t)
    PROVE  SubSeq(t, k, k) = <<t[k]>>
<1> DEFINE s == SubSeq(t, k, k)
<1>1. s \in Text /\ Len(s) = 1 /\ s[1] = t[k]
  <2>1. k \in Int /\ k <= k + 1 /\ k - k + 1 = 1 /\ 1 \in 1 .. 1 /\ k + 1 - 1 = k
    OBVIOUS
  <2> QED BY <2>1, PartOf
<1> HIDE DEF s
<1>2. s = <<s[1]>>
  BY <1>1 DEF Text
<1>3. s = <<t[k]>>
  BY <1>1, <1>2
<1> QED BY <1>3, Zenon DEF s

\* A part of a statement between two parentheses.
LEMMA ParensAre ==
    ASSUME NEW t \in Text, NEW a \in Nat, NEW b \in Nat, 1 <= a, a < b, b <= Len(t),
           t[a] = "(", t[b] = ")"
    PROVE  Parens(SubSeq(t, a + 1, b - 1)) = SubSeq(t, a, b)
<1>1. Len(t) \in Nat
  BY DEF Text
<1>2. SubSeq(t, a, a) = <<"(">> /\ SubSeq(t, b, b) = <<")">>
  <2>1. a <= Len(t) /\ 1 <= b
    BY <1>1
  <2>2. SubSeq(t, a, a) = <<t[a]>> /\ SubSeq(t, b, b) = <<t[b]>>
    BY <2>1, OnePart
  <2> QED BY <2>2, Zenon
<1>3. SubSeq(t, a, a) \o SubSeq(t, a + 1, b - 1) = SubSeq(t, a, b - 1)
  <2>1. b - 1 \in Nat /\ a <= a + 1 /\ a <= b - 1 /\ b - 1 <= Len(t)
    BY <1>1
  <2> QED BY <2>1, AdjacentParts
<1>4. SubSeq(t, a, b - 1) \o SubSeq(t, b, b) = SubSeq(t, a, b)
  <2>1. b - 1 \in Nat /\ a <= (b - 1) + 1 /\ b - 1 <= b /\ (b - 1) + 1 = b
    BY <1>1
  <2>2. SubSeq(t, a, b - 1) \o SubSeq(t, (b - 1) + 1, b) = SubSeq(t, a, b)
    BY <2>1, AdjacentParts
  <2> QED BY <2>1, <2>2
<1> QED BY <1>2, <1>3, <1>4, Zenon DEF Parens

\* The conditions in their parentheses are the part they were taken from.
LEMMA GroupsFlatten ==
    ASSUME NEW t \in Text, NEW i \in Nat, 1 <= i, NEW n \in Nat, n > 0,
           \A k \in 0 .. n - 1 : IsGroup(t, i + 5 * k),
           NEW c, c = Conditions(t, i, n)
    PROVE  FlattenSeq([k \in DOMAIN c |-> Parens(c[k])]) = SubSeq(t, i, i + 5 * n - 1)
<1> DEFINE seqs == [k \in DOMAIN c |-> Parens(c[k])]
           g == [m \in 1 .. n |-> SubSeq(t, i, i + 5 * m - 1)]
           at(m) == i + 5 * (m - 1)
<1>1. Len(t) \in Nat
  BY DEF Text
<1>2. DOMAIN c = 1 .. n /\ \A m \in 1 .. n : c[m] = SubSeq(t, at(m) + 1, at(m) + 3)
  BY DEF Conditions
<1>3. Len(seqs) = n /\ DOMAIN seqs = 1 .. n
  BY <1>2
<1>4. ASSUME NEW m \in 1 .. n
      PROVE  /\ at(m) \in Nat /\ 1 <= at(m) /\ i <= at(m) /\ at(m) + 4 <= Len(t)
             /\ t[at(m)] = "(" /\ t[at(m) + 4] = ")"
  <2>1. m - 1 \in 0 .. n - 1
    OBVIOUS
  <2>2. IsGroup(t, at(m))
    BY <2>1
  <2> QED BY <2>2 DEF IsGroup
<1>5. ASSUME NEW m \in 1 .. n PROVE seqs[m] = SubSeq(t, at(m), at(m) + 4)
  <2> DEFINE a == at(m)
  <2>1. /\ a \in Nat /\ a + 4 \in Nat /\ 1 <= a /\ a < a + 4 /\ a + 4 <= Len(t)
        /\ t[a] = "(" /\ t[a + 4] = ")" /\ (a + 4) - 1 = a + 3
    BY <1>4
  <2>2. seqs[m] = Parens(SubSeq(t, a + 1, a + 3))
    BY <1>2
  <2> HIDE DEF a, seqs
  <2>3. Parens(SubSeq(t, a + 1, (a + 4) - 1)) = SubSeq(t, a, a + 4)
    BY <2>1, ParensAre
  <2>4. seqs[m] = SubSeq(t, a, a + 4)
    BY <2>1, <2>2, <2>3
  <2> QED BY <2>4, Zenon DEF a
<1>6. ASSUME NEW m \in 1 .. n
      PROVE  g[m] = IF m = 1 THEN seqs[m] ELSE g[m - 1] \o seqs[m]
  <2>1. CASE m = 1
    <3>1. at(1) = i /\ i + 5 * 1 - 1 = i + 4
      OBVIOUS
    <3>2. seqs[1] = SubSeq(t, i, i + 4)
      BY <1>5, <2>1, <3>1
    <3>3. g[1] = SubSeq(t, i, i + 4)
      BY <2>1, <3>1
    <3> HIDE DEF g, seqs
    <3> QED BY <2>1, <3>2, <3>3
  <2>2. CASE m # 1
    <3> DEFINE a == at(m)
    <3>1. /\ m - 1 \in 1 .. n /\ i + 5 * (m - 1) - 1 = a - 1 /\ i + 5 * m - 1 = a + 4
          /\ a - 1 \in Nat /\ a + 4 \in Nat /\ i <= (a - 1) + 1 /\ a - 1 <= a + 4
          /\ a + 4 <= Len(t) /\ (a - 1) + 1 = a
      BY <1>1, <1>4, <2>2
    <3>2. g[m - 1] = SubSeq(t, i, a - 1)
      BY <3>1
    <3>3. g[m] = SubSeq(t, i, a + 4)
      BY <3>1
    <3>4. seqs[m] = SubSeq(t, a, a + 4)
      BY <1>5
    <3> HIDE DEF a, g, seqs
    <3>5. SubSeq(t, i, a - 1) \o SubSeq(t, (a - 1) + 1, a + 4) = SubSeq(t, i, a + 4)
      BY <3>1, AdjacentParts
    <3> QED BY <2>2, <3>1, <3>2, <3>3, <3>4, <3>5
  <2> QED BY <2>1, <2>2
<1>7. g[n] = SubSeq(t, i, i + 5 * n - 1)
  OBVIOUS
<1>8. g = [m \in 1 .. n |-> IF m = 1 THEN seqs[m] ELSE g[m - 1] \o seqs[m]]
  <2>1. g = [m \in 1 .. n |-> g[m]]
    OBVIOUS
  <2> HIDE DEF g, seqs
  <2> QED BY <1>6, <2>1
<1> HIDE DEF g, seqs
<1>9. FlattenSeq(seqs) = g[n]
  BY <1>3, <1>8, FlattenIs
<1> QED BY <1>7, <1>9 DEF seqs

\* From place i on the statement spells the conditions of q.
LEMMA WhereSpelt ==
    ASSUME NEW t \in Text, NEW i \in Nat, 1 <= i, i <= Len(t) + 1,
           NEW q, WhereIs(t, i, q.condition)
    PROVE  SubSeq(t, i, Len(t)) \in Where(q)
<1> DEFINE c == q.condition
           groups == [k \in DOMAIN c |-> Parens(c[k])]
<1>1. Len(t) \in Nat
  BY DEF Text
<1>2. CASE i = Len(t) + 1 /\ c = <<>>
  <2>1. SubSeq(t, i, Len(t)) = <<>>
    <3>1. SubSeq(t, i, Len(t)) \in Text /\ Len(SubSeq(t, i, Len(t))) = Len(t) - i + 1
      BY <1>1, PartOf
    <3>2. Len(SubSeq(t, i, Len(t))) = 0
      BY <1>1, <1>2, <3>1
    <3> QED BY <3>1, <3>2 DEF Text
  <2> QED BY <1>2, <2>1 DEF Where
<1>3. CASE /\ i <= Len(t) /\ t[i] = "WHERE"
           /\ \E n \in Nat : /\ c = Conditions(t, i + 1, n) /\ Len(t) = i + 5 * n
                             /\ \A k \in 0 .. n - 1 : IsGroup(t, i + 1 + 5 * k)
  <2>1. PICK n \in Nat : /\ c = Conditions(t, i + 1, n) /\ Len(t) = i + 5 * n
                         /\ \A k \in 0 .. n - 1 : IsGroup(t, i + 1 + 5 * k)
    BY <1>3
  <2>2. SubSeq(t, i, i) = <<"WHERE">>
    BY <1>3, OnePart
  <2>3. FlattenSeq(groups) = SubSeq(t, i + 1, Len(t))
    <3>1. CASE n > 0
      <4>1. i + 1 \in Nat /\ 1 <= i + 1 /\ (i + 1) + 5 * n - 1 = Len(t)
        BY <2>1
      <4> HIDE DEF c
      <4>2. FlattenSeq(groups) = SubSeq(t, i + 1, (i + 1) + 5 * n - 1)
        BY <2>1, <3>1, <4>1, GroupsFlatten
      <4> QED BY <4>1, <4>2
    <3>2. CASE n = 0
      <4>1. c = <<>>
        BY <2>1, <3>2 DEF Conditions
      <4>2. groups = <<>>
        BY <4>1
      <4>3. FlattenSeq(groups) = <<>>
        <5> HIDE DEF groups
        <5> QED BY <4>2 DEF FlattenSeq
      <4>4. i + 1 \in Nat /\ 1 <= i + 1 /\ i + 1 <= Len(t) + 1 /\ Len(t) - (i + 1) + 1 = 0
        BY <2>1, <3>2
      <4>5. SubSeq(t, i + 1, Len(t)) \in Text /\ Len(SubSeq(t, i + 1, Len(t))) = 0
        BY <1>1, <4>4, PartOf
      <4>6. SubSeq(t, i + 1, Len(t)) = <<>>
        BY <4>5 DEF Text
      <4> QED BY <4>3, <4>6
    <3> QED BY <3>1, <3>2
  <2>4. SubSeq(t, i, i) \o SubSeq(t, i + 1, Len(t)) = SubSeq(t, i, Len(t))
    BY <1>1, <1>3, AdjacentParts
  <2>5. SubSeq(t, i, Len(t)) = <<"WHERE">> \o FlattenSeq(groups)
    BY <2>2, <2>3, <2>4, Zenon
  <2> QED BY <2>5 DEF Where
<1> QED BY <1>2, <1>3 DEF WhereIs

\* Up to its FROM the statement spells the operands of q.
LEMMA OperandsSpelt ==
    ASSUME NEW t \in Text, NEW f \in 2 .. Len(t), NEW q, OperandsAre(t, f, q.operands)
    PROVE  SubSeq(t, 2, f - 1) \in Operands(q)
<1>1. Len(t) \in Nat /\ f \in Nat /\ f <= Len(t)
  BY DEF Text
<1>2. CASE f = 2 /\ q.operands = <<>>
  <2>1. SubSeq(t, 2, 1) = <<>>
    <3>1. 2 \in Nat /\ 1 \in Int /\ 1 <= 2 /\ 1 <= Len(t) /\ 2 <= 1 + 1 /\ 1 - 2 + 1 = 0
      BY <1>1
    <3>2. SubSeq(t, 2, 1) \in Text /\ Len(SubSeq(t, 2, 1)) = 1 - 2 + 1
      BY <3>1, PartOf
    <3> QED BY <3>1, <3>2 DEF Text
  <2> QED BY <1>2, <2>1 DEF Operands
<1>3. CASE /\ f >= 4 /\ t[2] = "(" /\ t[f - 1] = ")"
           /\ q.operands = SubSeq(t, 3, f - 2)
  <2>1. /\ 2 \in Nat /\ f - 1 \in Nat /\ 1 <= 2 /\ 2 < f - 1 /\ f - 1 <= Len(t)
        /\ 2 + 1 = 3 /\ (f - 1) - 1 = f - 2
    BY <1>1, <1>3
  <2>2. Parens(SubSeq(t, 2 + 1, (f - 1) - 1)) = SubSeq(t, 2, f - 1)
    BY <1>3, <2>1, ParensAre
  <2>3. SubSeq(t, 2, f - 1) = Parens(q.operands)
    BY <1>3, <2>1, <2>2
  <2> QED BY <2>3 DEF Operands
<1> QED BY <1>2, <1>3 DEF OperandsAre

\* ComplexQueryBuilder, cleared before the statement.
LEMMA ComplexMade ==
    ASSUME NEW t \in Text, t # <<>>,
           NEW o, o = Complex(t, parseToken(Cleared, t)), o.status = "Made"
    PROVE  \E q \in Query : /\ o = Made(q) /\ t \in Spellings(q)
                            /\ \E w \in DOMAIN ComplexTypes : q.type = ComplexTypes[w]
<1> DEFINE p == parseToken(Cleared, t)
<1>1. Cleared \in Builder /\ Cleared.operandToken = <<>> /\ Cleared.conditionToken = <<>>
  <2>1. "" \in Name
    BY Zenon DEF Name
  <2>2. <<>> \in Text /\ <<>> \in Seq(Text)
    BY DEF Text
  <2> QED BY <2>1, <2>2 DEF Cleared, Builder
<1>2. p.builder \in Builder /\ (p.status = "Parsed" => Filled(p, Cleared, t))
  BY <1>1, TokenShape
<1>3. /\ p.status = "Parsed" /\ t[1] \in DOMAIN ComplexTypes
      /\ o = Made([Of(ComplexTypes[t[1]], p.builder.targetTable) EXCEPT
                      !.operands  = p.builder.operandToken,
                      !.condition = p.builder.conditionToken])
  BY DEF Complex, Undefined, Failed
<1> HIDE DEF p
<1>4. PICK a \in Text, c \in Seq(Text), f \in 2 .. Len(t) - 1 :
         /\ p.builder = [targetTable    |-> t[f + 1],
                         operandToken   |-> <<>> \o a,
                         conditionToken |-> <<>> \o c]
         /\ t[f] = "FROM"
         /\ OperandsAre(t, f, a) /\ WhereIs(t, f + 2, c)
  BY <1>1, <1>2, <1>3 DEF Filled
<1>5. <<>> \o a = a /\ <<>> \o c = c
  BY DEF Text
<1> DEFINE type == ComplexTypes[t[1]]
           q == [Of(type, t[f + 1]) EXCEPT !.operands = a, !.condition = c]
<1>6. o = Made(q)
  BY <1>3, <1>4, <1>5
<1>7. type \in QueryTypes
  BY <1>3 DEF ComplexTypes, QueryTypes, ReadTypes, WriteTypes
<1>8. Len(t) \in Nat /\ f \in Nat /\ 2 <= f /\ f + 1 <= Len(t)
  BY DEF Text
<1> HIDE DEF type
<1>9. /\ q \in Query /\ q.type = type /\ q.table = t[f + 1]
      /\ q.operands = a /\ q.condition = c
  <2>1. t[f + 1] \in Name
    BY <1>8, TokenIsName
  <2>2. Bare(type) \in Query
    BY <1>7, BareType
  <2> QED BY <2>1, <2>2 DEF Query, Bare, Of
<1> HIDE DEF q
<1>10. SubSeq(t, 2, f - 1) \in Operands(q)
  <2>1. f \in 2 .. Len(t)
    BY <1>8
  <2> QED BY <1>4, <1>9, <2>1, OperandsSpelt
<1>11. SubSeq(t, f + 2, Len(t)) \in Where(q)
  <2>1. f + 2 \in Nat /\ 1 <= f + 2 /\ f + 2 <= Len(t) + 1
    BY <1>8
  <2> QED BY <1>4, <1>9, <2>1, WhereSpelt
<1>12. t = <<t[1]>> \o SubSeq(t, 2, f - 1) \o <<"FROM", t[f + 1]>> \o SubSeq(t, f + 2, Len(t))
  <2>1. SubSeq(t, 1, 1) = <<t[1]>>
    <3>1. 1 \in Nat /\ 1 <= 1 /\ 1 <= Len(t)
      BY <1>8
    <3> QED BY <3>1, OnePart
  <2>2. SubSeq(t, 1, 1) \o SubSeq(t, 2, f - 1) = SubSeq(t, 1, f - 1)
    <3>1. 1 \in Nat /\ f - 1 \in Nat /\ 1 <= 1 /\ 1 <= 1 + 1 /\ 1 <= f - 1
          /\ f - 1 <= Len(t) /\ 1 + 1 = 2
      BY <1>8
    <3>2. SubSeq(t, 1, 1) \o SubSeq(t, 1 + 1, f - 1) = SubSeq(t, 1, f - 1)
      BY <3>1, AdjacentParts
    <3> QED BY <3>1, <3>2
  <2>3. SubSeq(t, f, f + 1) = <<"FROM", t[f + 1]>>
    <3> DEFINE s == SubSeq(t, f, f + 1)
    <3>1. /\ f + 1 \in Int /\ 1 <= f /\ f <= (f + 1) + 1 /\ (f + 1) - f + 1 = 2
          /\ 1 \in 1 .. 2 /\ 2 \in 1 .. 2 /\ f + 1 - 1 = f /\ f + 2 - 1 = f + 1
      BY <1>8
    <3>2. s \in Text /\ Len(s) = 2 /\ s[1] = t[f] /\ s[2] = t[f + 1]
      BY <1>8, <3>1, PartOf
    <3> HIDE DEF s
    <3>3. s = <<s[1], s[2]>>
      BY <3>2 DEF Text
    <3>4. s = <<"FROM", t[f + 1]>>
      BY <1>4, <3>2, <3>3
    <3> QED BY <3>4, Zenon DEF s
  <2>4. SubSeq(t, 1, f - 1) \o SubSeq(t, f, f + 1) = SubSeq(t, 1, f + 1)
    <3>1. 1 \in Nat /\ f - 1 \in Nat /\ f + 1 \in Nat /\ 1 <= 1 /\ 1 <= (f - 1) + 1
          /\ f - 1 <= f + 1 /\ f + 1 <= Len(t) /\ (f - 1) + 1 = f
      BY <1>8
    <3>2. SubSeq(t, 1, f - 1) \o SubSeq(t, (f - 1) + 1, f + 1) = SubSeq(t, 1, f + 1)
      BY <3>1, AdjacentParts
    <3> QED BY <3>1, <3>2
  <2>5. SubSeq(t, 1, f + 1) \o SubSeq(t, f + 2, Len(t)) = SubSeq(t, 1, Len(t))
    <3>1. 1 \in Nat /\ f + 1 \in Nat /\ 1 <= 1 /\ 1 <= (f + 1) + 1
          /\ f + 1 <= Len(t) /\ Len(t) <= Len(t) /\ (f + 1) + 1 = f + 2
      BY <1>8
    <3>2. SubSeq(t, 1, f + 1) \o SubSeq(t, (f + 1) + 1, Len(t)) = SubSeq(t, 1, Len(t))
      BY <1>8, <3>1, AdjacentParts
    <3> QED BY <3>1, <3>2
  <2>6. SubSeq(t, 1, Len(t)) = t
    BY DEF Text
  <2> QED BY <2>1, <2>2, <2>3, <2>4, <2>5, <2>6, Zenon
<1>13. Words(type, ComplexTypes) = t[1]
  BY <1>3, WordOfComplex DEF type
<1>14. t \in Spellings(q)
  <2>1. type \notin {"List", "Quit", "PrintTable", "Listen", "Load", "Dump", "CopyTable",
                     "Drop", "Truncate"}
    BY <1>3 DEF ComplexTypes, type
  <2>2. Spellings(q) = {Spelling(q, a2, w) : a2 \in Operands(q), w \in Where(q)}
    BY <1>9, <2>1 DEF Spellings
  <2>3. t = Spelling(q, SubSeq(t, 2, f - 1), SubSeq(t, f + 2, Len(t)))
    BY <1>9, <1>12, <1>13, Zenon DEF Spelling
  <2> QED BY <1>10, <1>11, <2>2, <2>3
<1> QED BY <1>3, <1>6, <1>9, <1>14 DEF type

-----------------------------------------------------------------------------
(* QueryParser::parseQuery: types, spelling, and the cache of table names. *)

\* The name a path has with what is cached in map.
NameIn(map, path) ==
    IF path \in DOMAIN map THEN map[path]
    ELSE IF path \in DOMAIN TableFile THEN TableFile[path] ELSE ""

\* A LOAD that is accepted has the name its file had, and only a DUMP changes names.
Follows(o, map, new) ==
    LET dumps(p) == o.status = "Made" /\ o.query.type = "Dump" /\ o.query.file = p
    IN  /\ o.status = "Made" /\ o.query.type = "Load" =>
              o.query.table = NameIn(map, o.query.file)
        /\ \A p \in Name :
              NameIn(new, p) = IF dumps(p) THEN o.query.table ELSE NameIn(map, p)

LEMMA NamedType ==
    ASSUME NEW map, DOMAIN map \subseteq STRING, Range(map) \subseteq Name,
           NEW path \in STRING, NEW table \in Name
    PROVE  /\ DOMAIN Named(map, path, table) \subseteq STRING
           /\ Range(Named(map, path, table)) \subseteq Name
           /\ \A p : NameIn(Named(map, path, table), p) =
                        IF p = path THEN table ELSE NameIn(map, p)
<1>1. \A p \in DOMAIN map : map[p] \in Name
  BY DEF Range
<1>2. \A p \in DOMAIN map \cup {path} : Named(map, path, table)[p] \in Name
  BY <1>1 DEF Named
<1>3. DOMAIN Named(map, path, table) = DOMAIN map \cup {path}
  BY DEF Named
<1>4. Range(Named(map, path, table)) \subseteq Name
  BY <1>2, <1>3 DEF Range
<1>5. ASSUME NEW p
      PROVE  NameIn(Named(map, path, table), p) = IF p = path THEN table ELSE NameIn(map, p)
  BY DEF Named, NameIn
<1> QED BY <1>3, <1>4, <1>5

LEMMA ParseStep ==
    ASSUME NEW t \in Text, parseQuery(t), complex \in Builder, CacheTyped
    PROVE  /\ complex' \in Builder /\ CacheTyped'
           /\ parsed' \in [text : Text, outcome : Outcomes]
           /\ AcceptsExactly'
           /\ Follows(parsed'.outcome, fileTableNameMap, fileTableNameMap')
<1> DEFINE p == parseToken(AtStart(t), t)
           o == parsed'.outcome
           map == fileTableNameMap
           new == fileTableNameMap'
           Good == /\ o \in Outcomes
                   /\ o.status = "Made" => t \in Spellings(o.query)
                   /\ CacheTyped' /\ Follows(o, map, new)
<1>1. t \in Seq(STRING) /\ Len(t) \in Nat /\ \A k \in 1 .. Len(t) : t[k] \in STRING
  BY DEF Text
<1>2. complex' \in Builder
  <2>1. AtStart(t) \in Builder
    <3>1. "" \in Name
      BY Zenon DEF Name
    <3>2. <<>> \in Text /\ <<>> \in Seq(Text)
      BY DEF Text
    <3> QED BY <3>1, <3>2 DEF AtStart, Cleared, Builder
  <2>2. t # <<>> => p.builder \in Builder
    BY <2>1, TokenShape
  <2> HIDE DEF p
  <2>3. (complex' = p.builder /\ t # <<>>) \/ complex' = AtStart(t)
    BY DEF parseQuery, p
  <2> QED BY <2>1, <2>2, <2>3
<1>3. parsed' = [text |-> t, outcome |-> o]
  BY DEF parseQuery
<1>4. new = map => CacheTyped' /\ \A f : NameIn(new, f) = NameIn(map, f)
  BY DEF CacheTyped
<1> HIDE DEF p
<1>5. DOMAIN map \subseteq STRING /\ Range(map) \subseteq Name
  BY DEF CacheTyped
<1>6. ASSUME t = <<>> PROVE Good
  <2>1. ~DebugMatches(t) /\ ~ManageTableMatches(t)
    BY <1>6 DEF DebugMatches, ManageTableMatches
  <2>2. o = Failed
    BY <1>6, <2>1 DEF parseQuery
  <2>3. new = map
    BY <2>1 DEF parseQuery
  <2> HIDE DEF o, map, new
  <2> QED BY <1>4, <2>2, <2>3 DEF Failed, Outcomes, Follows
<1>7. ASSUME DebugMatches(t) PROVE Good
  <2>1. t # <<>> /\ ~ManageTableMatches(t)
    BY <1>1, <1>7 DEF DebugMatches, ManageTableMatches
  <2>2. o = Debug(t)
    BY <1>7, <2>1 DEF parseQuery
  <2>3. new = map
    BY <2>1 DEF parseQuery
  <2>4. PICK q \in Query : /\ Debug(t) = Made(q) /\ t \in Spellings(q)
                           /\ q.type \in {"List", "Quit", "PrintTable", "Listen"}
    BY <1>7, DebugMade
  <2> HIDE DEF o, map, new
  <2>5. o \in Outcomes /\ o.status = "Made" /\ o.query = q
    BY <2>2, <2>4 DEF Made, Outcomes
  <2> QED BY <1>4, <2>3, <2>4, <2>5 DEF Follows
<1>8. ASSUME ManageTableMatches(t) PROVE Good
  <2>1. t # <<>> /\ ~DebugMatches(t)
    BY <1>1, <1>8 DEF DebugMatches, ManageTableMatches
  <2>2. o = ManageTable(t)
    BY <1>8, <2>1 DEF parseQuery
  <2>3. PICK q \in Query : ManageTable(t) = Made(q) /\ t \in Spellings(q) /\ ManageIs(q, t)
    BY <1>8, ManageMade
  <2>4. getFileTableName(t[2]) = NameIn(map, t[2])
    BY DEF getFileTableName, NameIn
  <2>5. t[2] \in STRING /\ (t[1] = "DUMP" => t[3] \in STRING /\ t[2] \in Name)
    <3>1. Len(t) >= 2 /\ (t[1] = "DUMP" => Len(t) = 3)
      BY <1>8 DEF ManageTableMatches
    <3> QED BY <1>1, <3>1, TokenIsName
  <2>6. CASE t[1] = "DUMP"
    <3>1. new = Named(map, t[3], t[2])
      BY <1>8, <2>6 DEF parseQuery, updateFileTableName
    <3>2. q.type = "Dump" /\ q.table = t[2] /\ q.file = t[3]
      BY <2>3, <2>6 DEF ManageIs
    <3> HIDE DEF o, map, new
    <3>3. o \in Outcomes /\ o.status = "Made" /\ o.query = q
      BY <2>2, <2>3 DEF Made, Outcomes
    <3>4. /\ DOMAIN new \subseteq STRING /\ Range(new) \subseteq Name
          /\ \A f : NameIn(new, f) = IF f = t[3] THEN t[2] ELSE NameIn(map, f)
      <4>1. t[3] \in STRING /\ t[2] \in Name
        BY <2>5, <2>6
      <4> DEFINE m == Named(map, t[3], t[2])
      <4>2. /\ DOMAIN m \subseteq STRING /\ Range(m) \subseteq Name
            /\ \A f : NameIn(m, f) = IF f = t[3] THEN t[2] ELSE NameIn(map, f)
        BY <1>5, <4>1, NamedType, Zenon
      <4> HIDE DEF m
      <4>3. new = m
        BY <3>1 DEF m
      <4> QED BY <4>2, <4>3
    <3>5. CacheTyped'
      BY <3>4 DEF CacheTyped, new
    <3> QED BY <2>3, <3>2, <3>3, <3>4, <3>5 DEF Follows
  <2>7. CASE t[1] = "LOAD"
    <3>1. new = map \/ new = Named(map, t[2], NameIn(map, t[2]))
      BY <1>8, <2>4, <2>7 DEF parseQuery
    <3>2. q.type = "Load" /\ q.table = NameIn(map, t[2]) /\ q.file = t[2]
      BY <2>3, <2>4, <2>7 DEF ManageIs
    <3>3. NameIn(map, t[2]) \in Name
      BY <2>4, NameOfFile
    <3> HIDE DEF o, map, new
    <3>4. o \in Outcomes /\ o.status = "Made" /\ o.query = q
      BY <2>2, <2>3 DEF Made, Outcomes
    <3>5. CacheTyped' /\ \A f : NameIn(new, f) = NameIn(map, f)
      <4>1. CASE new = map
        BY <1>4, <4>1
      <4>2. CASE new = Named(map, t[2], NameIn(map, t[2]))
        <5>1. /\ DOMAIN new \subseteq STRING /\ Range(new) \subseteq Name
              /\ \A f : NameIn(new, f) = IF f = t[2] THEN NameIn(map, t[2]) ELSE NameIn(map, f)
          <6> DEFINE m == Named(map, t[2], NameIn(map, t[2]))
          <6>1. /\ DOMAIN m \subseteq STRING /\ Range(m) \subseteq Name
                /\ \A f : NameIn(m, f) = IF f = t[2] THEN NameIn(map, t[2])
                                       ELSE NameIn(map, f)
            BY <1>5, <2>5, <3>3, NamedType, Zenon
          <6> HIDE DEF m
          <6>2. new = m
            BY <4>2 DEF m
          <6> QED BY <6>1, <6>2
        <5> QED BY <5>1 DEF CacheTyped, new
      <4> QED BY <3>1, <4>1, <4>2
    <3> QED BY <2>3, <3>2, <3>4, <3>5 DEF Follows
  <2>8. CASE t[1] \notin {"LOAD", "DUMP"}
    <3>1. new = map
      BY <2>8 DEF parseQuery
    <3>2. q.type \in {"Drop", "Truncate", "CopyTable"}
      BY <2>3, <2>8 DEF ManageIs
    <3> HIDE DEF o, map, new
    <3>3. o \in Outcomes /\ o.status = "Made" /\ o.query = q
      BY <2>2, <2>3 DEF Made, Outcomes
    <3> QED BY <1>4, <2>3, <3>1, <3>2, <3>3 DEF Follows
  <2> QED BY <2>6, <2>7, <2>8
<1>9. ASSUME t # <<>> /\ ~DebugMatches(t) /\ ~ManageTableMatches(t) PROVE Good
  <2>1. o = Complex(t, parseToken(Cleared, t))
    BY <1>9 DEF parseQuery, AtStart
  <2>2. new = map
    BY <1>9 DEF parseQuery
  <2>3. CASE o.status = "Made"
    <3> HIDE DEF o, map, new
    <3>1. PICK q \in Query : /\ o = Made(q) /\ t \in Spellings(q)
                             /\ \E w \in DOMAIN ComplexTypes : q.type = ComplexTypes[w]
      BY <1>9, <2>1, <2>3, ComplexMade
    <3>2. o \in Outcomes /\ o.status = "Made" /\ o.query = q
      BY <3>1 DEF Made, Outcomes
    <3>3. q.type \notin {"Load", "Dump"}
      BY <3>1 DEF ComplexTypes
    <3> QED BY <1>4, <2>2, <3>1, <3>2, <3>3 DEF Follows
  <2>4. CASE o.status # "Made"
    <3> HIDE DEF o, map, new
    <3>1. o \in {Failed, Undefined}
      BY <2>1, <2>4 DEF Complex, Made
    <3> QED BY <1>4, <2>2, <2>4, <3>1 DEF Follows, Outcomes
  <2> QED BY <2>3, <2>4
<1>10. Good
  BY <1>6, <1>7, <1>8, <1>9
<1>11. parsed' \in [text : Text, outcome : Outcomes]
  <2> HIDE DEF o
  <2> QED BY <1>3, <1>10
<1>12. AcceptsExactly'
  <2>1. parsed'.text = t
    BY <1>3
  <2> QED BY <1>10, <2>1 DEF AcceptsExactly
<1> QED BY <1>2, <1>10, <1>11, <1>12

-----------------------------------------------------------------------------
(* The other way round: how the spelling of a query is laid out.           *)

\* Two sequences of elements of S, one behind the other.
LEMMA BehindEachOther ==
    ASSUME NEW S, NEW a \in Seq(S), NEW b \in Seq(S), NEW c, c = a \o b
    PROVE  /\ c \in Seq(S) /\ Len(a) \in Nat /\ Len(b) \in Nat
           /\ Len(c) = Len(a) + Len(b)
           /\ \A k \in 1 .. Len(a) : c[k] = a[k]
           /\ \A k \in 1 .. Len(b) : c[Len(a) + k] = b[k]
<1> DEFINE m == Len(a)
           n == Len(b)
<1>1. m \in Nat /\ n \in Nat
  OBVIOUS
<1>2. /\ a \o b \in Seq(S) /\ Len(a \o b) = Len(a) + Len(b)
      /\ \A i \in 1 .. Len(a) + Len(b) :
            (a \o b)[i] = IF i <= Len(a) THEN a[i] ELSE b[i - Len(a)]
  BY ConcatProperties
<1>3. /\ c \in Seq(S) /\ Len(c) = m + n
      /\ \A i \in 1 .. m + n : c[i] = IF i <= m THEN a[i] ELSE b[i - m]
  BY <1>2
<1> HIDE DEF m, n
<1>4. \A k \in 1 .. m : c[k] = a[k]
  <2> TAKE k \in 1 .. m
  <2>1. k \in 1 .. m + n /\ k <= m
    BY <1>1
  <2> QED BY <1>3, <2>1
<1>5. \A k \in 1 .. n : c[m + k] = b[k]
  <2> TAKE k \in 1 .. n
  <2>1. m + k \in 1 .. m + n /\ ~(m + k <= m) /\ (m + k) - m = k
    BY <1>1
  <2> QED BY <1>3, <2>1
<1> QED BY <1>1, <1>3, <1>4, <1>5 DEF m, n

\* One token, and two.
LEMMA OneOrTwo ==
    ASSUME NEW S, NEW x \in S, NEW y \in S
    PROVE  /\ <<x>> \in Seq(S) /\ Len(<<x>>) = 1 /\ <<x>>[1] = x
           /\ <<x, y>> \in Seq(S) /\ Len(<<x, y>>) = 2
           /\ <<x, y>>[1] = x /\ <<x, y>>[2] = y
OBVIOUS

\* A sequence in parentheses.
LEMMA ParensLaid ==
    ASSUME NEW S, NEW s \in Seq(S), "(" \in S, ")" \in S
    PROVE  /\ Parens(s) \in Seq(S) /\ Len(s) \in Nat /\ Len(Parens(s)) = Len(s) + 2
           /\ Parens(s)[1] = "(" /\ Parens(s)[Len(s) + 2] = ")"
           /\ \A k \in 1 .. Len(s) : Parens(s)[k + 1] = s[k]
<1> DEFINE a == <<"(">>
           b == <<")">>
           as == a \o s
           n == Len(s)
<1>1. /\ a \in Seq(S) /\ Len(a) = 1 /\ a[1] = "("
      /\ b \in Seq(S) /\ Len(b) = 1 /\ b[1] = ")"
  BY OneOrTwo
<1>2. Parens(s) = as \o b
  BY DEF Parens
<1> DEFINE p == Parens(s)
<1> HIDE DEF a, b, as, n, p
<1>3. /\ as = a \o s /\ n = Len(s) /\ p = as \o b /\ 1 = Len(a) /\ 1 = Len(b)
      /\ a \in Seq(S) /\ s \in Seq(S) /\ b \in Seq(S)
  BY <1>1, <1>2 DEF as, n, p
<1>4. /\ as \in Seq(S) /\ n \in Nat /\ Len(as) = 1 + n
      /\ \A k \in 1 .. 1 : as[k] = a[k]
      /\ \A k \in 1 .. n : as[1 + k] = s[k]
  <2>1. /\ as \in Seq(S) /\ Len(a) \in Nat /\ Len(s) \in Nat
        /\ Len(as) = Len(a) + Len(s)
        /\ \A k \in 1 .. Len(a) : as[k] = a[k]
        /\ \A k \in 1 .. Len(s) : as[Len(a) + k] = s[k]
    BY <1>3, BehindEachOther
  <2> QED BY <1>3, <2>1
<1>5. /\ p \in Seq(S) /\ Len(p) = (1 + n) + 1
      /\ \A k \in 1 .. 1 + n : p[k] = as[k]
      /\ \A k \in 1 .. 1 : p[(1 + n) + k] = b[k]
  <2>1. 1 + n = Len(as)
    BY <1>4
  <2> QED BY <1>1, <1>3, <1>4, <2>1, BehindEachOther
<1>6. p[1] = "("
  <2>1. 1 \in 1 .. 1 /\ 1 \in 1 .. 1 + n
    BY <1>4
  <2> QED BY <1>1, <1>4, <1>5, <2>1
<1>7. p[n + 2] = ")"
  <2>1. 1 \in 1 .. 1 /\ (1 + n) + 1 = n + 2
    BY <1>4
  <2> QED BY <1>1, <1>4, <1>5, <2>1
<1>8. \A k \in 1 .. n : p[k + 1] = s[k]
  <2> TAKE k \in 1 .. n
  <2>1. k + 1 = 1 + k /\ 1 + k \in 1 .. 1 + n
    BY <1>4
  <2> QED BY <1>4, <1>5, <2>1
<1>9. Len(p) = n + 2
  BY <1>4, <1>5
<1> QED BY <1>4, <1>5, <1>6, <1>7, <1>8, <1>9 DEF p, n

\* The place of a token in groups of five.
LEMMA InFives ==
    ASSUME NEW j \in Nat, j >= 1
    PROVE  /\ (j - 1) \div 5 \in Nat /\ (j - 1) % 5 \in 0 .. 4
           /\ j = 5 * ((j - 1) \div 5) + ((j - 1) % 5) + 1
           /\ \A m \in Nat, l \in 1 .. 5 :
                 j = 5 * m + l => (j - 1) \div 5 = m /\ (j - 1) % 5 = l - 1
OBVIOUS

\* Conditions in their parentheses, one behind the other.
LEMMA GroupsLaid ==
    ASSUME NEW S, "(" \in S, ")" \in S, NEW c \in Seq(Seq(S)),
           \A k \in DOMAIN c : Len(c[k]) = 3
    PROVE  LET s == FlattenSeq([k \in DOMAIN c |-> Parens(c[k])])
           IN  /\ s \in Seq(S) /\ Len(c) \in Nat /\ Len(s) = 5 * Len(c)
               /\ \A k \in 1 .. Len(c), l \in 1 .. 5 :
                     s[5 * (k - 1) + l] = Parens(c[k])[l]
<1> DEFINE seqs == [k \in DOMAIN c |-> Parens(c[k])]
           n == Len(c)
           s == FlattenSeq(seqs)
<1>1. n \in Nat /\ DOMAIN c = 1 .. n /\ \A k \in 1 .. n : c[k] \in Seq(S) /\ Len(c[k]) = 3
  OBVIOUS
<1>2. Len(seqs) = n /\ DOMAIN seqs = 1 .. n
  BY <1>1
<1>3. ASSUME NEW k \in 1 .. n
      PROVE  seqs[k] \in Seq(S) /\ Len(seqs[k]) = 5 /\ seqs[k] = Parens(c[k])
  <2>1. c[k] \in Seq(S) /\ Len(c[k]) = 3 /\ seqs[k] = Parens(c[k])
    BY <1>1
  <2> HIDE DEF seqs
  <2>2. Parens(c[k]) \in Seq(S) /\ Len(Parens(c[k])) = Len(c[k]) + 2
    BY <2>1, ParensLaid
  <2> QED BY <2>1, <2>2
<1>4. CASE n = 0
  <2>1. seqs = <<>>
    BY <1>2, <1>4
  <2>2. s = <<>>
    <3> HIDE DEF seqs
    <3> QED BY <2>1 DEF FlattenSeq
  <2>3. s \in Seq(S) /\ Len(s) = 5 * n
    <3> HIDE DEF s, n
    <3>1. <<>> \in Seq(S) /\ Len(<<>>) = 0 /\ 5 * n = 0
      BY <1>4
    <3> QED BY <2>2, <3>1
  <2> HIDE DEF s
  <2> QED BY <1>4, <2>3 DEF s
<1>5. CASE n > 0
  <2> DEFINE tok(j) == seqs[((j - 1) \div 5) + 1][((j - 1) % 5) + 1]
             g == [m \in 1 .. n |-> [j \in 1 .. 5 * m |-> tok(j)]]
  <2>1. ASSUME NEW m \in 1 .. n, NEW j \in 1 .. 5 * m PROVE tok(j) \in S
    <3>1. j \in Nat /\ j >= 1 /\ m \in Nat
      BY <1>1
    <3>2. /\ (j - 1) \div 5 \in Nat /\ (j - 1) % 5 \in 0 .. 4
          /\ j = 5 * ((j - 1) \div 5) + ((j - 1) % 5) + 1
      BY <3>1, InFives
    <3> DEFINE d == (j - 1) \div 5
               r == (j - 1) % 5
    <3>3. d \in Nat /\ r \in 0 .. 4 /\ j = 5 * d + r + 1
      BY <3>2
    <3> HIDE DEF d, r
    <3>4. d + 1 \in 1 .. n /\ r + 1 \in 1 .. 5
      BY <1>1, <3>1, <3>3
    <3>5. seqs[d + 1] \in Seq(S) /\ Len(seqs[d + 1]) = 5
      BY <1>3, <3>4
    <3> HIDE DEF seqs
    <3>6. seqs[d + 1][r + 1] \in S
      BY <3>4, <3>5
    <3> QED BY <3>6 DEF d, r
  <2>2. ASSUME NEW m \in 1 .. n
        PROVE  /\ g[m] \in Seq(S) /\ Len(g[m]) = 5 * m
               /\ \A j \in 1 .. 5 * m : g[m][j] = tok(j)
    <3> DEFINE e == [j \in 1 .. 5 * m |-> tok(j)]
    <3>1. g[m] = e
      BY <2>2
    <3>2. e \in [1 .. 5 * m -> S]
      BY <2>1, <2>2
    <3>3. \A j \in 1 .. 5 * m : e[j] = tok(j)
      OBVIOUS
    <3>4. 5 * m \in Nat
      BY <1>1
    <3> HIDE DEF e, g, tok
    <3> DEFINE i == 5 * m
    <3> HIDE DEF i
    <3>5. i \in Nat /\ e \in [1 .. i -> S]
      BY <3>2, <3>4 DEF i
    <3>6. e \in Seq(S) /\ Len(e) = i
      BY <3>5
    <3> QED BY <3>1, <3>3, <3>6 DEF i
  <2>3. ASSUME NEW k \in 1 .. n, NEW l \in 1 .. 5 PROVE tok(5 * (k - 1) + l) = seqs[k][l]
    <3> DEFINE j == 5 * (k - 1) + l
    <3>1. j \in Nat /\ j >= 1 /\ k - 1 \in Nat /\ j = 5 * (k - 1) + l
      BY <1>1
    <3> HIDE DEF j
    <3>2. (j - 1) \div 5 = k - 1 /\ (j - 1) % 5 = l - 1
      BY <3>1, InFives
    <3>3. (k - 1) + 1 = k /\ (l - 1) + 1 = l
      BY <1>1
    <3>4. tok(j) = seqs[k][l]
      BY <3>2, <3>3
    <3> QED BY <3>4 DEF j
  <2>4. ASSUME NEW m \in 1 .. n
        PROVE  g[m] = IF m = 1 THEN seqs[m] ELSE g[m - 1] \o seqs[m]
    <3>1. seqs[m] \in Seq(S) /\ Len(seqs[m]) = 5
      BY <1>3
    <3>2. /\ g[m] \in Seq(S) /\ Len(g[m]) = 5 * m
          /\ \A j \in 1 .. 5 * m : g[m][j] = tok(j)
      BY <2>2
    <3>3. \A l \in 1 .. 5 : tok(5 * (m - 1) + l) = seqs[m][l]
      BY <2>3
    <3>4. CASE m = 1
      <4> HIDE DEF g, tok, seqs
      <4>1. \A l \in 1 .. 5 : g[m][l] = seqs[m][l]
        <5> TAKE l \in 1 .. 5
        <5>1. 5 * (m - 1) + l = l /\ l \in 1 .. 5 * m
          BY <3>4
        <5> QED BY <3>2, <3>3, <5>1
      <4>2. Len(g[m]) = 5
        BY <3>2, <3>4
      <4>3. g[m] = seqs[m]
        <5> DEFINE a == g[m]
                   b == seqs[m]
        <5> HIDE DEF a, b
        <5>1. /\ a \in Seq(S) /\ Len(a) = 5 /\ b \in Seq(S) /\ Len(b) = 5
              /\ \A l \in 1 .. 5 : a[l] = b[l]
          BY <3>1, <3>2, <4>1, <4>2 DEF a, b
        <5>2. Len(a) = Len(b) /\ \A l \in 1 .. Len(a) : a[l] = b[l]
          BY <5>1
        <5>3. a = b
          BY ONLY <5>1, <5>2, SeqEqual
        <5> QED BY <5>3 DEF a, b
      <4> QED BY <3>4, <4>3
    <3>5. CASE m # 1
      <4>1. m - 1 \in 1 .. n /\ m \in Nat
        BY <1>1, <3>5
      <4>2. /\ g[m - 1] \in Seq(S) /\ Len(g[m - 1]) = 5 * (m - 1)
            /\ \A j \in 1 .. 5 * (m - 1) : g[m - 1][j] = tok(j)
        BY <2>2, <4>1
      <4> DEFINE a == g[m - 1]
                 b == seqs[m]
                 w == g[m]
                 i == 5 * (m - 1)
      <4>3. i \in Nat /\ 5 * m = i + 5
        BY <4>1
      <4>4. /\ a \in Seq(S) /\ Len(a) = i /\ \A j \in 1 .. i : a[j] = tok(j)
            /\ b \in Seq(S) /\ Len(b) = 5 /\ \A l \in 1 .. 5 : tok(i + l) = b[l]
            /\ w \in Seq(S) /\ Len(w) = i + 5 /\ \A j \in 1 .. i + 5 : w[j] = tok(j)
        BY <3>1, <3>2, <3>3, <4>2, <4>3
      <4> HIDE DEF a, b, w, i, tok
      <4> DEFINE ab == a \o b
      <4> HIDE DEF ab
      <4>5. /\ i = Len(a) /\ 5 = Len(b) /\ ab = a \o b
            /\ a \in Seq(S) /\ b \in Seq(S)
        BY <4>4 DEF ab
      <4>6. /\ ab \in Seq(S) /\ Len(ab) = i + 5
            /\ \A k \in 1 .. i : ab[k] = a[k]
            /\ \A k \in 1 .. 5 : ab[i + k] = b[k]
        <5>1. /\ ab \in Seq(S) /\ Len(a) \in Nat /\ Len(b) \in Nat
              /\ Len(ab) = Len(a) + Len(b)
              /\ \A k \in 1 .. Len(a) : ab[k] = a[k]
              /\ \A k \in 1 .. Len(b) : ab[Len(a) + k] = b[k]
          BY <4>5, BehindEachOther
        <5> QED BY <4>4, <4>5, <5>1
      <4>7. ASSUME NEW j \in 1 .. i + 5 PROVE w[j] = ab[j]
        <5>1. CASE j <= i
          <6>1. j \in 1 .. i
            BY <4>3, <5>1
          <6> QED BY <4>4, <4>6, <6>1
        <5>2. CASE j > i
          <6>1. j - i \in 1 .. 5 /\ i + (j - i) = j
            BY <4>3, <5>2
          <6>2. ab[j] = b[j - i]
            BY <4>6, <6>1
          <6>3. tok(j) = b[j - i]
            BY <4>4, <6>1
          <6> QED BY <4>4, <6>2, <6>3
        <5> QED BY <4>3, <5>1, <5>2
      <4>8. w = ab
        BY <4>4, <4>6, <4>7
      <4> QED BY <3>5, <4>8, Zenon DEF w, ab, a, b
    <3> QED BY <3>4, <3>5
  <2>5. g = [m \in 1 .. n |-> IF m = 1 THEN seqs[m] ELSE g[m - 1] \o seqs[m]]
    <3>1. g = [m \in 1 .. n |-> g[m]]
      OBVIOUS
    <3> HIDE DEF g, seqs
    <3> QED BY <2>4, <3>1
  <2>6. s = g[n]
    <3> HIDE DEF g, seqs
    <3>1. FlattenSeq(seqs) = g[n]
      BY <1>1, <1>2, <1>5, <2>5, FlattenIs
    <3> QED BY <3>1
  <2>7. n \in 1 .. n
    BY <1>1, <1>5
  <2>8. /\ g[n] \in Seq(S) /\ Len(g[n]) = 5 * n
        /\ \A j \in 1 .. 5 * n : g[n][j] = tok(j)
    BY <2>2, <2>7
  <2>9. ASSUME NEW k \in 1 .. n, NEW l \in 1 .. 5 PROVE g[n][5 * (k - 1) + l] = Parens(c[k])[l]
    <3>1. 5 * (k - 1) + l \in 1 .. 5 * n
      BY <1>1
    <3>2. tok(5 * (k - 1) + l) = seqs[k][l]
      BY <2>3
    <3>3. seqs[k] = Parens(c[k])
      BY <1>3
    <3> HIDE DEF g, tok, seqs
    <3> QED BY <2>8, <3>1, <3>2, <3>3
  <2> HIDE DEF g, s, tok
  <2> QED BY <1>1, <2>6, <2>8, <2>9 DEF s
<1> QED BY <1>1, <1>4, <1>5

\* A statement of the tokens of a complex query, in their places.
LEMMA SpellingLaid ==
    ASSUME NEW S, NEW v \in S, NEW x \in S, "FROM" \in S,
           NEW o \in Seq(S), NEW w \in Seq(S),
           NEW t, t = <<v>> \o o \o <<"FROM", x>> \o w
    PROVE  /\ Len(t) = Len(o) + Len(w) + 3 /\ t[1] = v
           /\ \A k \in 1 .. Len(o) : t[k + 1] = o[k]
           /\ t[Len(o) + 2] = "FROM" /\ t[Len(o) + 3] = x
           /\ \A k \in 1 .. Len(w) : t[Len(o) + 3 + k] = w[k]
<1> DEFINE a == <<v>>
           b == <<"FROM", x>>
           ao == a \o o
           aob == ao \o b
           m == Len(o)
           n == Len(w)
<1>1. /\ a \in Seq(S) /\ Len(a) = 1 /\ a[1] = v
      /\ b \in Seq(S) /\ Len(b) = 2 /\ b[1] = "FROM" /\ b[2] = x
  BY OneOrTwo
<1>2. t = aob \o w
  OBVIOUS
<1> HIDE DEF a, b, ao, aob, m, n
<1>3. ao = a \o o /\ aob = ao \o b /\ m = Len(o) /\ n = Len(w) /\ 1 = Len(a) /\ 2 = Len(b)
  BY <1>1 DEF ao, aob, m, n
<1>4. /\ ao \in Seq(S) /\ m \in Nat /\ Len(ao) = 1 + m
      /\ \A k \in 1 .. 1 : ao[k] = a[k]
      /\ \A k \in 1 .. m : ao[1 + k] = o[k]
  <2>1. /\ ao \in Seq(S) /\ Len(a) \in Nat /\ Len(o) \in Nat
        /\ Len(ao) = Len(a) + Len(o)
        /\ \A k \in 1 .. Len(a) : ao[k] = a[k]
        /\ \A k \in 1 .. Len(o) : ao[Len(a) + k] = o[k]
    <3>1. a \in Seq(S) /\ o \in Seq(S) /\ ao = a \o o
      BY <1>1, <1>3
    <3> QED BY <3>1, BehindEachOther
  <2> QED BY <1>3, <2>1
<1>5. /\ aob \in Seq(S) /\ Len(aob) = (1 + m) + 2
      /\ \A k \in 1 .. 1 + m : aob[k] = ao[k]
      /\ \A k \in 1 .. 2 : aob[(1 + m) + k] = b[k]
  <2>1. 1 + m = Len(ao)
    BY <1>4
  <2>2. /\ aob \in Seq(S) /\ Len(ao) \in Nat /\ Len(b) \in Nat
        /\ Len(aob) = Len(ao) + Len(b)
        /\ \A k \in 1 .. Len(ao) : aob[k] = ao[k]
        /\ \A k \in 1 .. Len(b) : aob[Len(ao) + k] = b[k]
    <3>1. ao \in Seq(S) /\ b \in Seq(S) /\ aob = ao \o b
      BY <1>1, <1>3, <1>4
    <3> QED BY <3>1, BehindEachOther
  <2> QED BY <1>3, <2>1, <2>2
<1>6. /\ n \in Nat /\ Len(t) = ((1 + m) + 2) + n
      /\ \A k \in 1 .. (1 + m) + 2 : t[k] = aob[k]
      /\ \A k \in 1 .. n : t[((1 + m) + 2) + k] = w[k]
  <2>1. (1 + m) + 2 = Len(aob)
    BY <1>5
  <2>2. /\ t \in Seq(S) /\ Len(aob) \in Nat /\ Len(w) \in Nat
        /\ Len(t) = Len(aob) + Len(w)
        /\ \A k \in 1 .. Len(aob) : t[k] = aob[k]
        /\ \A k \in 1 .. Len(w) : t[Len(aob) + k] = w[k]
    <3>1. aob \in Seq(S) /\ w \in Seq(S) /\ t = aob \o w
      BY <1>2, <1>5
    <3> QED BY ONLY <3>1, BehindEachOther
  <2> QED BY <1>3, <2>1, <2>2
<1>7. t[1] = v
  <2>1. 1 \in 1 .. 1 /\ 1 \in 1 .. 1 + m /\ 1 \in 1 .. (1 + m) + 2
    BY <1>4, <1>6
  <2> QED BY <1>1, <1>4, <1>5, <1>6, <2>1
<1>8. \A k \in 1 .. m : t[k + 1] = o[k]
  <2> TAKE k \in 1 .. m
  <2>1. k + 1 = 1 + k /\ 1 + k \in 1 .. 1 + m /\ 1 + k \in 1 .. (1 + m) + 2
    BY <1>4, <1>6
  <2> QED BY <1>4, <1>5, <1>6, <2>1
<1>9. t[m + 2] = "FROM" /\ t[m + 3] = x
  <2>1. /\ 1 \in 1 .. 2 /\ (1 + m) + 1 = m + 2 /\ m + 2 \in 1 .. (1 + m) + 2
        /\ 2 \in 1 .. 2 /\ (1 + m) + 2 = m + 3 /\ m + 3 \in 1 .. (1 + m) + 2
    BY <1>4, <1>6
  <2>2. aob[(1 + m) + 1] = b[1] /\ aob[(1 + m) + 2] = b[2]
    BY <1>4, <1>5, <1>6, <2>1
  <2> QED BY <1>1, <1>4, <1>5, <1>6, <2>1, <2>2
<1>10. \A k \in 1 .. n : t[m + 3 + k] = w[k]
  <2> TAKE k \in 1 .. n
  <2>1. m + 3 + k = ((1 + m) + 2) + k
    BY <1>4, <1>6
  <2> QED BY <1>4, <1>5, <1>6, <2>1
<1>11. Len(t) = m + n + 3
  BY <1>4, <1>6
<1> QED BY <1>7, <1>8, <1>9, <1>10, <1>11 DEF m, n

\* The tokens there are: those of a text, and those of the language itself.
Tokens == Name \cup {"(", ")", "FROM", "WHERE"} \cup DOMAIN ComplexTypes

LEMMA TextOfTokens == \A s \in Text : s \in Seq(Tokens)
<1> TAKE s \in Text
<1>1. Len(s) \in Nat /\ DOMAIN s = 1 .. Len(s) /\ s \in [1 .. Len(s) -> STRING]
  BY DEF Text
<1>2. STRING \subseteq Tokens
  BY Zenon DEF Tokens, Name
<1>3. s \in [1 .. Len(s) -> Tokens]
  BY <1>1, <1>2
<1> QED BY <1>1, <1>3

\* The operands of a query are spelt by nothing, or by themselves in parentheses.
LEMMA OperandsLaid ==
    ASSUME NEW q \in Query, NEW o \in Operands(q)
    PROVE  /\ o \in Seq(Tokens) /\ q.operands \in Text /\ Len(q.operands) \in Nat
           /\ \/ o = <<>> /\ q.operands = <<>>
              \/ /\ Len(o) = Len(q.operands) + 2
                 /\ o[1] = "(" /\ o[Len(q.operands) + 2] = ")"
                 /\ \A k \in 1 .. Len(q.operands) : o[k + 1] = q.operands[k]
<1>1. q.operands \in Text
  BY DEF Query
<1>2. q.operands \in Seq(Tokens) /\ Len(q.operands) \in Nat
  BY <1>1, TextOfTokens
<1>3. CASE o = Parens(q.operands)
  <2>1. "(" \in Tokens /\ ")" \in Tokens
    BY Zenon DEF Tokens
  <2>2. /\ Parens(q.operands) \in Seq(Tokens)
        /\ Len(Parens(q.operands)) = Len(q.operands) + 2
        /\ Parens(q.operands)[1] = "(" /\ Parens(q.operands)[Len(q.operands) + 2] = ")"
        /\ \A k \in 1 .. Len(q.operands) : Parens(q.operands)[k + 1] = q.operands[k]
    BY <1>2, <2>1, ParensLaid
  <2> QED BY <1>1, <1>2, <1>3, <2>2
<1>4. CASE o = <<>> /\ q.operands = <<>>
  <2>1. <<>> \in Seq(Tokens)
    OBVIOUS
  <2> QED BY <1>1, <1>2, <1>4, <2>1
<1> QED BY <1>3, <1>4 DEF Operands

\* The conditions of a query: nothing, or WHERE and the groups of five.
LEMMA WhereLaid ==
    ASSUME NEW q \in Query, \A k \in DOMAIN q.condition : Len(q.condition[k]) = 3,
           NEW w \in Where(q)
    PROVE  /\ w \in Seq(Tokens) /\ q.condition \in Seq(Text) /\ Len(q.condition) \in Nat
           /\ \/ w = <<>> /\ q.condition = <<>>
              \/ /\ Len(w) = 5 * Len(q.condition) + 1 /\ w[1] = "WHERE"
                 /\ \A k \in 1 .. Len(q.condition), l \in 1 .. 5 :
                       w[5 * (k - 1) + l + 1] = Parens(q.condition[k])[l]
<1> DEFINE c == q.condition
           s == FlattenSeq([k \in DOMAIN c |-> Parens(c[k])])
           h == <<"WHERE">>
           n == Len(c)
<1>1. c \in Seq(Text) /\ n \in Nat /\ DOMAIN c = 1 .. n /\ \A k \in 1 .. n : c[k] \in Text
  BY DEF Query
<1>2. c \in Seq(Seq(Tokens))
  <2>1. \A k \in 1 .. n : c[k] \in Seq(Tokens)
    BY <1>1, TextOfTokens
  <2>2. c = [k \in 1 .. n |-> c[k]]
    BY <1>1
  <2> HIDE DEF c, n
  <2>3. c \in [1 .. n -> Seq(Tokens)]
    BY <2>1, <2>2
  <2> QED BY <1>1, <2>3
<1>3. CASE w = <<>> /\ c = <<>>
  <2>1. <<>> \in Seq(Tokens)
    OBVIOUS
  <2> QED BY <1>1, <1>3, <2>1
<1>4. CASE w = h \o s
  <2>1. "(" \in Tokens /\ ")" \in Tokens /\ "WHERE" \in Tokens
    BY Zenon DEF Tokens
  <2>2. h \in Seq(Tokens) /\ Len(h) = 1 /\ h[1] = "WHERE"
    BY <2>1, OneOrTwo
  <2>3. /\ s \in Seq(Tokens) /\ Len(s) = 5 * n
        /\ \A k \in 1 .. n, l \in 1 .. 5 : s[5 * (k - 1) + l] = Parens(c[k])[l]
    <3> HIDE DEF c
    <3>1. \A k \in DOMAIN c : Len(c[k]) = 3
      BY DEF c
    <3> QED BY <1>2, <2>1, <3>1, GroupsLaid
  <2> HIDE DEF s, h
  <2> HIDE DEF n
  <2>4. w = h \o s /\ 1 = Len(h) /\ 5 * n = Len(s)
    BY <1>4, <2>2, <2>3
  <2>5. /\ w \in Seq(Tokens) /\ Len(w) = 1 + 5 * n
        /\ \A k \in 1 .. 1 : w[k] = h[k]
        /\ \A k \in 1 .. 5 * n : w[1 + k] = s[k]
    <3>1. /\ w \in Seq(Tokens) /\ Len(h) \in Nat /\ Len(s) \in Nat
          /\ Len(w) = Len(h) + Len(s)
          /\ \A k \in 1 .. Len(h) : w[k] = h[k]
          /\ \A k \in 1 .. Len(s) : w[Len(h) + k] = s[k]
      <4>1. h \in Seq(Tokens) /\ s \in Seq(Tokens) /\ w = h \o s
        BY <2>2, <2>3, <2>4
      <4> QED BY <4>1, BehindEachOther
    <3> QED BY <2>4, <3>1
  <2>6. w[1] = "WHERE" /\ Len(w) = 5 * n + 1
    <3>1. 1 \in 1 .. 1 /\ 1 + 5 * n = 5 * n + 1
      BY <1>1
    <3> QED BY <2>2, <2>5, <3>1
  <2>7. ASSUME NEW k \in 1 .. n, NEW l \in 1 .. 5
        PROVE  w[5 * (k - 1) + l + 1] = Parens(c[k])[l]
    <3>1. 5 * (k - 1) + l \in 1 .. 5 * n /\ 5 * (k - 1) + l + 1 = 1 + (5 * (k - 1) + l)
      BY <1>1
    <3>2. w[1 + (5 * (k - 1) + l)] = s[5 * (k - 1) + l]
      BY <2>5, <3>1
    <3> QED BY <2>3, <3>1, <3>2
  <2> QED BY <1>1, <2>5, <2>6, <2>7 DEF n
<1> QED BY <1>3, <1>4 DEF Where

\* A statement that spells a complex query has its tokens where parseToken looks.
LEMMA ComplexLaid ==
    ASSUME NEW q \in Query, \A k \in DOMAIN q.condition : Len(q.condition[k]) = 3,
           NEW v \in DOMAIN ComplexTypes, q.type = ComplexTypes[v],
           NEW t \in Text, t \in Spellings(q)
    PROVE  \E f \in 2 .. Len(t) - 1 :
              /\ t[1] = v /\ t[f] = "FROM" /\ t[f + 1] = q.table
              /\ OperandsAre(t, f, q.operands) /\ WhereIs(t, f + 2, q.condition)
<1>1. PICK o \in Operands(q), w \in Where(q) : t = Spelling(q, o, w)
  <2>1. q.type \notin {"List", "Quit", "PrintTable", "Listen", "Load", "Dump", "CopyTable",
                       "Drop", "Truncate"}
    BY DEF ComplexTypes
  <2>2. Spellings(q) = {Spelling(q, o, w) : o \in Operands(q), w \in Where(q)}
    BY <2>1 DEF Spellings
  <2> QED BY <2>2
<1>2. t = <<v>> \o o \o <<"FROM", q.table>> \o w
  <2>1. Words(q.type, ComplexTypes) = v
    BY WordOfComplex
  <2> QED BY <1>1, <2>1 DEF Spelling
<1>3. /\ o \in Seq(Tokens) /\ q.operands \in Text /\ Len(q.operands) \in Nat
      /\ \/ o = <<>> /\ q.operands = <<>>
         \/ /\ Len(o) = Len(q.operands) + 2
            /\ o[1] = "(" /\ o[Len(q.operands) + 2] = ")"
            /\ \A k \in 1 .. Len(q.operands) : o[k + 1] = q.operands[k]
  BY OperandsLaid
<1>4. /\ w \in Seq(Tokens) /\ q.condition \in Seq(Text) /\ Len(q.condition) \in Nat
      /\ \/ w = <<>> /\ q.condition = <<>>
         \/ /\ Len(w) = 5 * Len(q.condition) + 1 /\ w[1] = "WHERE"
            /\ \A k \in 1 .. Len(q.condition), l \in 1 .. 5 :
                  w[5 * (k - 1) + l + 1] = Parens(q.condition[k])[l]
  BY WhereLaid
<1> DEFINE f == Len(o) + 2
           m == Len(o)
           p == q.operands
           c == q.condition
           n == Len(c)
<1>5. /\ Len(t) = m + Len(w) + 3 /\ t[1] = v
      /\ \A k \in 1 .. m : t[k + 1] = o[k]
      /\ t[m + 2] = "FROM" /\ t[m + 3] = q.table
      /\ \A k \in 1 .. Len(w) : t[m + 3 + k] = w[k]
  <2>1. v \in Tokens /\ "FROM" \in Tokens
    BY Zenon DEF Tokens
  <2>2. q.table \in Tokens
    <3>1. q.table \in Name
      BY DEF Query
    <3> QED BY <3>1, Zenon DEF Tokens, Name
  <2>3. o \in Seq(Tokens) /\ w \in Seq(Tokens)
    BY <1>3, <1>4
  <2> QED BY <1>2, <2>1, <2>2, <2>3, SpellingLaid
<1>6. /\ m \in Nat /\ Len(w) \in Nat /\ Len(t) \in Nat
      /\ \A k \in 1 .. Len(t) : t[k] \in STRING
  BY <1>3, <1>4 DEF Text
<1> HIDE DEF m, n, p, c
<1>7. f = m + 2 /\ f + 1 = m + 3 /\ f \in 2 .. Len(t) - 1
  BY <1>5, <1>6 DEF m
<1>8. OperandsAre(t, f, p)
  <2>1. CASE o = <<>> /\ p = <<>>
    <3>1. m = 0
      BY <2>1 DEF m
    <3> QED BY <1>7, <2>1, <3>1 DEF OperandsAre
  <2>2. CASE /\ m = Len(p) + 2
             /\ o[1] = "(" /\ o[Len(p) + 2] = ")"
             /\ \A k \in 1 .. Len(p) : o[k + 1] = p[k]
    <3> DEFINE l == Len(p)
    <3>1. p \in Text /\ l \in Nat /\ m = l + 2
      BY <1>3, <2>2 DEF p
    <3>2. t[2] = "("
      <4>1. 1 \in 1 .. m /\ 1 + 1 = 2
        BY <3>1
      <4> QED BY <1>5, <2>2, <4>1
    <3>3. t[f - 1] = ")"
      <4>1. m \in 1 .. m /\ m + 1 = f - 1
        BY <1>6, <1>7, <3>1
      <4>2. o[m] = ")"
        BY <2>2
      <4> QED BY <1>5, <4>1, <4>2
    <3>4. f >= 4 /\ f - 2 = l + 2
      BY <1>7, <3>1
    <3>5. p = SubSeq(t, 3, l + 2)
      <4>1. /\ 3 \in Nat /\ l + 2 \in Int /\ 1 <= 3 /\ l + 2 <= Len(t)
            /\ 3 <= (l + 2) + 1 /\ (l + 2) - 3 + 1 = l
        BY <1>6, <1>7, <3>1
      <4>2. /\ SubSeq(t, 3, l + 2) \in Text
            /\ Len(SubSeq(t, 3, l + 2)) = (l + 2) - 3 + 1
            /\ \A k \in 1 .. (l + 2) - 3 + 1 : SubSeq(t, 3, l + 2)[k] = t[3 + k - 1]
        BY <4>1, PartOf
      <4> DEFINE s == SubSeq(t, 3, l + 2)
      <4> HIDE DEF s, l
      <4>3. s \in Text /\ Len(s) = l /\ \A k \in 1 .. l : s[k] = t[3 + k - 1]
        BY <4>1, <4>2 DEF s
      <4>4. \A k \in 1 .. l : p[k] = s[k]
        <5> TAKE k \in 1 .. l
        <5>1. k + 1 \in 1 .. m /\ (k + 1) + 1 = 3 + k - 1
          BY <3>1
        <5>2. t[(k + 1) + 1] = o[k + 1]
          BY <1>5, <5>1
        <5>3. o[k + 1] = p[k]
          BY <2>2 DEF l
        <5> QED BY <4>3, <5>1, <5>2, <5>3
      <4>5. p = s
        BY <3>1, <4>3, <4>4, SameText DEF l
      <4> QED BY <4>5 DEF s
    <3> QED BY <3>2, <3>3, <3>4, <3>5 DEF OperandsAre
  <2> QED BY <1>3, <2>1, <2>2 DEF m, p
<1>9. WhereIs(t, f + 2, c)
  <2>1. CASE w = <<>> /\ c = <<>>
    <3>1. f + 2 = Len(t) + 1
      <4>1. Len(w) = 0
        BY <2>1
      <4> QED BY <1>5, <1>6, <1>7, <4>1
    <3> QED BY <2>1, <3>1 DEF WhereIs
  <2>2. CASE /\ Len(w) = 5 * n + 1 /\ w[1] = "WHERE"
             /\ \A k \in 1 .. n, l \in 1 .. 5 : w[5 * (k - 1) + l + 1] = Parens(c[k])[l]
    <3> DEFINE i == f + 3
    <3>1. /\ c \in Seq(Text) /\ n \in Nat /\ DOMAIN c = 1 .. n
          /\ \A k \in 1 .. n : c[k] \in Text /\ Len(c[k]) = 3
      <4>1. c \in Seq(Text) /\ \A k \in DOMAIN c : Len(c[k]) = 3
        BY <1>4 DEF c
      <4> QED BY <4>1 DEF n
    <3>2. i \in Nat /\ i = m + 5 /\ Len(t) = m + (5 * n + 1) + 3
      BY <1>5, <1>6, <1>7, <2>2
    <3> HIDE DEF i
    <3>3. t[f + 2] = "WHERE"
      <4>1. 1 \in 1 .. Len(w) /\ m + 3 + 1 = f + 2
        BY <1>6, <1>7, <2>2, <3>1
      <4> QED BY <1>5, <2>2, <4>1
    <3>4. f + 2 <= Len(t) /\ (f + 2) + 1 = i /\ Len(t) = (f + 2) + 5 * n
      BY <1>6, <1>7, <3>1, <3>2
    \* The groups of t.
    <3>5. ASSUME NEW k \in 1 .. n
          PROVE  /\ i + 5 * (k - 1) \in Nat /\ i + 5 * (k - 1) + 4 <= Len(t)
                 /\ t[i + 5 * (k - 1)] = "(" /\ t[i + 5 * (k - 1) + 4] = ")"
                 /\ \A l \in 1 .. 3 : t[i + 5 * (k - 1) + l] = c[k][l]
      <4>1. k - 1 \in Nat /\ k <= n /\ i + 5 * (k - 1) \in Nat
            /\ i + 5 * (k - 1) + 4 <= Len(t)
        BY <3>1, <3>2, <1>6
      <4>2. ASSUME NEW l \in 1 .. 5
            PROVE  t[i + 5 * (k - 1) + l - 1] = Parens(c[k])[l]
        <5>1. /\ 5 * (k - 1) + l + 1 \in 1 .. Len(w)
              /\ m + 3 + (5 * (k - 1) + l + 1) = i + 5 * (k - 1) + l - 1
          BY <1>6, <2>2, <3>1, <3>2, <4>1
        <5>2. t[m + 3 + (5 * (k - 1) + l + 1)] = w[5 * (k - 1) + l + 1]
          BY <1>5, <5>1
        <5>3. w[5 * (k - 1) + l + 1] = Parens(c[k])[l]
          BY <2>2
        <5> QED BY <5>1, <5>2, <5>3
      <4> DEFINE e == c[k]
                 a == i + 5 * (k - 1)
      <4>3. e \in Seq(Tokens) /\ Len(e) = 3
        BY <3>1, TextOfTokens
      <4>4. "(" \in Tokens /\ ")" \in Tokens
        BY Zenon DEF Tokens
      <4> HIDE DEF e
      <4>5. /\ Parens(e)[1] = "(" /\ Parens(e)[Len(e) + 2] = ")"
            /\ \A l \in 1 .. Len(e) : Parens(e)[l + 1] = e[l]
        BY <4>3, <4>4, ParensLaid
      <4> HIDE DEF a
      <4>6. a \in Nat /\ \A l \in 1 .. 5 : t[a + l - 1] = Parens(e)[l]
        BY <4>1, <4>2 DEF a, e
      <4>7. t[a] = "("
        <5>1. 1 \in 1 .. 5 /\ a + 1 - 1 = a
          BY <4>6
        <5> QED BY <4>5, <4>6, <5>1
      <4>8. t[a + 4] = ")"
        <5>1. 5 \in 1 .. 5 /\ a + 5 - 1 = a + 4 /\ Len(e) + 2 = 5
          BY <4>3, <4>6
        <5> QED BY <4>5, <4>6, <5>1
      <4>9. \A l \in 1 .. 3 : t[a + l] = e[l]
        <5> TAKE l \in 1 .. 3
        <5>1. l + 1 \in 1 .. 5 /\ a + (l + 1) - 1 = a + l /\ l \in 1 .. Len(e)
          BY <4>3, <4>6
        <5> QED BY <4>5, <4>6, <5>1
      <4> QED BY <4>1, <4>7, <4>8, <4>9 DEF a, e
    <3>6. \A k \in 0 .. n - 1 : IsGroup(t, i + 5 * k)
      <4> TAKE k \in 0 .. n - 1
      <4>1. k + 1 \in 1 .. n /\ (k + 1) - 1 = k
        BY <3>1
      <4>2. /\ i + 5 * ((k + 1) - 1) + 4 <= Len(t)
            /\ t[i + 5 * ((k + 1) - 1)] = "(" /\ t[i + 5 * ((k + 1) - 1) + 4] = ")"
        BY <3>5, <4>1
      <4> QED BY <4>1, <4>2 DEF IsGroup
    <3>7. c = Conditions(t, i, n)
      <4>1. ASSUME NEW k \in 1 .. n
            PROVE  c[k] = SubSeq(t, i + 5 * (k - 1) + 1, i + 5 * (k - 1) + 3)
        <5> DEFINE a == i + 5 * (k - 1)
                   e == c[k]
                   s == SubSeq(t, a + 1, a + 3)
        <5>1. /\ a \in Nat /\ a + 4 <= Len(t) /\ e \in Text /\ Len(e) = 3
              /\ \A l \in 1 .. 3 : t[a + l] = e[l]
          BY <3>1, <3>5
        <5> HIDE DEF a, e
        <5>2. /\ a + 1 \in Nat /\ a + 3 \in Int /\ 1 <= a + 1 /\ a + 3 <= Len(t)
              /\ a + 1 <= (a + 3) + 1 /\ (a + 3) - (a + 1) + 1 = 3
          BY <1>6, <5>1
        <5>3. /\ s \in Text /\ Len(s) = (a + 3) - (a + 1) + 1
              /\ \A l \in 1 .. (a + 3) - (a + 1) + 1 : s[l] = t[(a + 1) + l - 1]
          BY <5>2, PartOf
        <5> HIDE DEF s
        <5>4. Len(s) = 3 /\ \A l \in 1 .. 3 : s[l] = t[(a + 1) + l - 1]
          BY <5>2, <5>3
        <5>5. \A l \in 1 .. 3 : e[l] = s[l]
          <6> TAKE l \in 1 .. 3
          <6>1. (a + 1) + l - 1 = a + l
            BY <5>1
          <6> QED BY <5>1, <5>4, <6>1
        <5>6. e = s
          BY <5>1, <5>3, <5>4, <5>5, SameText
        <5> QED BY <5>6 DEF a, e, s
      <4>2. c = [k \in 1 .. n |-> c[k]]
        BY <3>1
      <4> QED BY <4>1, <4>2 DEF Conditions
    <3> QED BY <3>1, <3>3, <3>4, <3>6, <3>7 DEF WhereIs
  <2> QED BY <1>4, <2>1, <2>2 DEF n, c
<1> HIDE DEF f
<1> QED BY <1>5, <1>7, <1>8, <1>9 DEF p, c
-----------------------------------------------------------------------------
(* And how the builders read it: every other lemma above, the other way.   *)

\* A builder that is given conditions, and a table in front of them.
WithConditions(b, c)    == [b EXCEPT !.conditionToken = @ \o c]
WithTarget(b, table, c) == [b EXCEPT !.targetTable = table, !.conditionToken = @ \o c]

\* The conditions of a statement whose end spells them.
LEMMA WhereRead ==
    ASSUME NEW b, NEW t \in Text, NEW i \in Nat, 1 <= i, NEW n \in Nat,
           Len(t) = i + 5 * n - 1, \A k \in 0 .. n - 1 : IsGroup(t, i + 5 * k)
    PROVE  parseWhereConditions(b, t, i) = Parsed(WithConditions(b, Conditions(t, i, n)))
<1> DEFINE S == {k \in 0 .. Len(t) : ~IsGroup(t, i + 5 * k)}
           m == Min(S)
<1>1. Len(t) \in Nat
  BY DEF Text
<1>2. n \in S
  <2>1. n \in 0 .. Len(t)
    BY <1>1
  <2>2. ~IsGroup(t, i + 5 * n)
    <3>1. ~(i + 5 * n + 4 <= Len(t))
      BY <1>1
    <3> QED BY <3>1 DEF IsGroup
  <2> QED BY <2>1, <2>2
<1>3. \A k \in S : n <= k
  <2> SUFFICES ASSUME NEW k \in S, k < n PROVE FALSE
    BY <1>1
  <2>1. k \in 0 .. n - 1
    BY <1>1
  <2> QED BY <2>1
<1>4. m = n
  <2>1. S \in SUBSET Nat
    BY <1>1
  <2> HIDE DEF S
  <2>2. Min(S) \in S /\ \A k \in S : Min(S) <= k
    BY <1>2, <2>1, MinIs
  <2>3. Min(S) \in Nat /\ Min(S) <= n /\ n <= Min(S)
    BY <1>2, <1>3, <2>1, <2>2
  <2> QED BY <2>3
<1>5. parseWhereConditions(b, t, i) =
         IF i + 5 * m > Len(t) THEN Parsed(WithConditions(b, Conditions(t, i, m)))
         ELSE IllFormed(WithConditions(b, Conditions(t, i, m)))
  BY DEF parseWhereConditions, IsGroup, Conditions, WithConditions
<1> HIDE DEF m
<1>6. i + 5 * n > Len(t)
  BY <1>1
<1> QED BY <1>4, <1>5, <1>6

\* The table and the conditions behind the FROM at place f.
LEMMA TargetRead ==
    ASSUME NEW b \in Builder, NEW t \in Text, NEW f \in 2 .. Len(t) - 1,
           NEW c, WhereIs(t, f + 2, c)
    PROVE  parseTarget(b, t, f) = Parsed(WithTarget(b, t[f + 1], c))
<1> DEFINE named == [b EXCEPT !.targetTable = t[f + 1]]
<1>1. Len(t) \in Nat /\ f \in Nat /\ 2 <= f /\ f + 1 <= Len(t)
  BY DEF Text
<1>2. CASE f + 2 = Len(t) + 1 /\ c = <<>>
  <2>1. f + 1 = Len(t) /\ ~(f + 1 > Len(t))
    BY <1>1, <1>2
  <2>2. parseTarget(b, t, f) = Parsed(named)
    BY <2>1 DEF parseTarget
  <2>3. b.conditionToken \o <<>> = b.conditionToken
    <3>1. b.conditionToken \in Seq(Text)
      BY DEF Builder
    <3> QED BY <3>1
  <2>4. named = WithTarget(b, t[f + 1], c)
    BY <1>2, <2>3 DEF Builder, WithTarget
  <2> QED BY <2>2, <2>4, Zenon
<1>3. CASE /\ f + 2 <= Len(t) /\ t[f + 2] = "WHERE"
           /\ \E n \in Nat : /\ c = Conditions(t, (f + 2) + 1, n) /\ Len(t) = (f + 2) + 5 * n
                             /\ \A k \in 0 .. n - 1 : IsGroup(t, (f + 2) + 1 + 5 * k)
  <2>1. PICK n \in Nat : /\ c = Conditions(t, (f + 2) + 1, n) /\ Len(t) = (f + 2) + 5 * n
                         /\ \A k \in 0 .. n - 1 : IsGroup(t, (f + 2) + 1 + 5 * k)
    BY <1>3
  <2>2. ~(f + 1 > Len(t)) /\ f + 1 # Len(t)
    BY <1>1, <1>3
  <2>3. parseTarget(b, t, f) = parseWhereConditions(named, t, f + 3)
    BY <1>3, <2>2 DEF parseTarget
  <2> DEFINE i == f + 3
  <2>4. i \in Nat /\ 1 <= i /\ Len(t) = i + 5 * n - 1 /\ (f + 2) + 1 = i
    BY <1>1, <2>1
  <2> HIDE DEF i, named
  <2>5. c = Conditions(t, i, n) /\ \A k \in 0 .. n - 1 : IsGroup(t, i + 5 * k)
    BY <2>1, <2>4
  <2>6. parseWhereConditions(named, t, i) =
           Parsed(WithConditions(named, Conditions(t, i, n)))
    BY <2>4, <2>5, WhereRead
  <2>7. WithConditions(named, c) = WithTarget(b, t[f + 1], c)
    BY DEF named, Builder, WithConditions, WithTarget
  <2> QED BY <2>3, <2>5, <2>6, <2>7, Zenon DEF i
<1> QED BY <1>2, <1>3 DEF WhereIs

\* A statement whose tokens stand where parseToken looks for them.
LEMMA TokenRead ==
    ASSUME NEW b \in Builder, NEW t \in Text, NEW f \in 2 .. Len(t) - 1, t[f] = "FROM",
           NEW o \in Text, ")" \notin Range(o), OperandsAre(t, f, o),
           NEW c, WhereIs(t, f + 2, c)
    PROVE  parseToken(b, t) = Parsed([targetTable    |-> t[f + 1],
                                      operandToken   |-> b.operandToken \o o,
                                      conditionToken |-> b.conditionToken \o c])
<1> DEFINE close == Find(")", t, 3)
<1>1. /\ Len(t) \in Nat /\ f \in Nat /\ 2 <= f /\ f + 1 <= Len(t) /\ b.operandToken \in Text
      /\ b = [targetTable    |-> b.targetTable,
              operandToken   |-> b.operandToken,
              conditionToken |-> b.conditionToken]
  BY DEF Text, Builder
<1>2. ASSUME NEW a \in Builder, a = [b EXCEPT !.operandToken = @ \o o]
      PROVE  parseTarget(a, t, f) = Parsed([targetTable    |-> t[f + 1],
                                            operandToken   |-> b.operandToken \o o,
                                            conditionToken |-> b.conditionToken \o c])
  <2>1. parseTarget(a, t, f) = Parsed(WithTarget(a, t[f + 1], c))
    BY <1>2, TargetRead
  <2>2. a = [targetTable    |-> b.targetTable,
             operandToken   |-> b.operandToken \o o,
             conditionToken |-> b.conditionToken]
    BY <1>1, <1>2
  <2>3. WithTarget(a, t[f + 1], c) =
           [targetTable    |-> t[f + 1],
            operandToken   |-> b.operandToken \o o,
            conditionToken |-> b.conditionToken \o c]
    <3>1. ASSUME NEW r, r = [a EXCEPT !.targetTable = t[f + 1], !.conditionToken = @ \o c]
          PROVE  r = [targetTable    |-> t[f + 1],
                      operandToken   |-> b.operandToken \o o,
                      conditionToken |-> b.conditionToken \o c]
      BY <2>2, <3>1
    <3> QED BY <3>1 DEF WithTarget
  <2> QED BY <2>1, <2>3, Zenon
<1>3. CASE f = 2 /\ o = <<>>
  <2>1. parseToken(b, t) = parseTarget(b, t, 2)
    <3>1. Len(t) # 1 /\ Len(t) > 1 /\ t[2] = "FROM"
      BY <1>1, <1>3
    <3> QED BY <3>1 DEF parseToken
  <2>2. b = [b EXCEPT !.operandToken = @ \o o]
    <3>1. b.operandToken \o <<>> = b.operandToken
      BY <1>1 DEF Text
    <3> QED BY <1>3, <3>1 DEF Builder
  <2>3. parseTarget(b, t, f) = Parsed([targetTable    |-> t[f + 1],
                                       operandToken   |-> b.operandToken \o o,
                                       conditionToken |-> b.conditionToken \o c])
    BY <1>2, <2>2
  <2> QED BY <1>3, <2>1, <2>3
<1>4. CASE f >= 4 /\ t[2] = "(" /\ t[f - 1] = ")" /\ o = SubSeq(t, 3, f - 2)
  <2>1. \A k \in 3 .. f - 2 : t[k] # ")"
    <3> TAKE k \in 3 .. f - 2
    <3>1. 3 \in Nat /\ f - 2 \in Int /\ 1 <= 3 /\ f - 2 <= Len(t) /\ 3 <= (f - 2) + 1
      <4>1. f >= 4
        BY <1>4
      <4> QED BY <1>1, <4>1
    <3>2. /\ Len(o) = (f - 2) - 3 + 1
          /\ \A l \in 1 .. (f - 2) - 3 + 1 : o[l] = t[3 + l - 1]
      BY <1>4, <3>1, PartOf
    <3>3. k - 2 \in 1 .. (f - 2) - 3 + 1 /\ 3 + (k - 2) - 1 = k
      BY <1>1
    <3>4. o[k - 2] = t[k]
      BY <3>2, <3>3
    <3>5. k - 2 \in DOMAIN o
      <4>1. DOMAIN o = 1 .. Len(o)
        BY DEF Text
      <4> QED BY <3>2, <3>3, <4>1
    <3>6. o[k - 2] \in Range(o)
      BY <3>5 DEF Range
    <3> QED BY <3>4, <3>6
  <2>2. close = f - 1
    <3> DEFINE S == {j \in 3 .. Len(t) : t[j] = ")"} \cup {Len(t) + 1}
    <3>1. S \in SUBSET Nat /\ f - 1 \in S
      BY <1>1, <1>4
    <3>2. \A j \in S : f - 1 <= j
      <4> SUFFICES ASSUME NEW j \in S, j < f - 1 PROVE FALSE
        BY <1>1, <3>1
      <4>1. j \in 3 .. f - 2 /\ t[j] = ")"
        BY <1>1
      <4> QED BY <2>1, <4>1
    <3>3. close = Min(S)
      BY DEF Find
    <3> HIDE DEF S
    <3>4. Min(S) \in S /\ \A j \in S : Min(S) <= j
      <4>1. S # {}
        BY <3>1
      <4> QED BY <3>1, <4>1, MinIs
    <3>5. Min(S) \in Nat /\ Min(S) <= f - 1 /\ f - 1 <= Min(S)
      BY <3>1, <3>2, <3>4
    <3> QED BY <1>1, <3>3, <3>5
  <2>3. o = SubSeq(t, 3, close - 1)
    <3>1. f - 2 = (f - 1) - 1
      BY <1>1
    <3> HIDE DEF close
    <3> QED BY <1>4, <2>2, <3>1
  <2> DEFINE a == [b EXCEPT !.operandToken = @ \o o]
  <2>4. a \in Builder
    <3>1. b.operandToken \o o \in Text
      BY <1>1 DEF Text
    <3> QED BY <3>1 DEF Builder
  <2>5. parseToken(b, t) = parseTarget(a, t, close + 1)
    <3>1. /\ Len(t) # 1 /\ ~(Len(t) > 1 /\ t[2] = "FROM") /\ ~(Len(t) = 2 /\ t[2] = "(")
          /\ t[2] = "("
      BY <1>1, <1>4
    <3>2. ~(close >= Len(t) \/ t[close + 1] # "FROM")
      <4>1. (f - 1) + 1 = f /\ ~(f - 1 >= Len(t))
        BY <1>1
      <4> HIDE DEF close
      <4> QED BY <2>2, <4>1
    <3> QED BY <2>3, <3>1, <3>2, Zenon DEF parseToken
  <2>6. close + 1 = f
    <3>1. (f - 1) + 1 = f
      BY <1>1
    <3> HIDE DEF close
    <3> QED BY <2>2, <3>1
  <2> HIDE DEF a, close
  <2>7. parseTarget(a, t, f) = Parsed([targetTable    |-> t[f + 1],
                                       operandToken   |-> b.operandToken \o o,
                                       conditionToken |-> b.conditionToken \o c])
    BY <1>2, <2>4 DEF a
  <2> QED BY <2>5, <2>6, <2>7
<1> QED BY <1>3, <1>4 DEF OperandsAre

\* Queries with the same fields, and a complex query as Complex puts it together.
LEMMA SameQuery ==
    ASSUME NEW p \in Query, NEW q \in Query,
           p.type = q.type, p.table = q.table, p.file = q.file, p.newTable = q.newTable,
           p.operands = q.operands, p.condition = q.condition
    PROVE  p = q
<1>1. p = [type |-> p.type, table |-> p.table, file |-> p.file, newTable |-> p.newTable,
           operands |-> p.operands, condition |-> p.condition]
  BY DEF Query
<1>2. q = [type |-> q.type, table |-> q.table, file |-> q.file, newTable |-> q.newTable,
           operands |-> q.operands, condition |-> q.condition]
  BY DEF Query
<1> QED BY <1>1, <1>2

LEMMA QueryOf ==
    ASSUME NEW q \in Query, q.file = "", q.newTable = ""
    PROVE  [Of(q.type, q.table) EXCEPT !.operands = q.operands, !.condition = q.condition] = q
<1> DEFINE r == [Of(q.type, q.table) EXCEPT !.operands = q.operands, !.condition = q.condition]
<1>1. Bare(q.type) \in Query
  BY BareType DEF Query
<1>2. /\ r \in Query /\ r.type = q.type /\ r.table = q.table /\ r.file = ""
      /\ r.newTable = "" /\ r.operands = q.operands /\ r.condition = q.condition
  BY <1>1 DEF Of, Bare, Query
<1> HIDE DEF r
<1>3. r = q
  BY <1>2, SameQuery
<1> QED BY <1>3 DEF r

\* ComplexQueryBuilder, cleared, reads the spelling of a plain query as that query.
LEMMA ComplexRead ==
    ASSUME NEW q, Plain(q), NEW v \in DOMAIN ComplexTypes, q.type = ComplexTypes[v],
           NEW t \in Text, t \in Spellings(q)
    PROVE  /\ t[1] = v /\ Len(t) >= 3
           /\ Complex(t, parseToken(Cleared, t)) = Made(q)
<1>1. q \in Query
  BY DEF Plain
<1>2. /\ q.file = "" /\ q.newTable = "" /\ ")" \notin Range(q.operands)
      /\ \A k \in DOMAIN q.condition : Len(q.condition[k]) = 3
  <2>1. q.type \in Range(ComplexTypes)
    BY DEF Range
  <2>2. q.type \notin {"List", "Quit", "Listen", "PrintTable", "Drop", "Truncate", "Dump",
                       "CopyTable"}
    BY DEF ComplexTypes
  <2> QED BY <2>1, <2>2 DEF Plain
<1>3. PICK f \in 2 .. Len(t) - 1 :
         /\ t[1] = v /\ t[f] = "FROM" /\ t[f + 1] = q.table
         /\ OperandsAre(t, f, q.operands) /\ WhereIs(t, f + 2, q.condition)
  BY <1>1, <1>2, ComplexLaid
<1>4. /\ Cleared \in Builder /\ Cleared.operandToken = <<>> /\ Cleared.conditionToken = <<>>
  <2>1. "" \in Name /\ <<>> \in Text /\ <<>> \in Seq(Text)
    <3>1. "" \in Name
      BY Zenon DEF Name
    <3>2. <<>> \in Text /\ <<>> \in Seq(Text)
      BY DEF Text
    <3> QED BY <3>1, <3>2
  <2> QED BY <2>1 DEF Cleared, Builder
<1>5. q.operands \in Text /\ q.condition \in Seq(Text)
  BY <1>1 DEF Query
<1>6. <<>> \o q.operands = q.operands /\ <<>> \o q.condition = q.condition
  BY <1>5 DEF Text
<1> DEFINE r == [targetTable    |-> q.table,
                 operandToken   |-> q.operands,
                 conditionToken |-> q.condition]
<1>7. parseToken(Cleared, t) = Parsed(r)
  <2>1. parseToken(Cleared, t) =
           Parsed([targetTable    |-> t[f + 1],
                   operandToken   |-> Cleared.operandToken \o q.operands,
                   conditionToken |-> Cleared.conditionToken \o q.condition])
    BY <1>2, <1>3, <1>4, <1>5, TokenRead
  <2>2. [targetTable    |-> t[f + 1],
         operandToken   |-> Cleared.operandToken \o q.operands,
         conditionToken |-> Cleared.conditionToken \o q.condition] = r
    BY <1>3, <1>4, <1>6
  <2> QED BY <2>1, <2>2, Zenon
<1>8. Complex(t, Parsed(r)) =
         Made([Of(ComplexTypes[t[1]], r.targetTable) EXCEPT
                  !.operands = r.operandToken, !.condition = r.conditionToken])
  BY <1>3 DEF Complex, Parsed
<1>9. [Of(ComplexTypes[t[1]], r.targetTable) EXCEPT
          !.operands = r.operandToken, !.condition = r.conditionToken] = q
  <2>1. ComplexTypes[t[1]] = q.type /\ r.targetTable = q.table
    BY <1>3
  <2>2. r.operandToken = q.operands /\ r.conditionToken = q.condition
    OBVIOUS
  <2> HIDE DEF r
  <2> QED BY <1>1, <1>2, <2>1, <2>2, QueryOf
<1>10. Len(t) >= 3
  BY DEF Text
<1> QED BY <1>3, <1>7, <1>8, <1>9, <1>10
\* The types the other builders make.
LEMMA OtherTypes ==
    \A type \in {"List", "Quit", "PrintTable", "Listen", "Drop", "Truncate", "Dump",
                "CopyTable"} : type \notin Range(ComplexTypes)
BY DEF Range, ComplexTypes

\* The other two builders.
LEMMA DebugRead ==
    ASSUME NEW q, Plain(q), q.type \in {"List", "Quit", "PrintTable", "Listen"},
           NEW t \in Text, t \in Spellings(q)
    PROVE  DebugMatches(t) /\ Debug(t) = Made(q)
<1>1. CASE q.type \in {"List", "Quit"}
  <2>1. q = Bare(q.type)
    BY <1>1, OtherTypes DEF Plain
  <2>2. CASE q.type = "List"
    <3>1. t = <<"LIST">>
      BY <2>2 DEF Spellings
    <3>2. DebugMatches(t) /\ t[1] = "LIST"
      BY <3>1 DEF DebugMatches
    <3>3. Debug(t) = Made(Bare("List"))
      BY <3>2 DEF Debug
    <3> QED BY <2>1, <2>2, <3>2, <3>3
  <2>3. CASE q.type = "Quit"
    <3>1. t = <<"QUIT">>
      BY <2>3 DEF Spellings
    <3>2. DebugMatches(t) /\ t[1] = "QUIT"
      BY <3>1 DEF DebugMatches
    <3>3. Debug(t) = Made(Bare("Quit"))
      BY <3>2 DEF Debug
    <3> QED BY <2>1, <2>3, <3>2, <3>3
  <2> QED BY <1>1, <2>2, <2>3
<1>2. CASE q.type = "PrintTable"
  <2>1. q = Of("PrintTable", q.table)
    BY <1>2, OtherTypes DEF Plain
  <2>2. t = <<"SHOWTABLE", q.table>>
    BY <1>2 DEF Spellings
  <2>3. Len(t) = 2 /\ t[1] = "SHOWTABLE" /\ t[2] = q.table
    BY <2>2
  <2>4. Debug(t) = Made(Of("PrintTable", t[2]))
    BY <2>3 DEF Debug
  <2> QED BY <2>1, <2>3, <2>4 DEF DebugMatches
<1>3. CASE q.type = "Listen"
  <2>1. q = [Bare("Listen") EXCEPT !.file = q.file]
    BY <1>3, OtherTypes DEF Plain
  <2>2. t = <<"LISTEN", "(", q.file, ")">>
    BY <1>3 DEF Spellings
  <2>3. Len(t) = 4 /\ t[1] = "LISTEN" /\ t[2] = "(" /\ t[3] = q.file /\ t[4] = ")"
    BY <2>2
  <2>4. Debug(t) = Made([Bare("Listen") EXCEPT !.file = t[3]])
    BY <2>3 DEF Debug
  <2>5. Debug(t) = Made(q)
    BY <2>1, <2>3, <2>4
  <2> QED BY <2>3, <2>5 DEF DebugMatches
<1> QED BY <1>1, <1>2, <1>3

LEMMA ManageRead ==
    ASSUME NEW q, Plain(q), q.type \in {"Drop", "Truncate", "Dump", "CopyTable"},
           NEW t \in Text, t \in Spellings(q)
    PROVE  ManageTableMatches(t) /\ ManageTable(t) = Made(q)
<1>1. CASE q.type \in {"Drop", "Truncate"}
  <2>1. q = Of(q.type, q.table)
    BY <1>1, OtherTypes DEF Plain
  <2>2. PICK v \in {"DROP", "TRUNCATE"} : v \in DOMAIN ManageTypes /\ q.type = ManageTypes[v]
    <3>1. /\ {"DROP", "TRUNCATE"} \subseteq DOMAIN ManageTypes
          /\ ManageTypes["DROP"] = "Drop" /\ ManageTypes["TRUNCATE"] = "Truncate"
      BY DEF ManageTypes
    <3> QED BY <1>1, <3>1
  <2>3. t = <<v, q.table>>
    <3>1. Words(q.type, ManageTypes) = v
      BY <2>2, WordOfManage
    <3> QED BY <1>1, <3>1 DEF Spellings
  <2>4. Len(t) = 2 /\ t[1] = v /\ t[2] = q.table
    BY <2>3
  <2>5. ManageTable(t) = Made(Of(ManageTypes[t[1]], t[2]))
    BY <2>4 DEF ManageTable
  <2>6. ManageTableMatches(t)
    BY <2>4 DEF ManageTableMatches
  <2> QED BY <2>1, <2>2, <2>4, <2>5, <2>6
<1>2. CASE q.type = "Dump"
  <2>1. q = [Of("Dump", q.table) EXCEPT !.file = q.file]
    BY <1>2, OtherTypes DEF Plain
  <2>2. t = <<"DUMP", q.table, q.file>>
    BY <1>2 DEF Spellings
  <2>3. Len(t) = 3 /\ t[1] = "DUMP" /\ t[2] = q.table /\ t[3] = q.file
    BY <2>2
  <2>4. ManageTable(t) = Made([Of(ManageTypes[t[1]], t[2]) EXCEPT !.file = t[3]])
    BY <2>3 DEF ManageTable
  <2>5. ManageTypes[t[1]] = "Dump"
    BY <2>3 DEF ManageTypes
  <2>6. ManageTable(t) = Made(q)
    BY <2>1, <2>3, <2>4, <2>5
  <2> QED BY <2>3, <2>6 DEF ManageTableMatches
<1>3. CASE q.type = "CopyTable"
  <2>1. q = [Of("CopyTable", q.table) EXCEPT !.newTable = q.newTable]
    BY <1>3, OtherTypes DEF Plain
  <2>2. t = <<"COPYTABLE", q.table, q.newTable>>
    BY <1>3 DEF Spellings
  <2>3. Len(t) = 3 /\ t[1] = "COPYTABLE" /\ t[2] = q.table /\ t[3] = q.newTable
    BY <2>2
  <2>4. ManageTable(t) = Made([Of(ManageTypes[t[1]], t[2]) EXCEPT !.newTable = t[3]])
    BY <2>3 DEF ManageTable
  <2>5. ManageTypes[t[1]] = "CopyTable"
    BY <2>3 DEF ManageTypes
  <2>6. ManageTable(t) = Made(q)
    BY <2>1, <2>3, <2>4, <2>5
  <2> QED BY <2>3, <2>6 DEF ManageTableMatches
<1> QED BY <1>1, <1>2, <1>3

\* parseQuery reads a spelling of a plain query as that query.
LEMMA PlainRead ==
    ASSUME NEW q, Plain(q), NEW t \in Text, t \in Spellings(q), parseQuery(t)
    PROVE  parsed'.outcome = Made(q)
<1>1. t \in Seq(STRING) /\ Len(t) \in Nat
  BY DEF Text
<1>2. CASE q.type \in {"List", "Quit", "PrintTable", "Listen"}
  <2>1. DebugMatches(t) /\ Debug(t) = Made(q)
    BY <1>2, DebugRead
  <2>2. t # <<>> /\ ~ManageTableMatches(t)
    BY <1>1, <2>1 DEF DebugMatches, ManageTableMatches
  <2>3. parsed'.outcome = Debug(t)
    BY <2>1, <2>2 DEF parseQuery
  <2> QED BY <2>1, <2>3
<1>3. CASE q.type \in {"Drop", "Truncate", "Dump", "CopyTable"}
  <2>1. ManageTableMatches(t) /\ ManageTable(t) = Made(q)
    BY <1>3, ManageRead
  <2>2. t # <<>> /\ ~DebugMatches(t)
    BY <1>1, <2>1 DEF DebugMatches, ManageTableMatches
  <2>3. parsed'.outcome = ManageTable(t)
    BY <2>1, <2>2 DEF parseQuery
  <2> QED BY <2>1, <2>3
<1>4. CASE q.type \in Range(ComplexTypes)
  <2>1. PICK v \in DOMAIN ComplexTypes : q.type = ComplexTypes[v]
    BY <1>4 DEF Range
  <2>2. /\ t[1] = v /\ Len(t) >= 3
        /\ Complex(t, parseToken(Cleared, t)) = Made(q)
    BY <2>1, ComplexRead
  <2>3. t # <<>> /\ ~DebugMatches(t) /\ ~ManageTableMatches(t)
    <3>1. v \notin {"LIST", "QUIT", "SHOWTABLE", "LISTEN", "LOAD", "DROP", "TRUNCATE",
                    "DUMP", "COPYTABLE"}
      BY DEF ComplexTypes
    <3>2. Len(t) # 0 /\ t # <<>> /\ t # <<"LIST">> /\ t # <<"QUIT">>
      BY <1>1, <2>2, <3>1
    <3> QED BY <2>2, <3>1, <3>2 DEF DebugMatches, ManageTableMatches
  <2>4. parsed'.outcome = Complex(t, parseToken(Cleared, t))
    BY <2>3 DEF parseQuery, AtStart
  <2> QED BY <2>2, <2>4
<1> QED BY <1>2, <1>3, <1>4 DEF Plain

-----------------------------------------------------------------------------
(* The DUMPs in front of a query.                                          *)

Dumps(s, n, file) == {j \in 1 .. n : s[j].type = "Dump" /\ s[j].file = file}

\* The name of a file behind the first n queries of s.
NameBehind(s, n, file) ==
    IF Dumps(s, n, file) # {} THEN s[Max(Dumps(s, n, file))].table
    ELSE IF file \in DOMAIN TableFile THEN TableFile[file] ELSE ""

LEMMA MaxIs ==
    ASSUME NEW n \in Nat, NEW S \in SUBSET (1 .. n), S # {}
    PROVE  Max(S) \in S /\ \A j \in S : j <= Max(S)
<1>1. \E j \in S : \A l \in S : j >= l
  BY GreatestOf
<1>2. Max(S) \in S /\ \A j \in S : Max(S) >= j
  BY <1>1 DEF Max
<1> QED BY <1>2

\* One more query changes the name of the file it DUMPs, from its own place on.
LEMMA OneMoreQuery ==
    ASSUME NEW s \in Seq(Query), NEW q \in Query, NEW file
    PROVE  /\ \A n \in 0 .. Len(s) : NameBehind(Append(s, q), n, file) = NameBehind(s, n, file)
           /\ NameBehind(Append(s, q), Len(s) + 1, file) =
                 IF q.type = "Dump" /\ q.file = file THEN q.table
                 ELSE NameBehind(s, Len(s), file)
<1> DEFINE r == Append(s, q)
           l == Len(s)
<1>1. l \in Nat /\ r[l + 1] = q /\ \A j \in 1 .. l : r[j] = s[j]
  OBVIOUS
<1> HIDE DEF r, l
<1>2. ASSUME NEW n \in 0 .. l PROVE NameBehind(r, n, file) = NameBehind(s, n, file)
  <2>1. Dumps(r, n, file) = Dumps(s, n, file)
    BY <1>1 DEF Dumps
  <2>2. ASSUME Dumps(s, n, file) # {}
        PROVE  r[Max(Dumps(s, n, file))] = s[Max(Dumps(s, n, file))]
    <3>1. n \in Nat /\ Dumps(s, n, file) \in SUBSET (1 .. n)
      BY <1>1 DEF Dumps
    <3>2. Max(Dumps(s, n, file)) \in 1 .. n
      BY <2>2, <3>1, MaxIs
    <3> QED BY <1>1, <3>2
  <2> QED BY <2>1, <2>2 DEF NameBehind
<1>3. CASE q.type = "Dump" /\ q.file = file
  <2>1. l + 1 \in Dumps(r, l + 1, file)
    BY <1>1, <1>3 DEF Dumps
  <2>2. l + 1 \in Nat /\ Dumps(r, l + 1, file) \in SUBSET (1 .. l + 1)
    BY <1>1 DEF Dumps
  <2>3. /\ Max(Dumps(r, l + 1, file)) \in Dumps(r, l + 1, file)
        /\ \A j \in Dumps(r, l + 1, file) : j <= Max(Dumps(r, l + 1, file))
    BY <2>1, <2>2, MaxIs
  <2>4. Max(Dumps(r, l + 1, file)) = l + 1
    BY <1>1, <2>1, <2>2, <2>3
  <2>5. NameBehind(r, l + 1, file) = q.table
    BY <1>1, <2>1, <2>4 DEF NameBehind
  <2> QED BY <1>2, <1>3, <2>5 DEF r, l
<1>4. CASE ~(q.type = "Dump" /\ q.file = file)
  <2>1. Dumps(r, l + 1, file) = Dumps(r, l, file)
    BY <1>1, <1>4 DEF Dumps
  <2>2. NameBehind(r, l + 1, file) = NameBehind(r, l, file)
    BY <2>1 DEF NameBehind
  <2>3. NameBehind(r, l, file) = NameBehind(s, l, file)
    BY <1>1, <1>2
  <2>4. NameBehind(r, l + 1, file) = NameBehind(s, l, file)
    BY <2>2, <2>3
  <2> QED BY <1>2, <1>4, <2>4 DEF r, l
<1> QED BY <1>3, <1>4

LEMMA NamedByPlace ==
    LoadsAreNamed <=>
        \A k \in Queries : allQueries[k].type = "Load" =>
            allQueries[k].table = NameBehind(allQueries, k - 1, allQueries[k].file)
BY DEF LoadsAreNamed, NameBehind, Dumps

-----------------------------------------------------------------------------
(* What is printed.                                                        *)

Places(out) == {i \in DOMAIN out : out[i].prints = "result"}

Numbers(out) == {out[i].of : i \in Places(out)}

Increasing(out) == \A i, j \in Places(out) : i < j => out[i].of < out[j].of

\* The results in out are those from a + 1 to b, in their order.
NumberedFrom(out, a, b) == Numbers(out) = (a + 1) .. b /\ Increasing(out)

LEMMA OneAfterTheOther ==
    ASSUME NEW S, NEW s \in Seq(S), NEW r \in Seq(S), NEW a \in Nat, NEW b \in Nat,
           NEW c \in Nat, a <= b, b <= c, NumberedFrom(s, a, b), NumberedFrom(r, b, c)
    PROVE  NumberedFrom(s \o r, a, c)
<1> DEFINE out == s \o r
           l == Len(s)
<1>1. /\ l \in Nat /\ Len(r) \in Nat /\ DOMAIN s = 1 .. l /\ DOMAIN r = 1 .. Len(r)
      /\ DOMAIN out = 1 .. l + Len(r)
      /\ \A i \in 1 .. l + Len(r) : out[i] = IF i <= l THEN s[i] ELSE r[i - l]
  BY ConcatProperties
<1> HIDE DEF out, l
<1>2. ASSUME NEW i \in Places(out), i <= l
      PROVE  i \in Places(s) /\ out[i].of = s[i].of /\ out[i].of \in (a + 1) .. b
  <2>1. i \in 1 .. l + Len(r) /\ out[i].prints = "result"
    BY <1>1 DEF Places
  <2>2. i \in 1 .. l /\ out[i] = s[i]
    BY <1>1, <1>2, <2>1
  <2>3. i \in Places(s)
    BY <1>1, <2>1, <2>2 DEF Places
  <2>4. s[i].of \in Numbers(s)
    BY <2>3 DEF Numbers
  <2> QED BY <2>2, <2>3, <2>4 DEF NumberedFrom
<1>3. ASSUME NEW i \in Places(out), ~(i <= l)
      PROVE  i - l \in Places(r) /\ out[i].of = r[i - l].of /\ out[i].of \in (b + 1) .. c
  <2>1. i \in 1 .. l + Len(r) /\ out[i].prints = "result"
    BY <1>1 DEF Places
  <2>2. i - l \in 1 .. Len(r) /\ out[i] = r[i - l]
    BY <1>1, <1>3, <2>1
  <2>3. i - l \in Places(r)
    BY <1>1, <2>1, <2>2 DEF Places
  <2>4. r[i - l].of \in Numbers(r)
    BY <2>3 DEF Numbers
  <2> QED BY <2>2, <2>3, <2>4 DEF NumberedFrom
<1>4. ASSUME NEW i \in Places(s) PROVE i \in Places(out) /\ out[i].of = s[i].of
  <2>1. i \in 1 .. l /\ s[i].prints = "result"
    BY <1>1 DEF Places
  <2>2. i \in 1 .. l + Len(r) /\ out[i] = s[i]
    BY <1>1, <2>1
  <2> QED BY <1>1, <2>1, <2>2 DEF Places
<1>5. ASSUME NEW i \in Places(r) PROVE i + l \in Places(out) /\ out[i + l].of = r[i].of
  <2>1. i \in 1 .. Len(r) /\ r[i].prints = "result"
    BY <1>1 DEF Places
  <2>2. i + l \in 1 .. l + Len(r) /\ ~(i + l <= l) /\ (i + l) - l = i
    BY <1>1, <2>1
  <2>3. out[i + l] = r[i]
    BY <1>1, <2>2
  <2> QED BY <1>1, <2>1, <2>2, <2>3 DEF Places
<1>6. Numbers(out) = (a + 1) .. c
  <2>1. ASSUME NEW n \in Numbers(out) PROVE n \in (a + 1) .. c
    <3>1. PICK i \in Places(out) : n = out[i].of
      BY DEF Numbers
    <3>2. n \in (a + 1) .. b \/ n \in (b + 1) .. c
      BY <1>2, <1>3, <3>1
    <3> QED BY <3>2
  <2>2. ASSUME NEW n \in (a + 1) .. c PROVE n \in Numbers(out)
    <3>1. CASE n <= b
      <4>1. n \in Numbers(s)
        BY <3>1 DEF NumberedFrom
      <4>2. PICK i \in Places(s) : n = s[i].of
        BY <4>1 DEF Numbers
      <4> QED BY <1>4, <4>2 DEF Numbers
    <3>2. CASE ~(n <= b)
      <4>1. n \in Numbers(r)
        BY <3>2 DEF NumberedFrom
      <4>2. PICK i \in Places(r) : n = r[i].of
        BY <4>1 DEF Numbers
      <4>3. i + l \in Places(out) /\ out[i + l].of = n
        BY <1>5, <4>2
      <4> QED BY <4>3 DEF Numbers
    <3> QED BY <3>1, <3>2
  <2> QED BY <2>1, <2>2
<1>7. ASSUME NEW i \in Places(out), NEW j \in Places(out), i < j
      PROVE  out[i].of < out[j].of
  <2>1. i \in Nat /\ j \in Nat
    BY <1>1 DEF Places
  <2>2. CASE j <= l
    <3>1. i <= l
      BY <1>1, <1>7, <2>1, <2>2
    <3>2. s[i].of < s[j].of
      BY <1>2, <1>7, <2>2, <3>1 DEF NumberedFrom, Increasing
    <3> QED BY <1>2, <2>2, <3>1, <3>2
  <2>3. CASE i <= l /\ ~(j <= l)
    <3>1. out[i].of \in (a + 1) .. b /\ out[j].of \in (b + 1) .. c
      BY <1>2, <1>3, <2>3
    <3> QED BY <3>1
  <2>4. CASE ~(i <= l) /\ ~(j <= l)
    <3>1. i - l < j - l
      BY <1>1, <1>7, <2>1
    <3>2. r[i - l].of < r[j - l].of
      BY <1>3, <2>4, <3>1 DEF NumberedFrom, Increasing
    <3>3. out[i].of = r[i - l].of /\ out[j].of = r[j - l].of
      BY <1>3, <2>4
    <3> QED BY <3>2, <3>3
  <2> QED BY <2>2, <2>3, <2>4
<1> QED BY <1>6, <1>7 DEF NumberedFrom, Increasing, out

\* Where the program ends, and which results waitAll's caller shows.
LEMMA QuitPlace ==
    ASSUME allQueries \in Seq(Query)
    PROVE  /\ BeforeQuit \in 0 .. Len(allQueries)
           /\ \A k \in 1 .. BeforeQuit : allQueries[k].type # "Quit"
           /\ BeforeQuit < Len(allQueries) => allQueries[BeforeQuit + 1].type = "Quit"
           /\ Shown = 1 .. BeforeQuit /\ Cardinality(Shown) = BeforeQuit
<1> DEFINE quits == {k \in Queries : allQueries[k].type = "Quit"}
           l == Len(allQueries)
<1>1. l \in Nat /\ Queries = 1 .. l
  BY DEF Queries
<1>2. /\ BeforeQuit \in 0 .. l
      /\ \A k \in 1 .. BeforeQuit : allQueries[k].type # "Quit"
      /\ BeforeQuit < l => allQueries[BeforeQuit + 1].type = "Quit"
  <2>1. CASE quits = {}
    <3>1. BeforeQuit = l
      BY <2>1 DEF BeforeQuit
    <3>2. \A k \in 1 .. l : allQueries[k].type # "Quit"
      BY <1>1, <2>1
    <3> QED BY <1>1, <3>1, <3>2
  <2>2. CASE quits # {}
    <3>1. BeforeQuit = Min(quits) - 1
      BY <2>2 DEF BeforeQuit
    <3>2. quits \in SUBSET Nat /\ \A k \in quits : k \in 1 .. l /\ allQueries[k].type = "Quit"
      BY <1>1
    <3>3. \A k \in 1 .. l : k \notin quits => allQueries[k].type # "Quit"
      BY <1>1
    <3> DEFINE m == Min(quits)
    <3> HIDE DEF quits, l
    <3>4. m \in quits /\ \A n \in quits : m <= n
      BY <2>2, <3>2, MinIs
    <3> HIDE DEF m
    <3>5. m \in 1 .. l /\ allQueries[m].type = "Quit"
      BY <3>2, <3>4
    <3>6. \A k \in 1 .. m - 1 : k \in 1 .. l /\ k \notin quits
      BY <1>1, <3>2, <3>4, <3>5
    <3>7. BeforeQuit = m - 1
      BY <3>1 DEF m
    <3>8. BeforeQuit \in 0 .. l /\ BeforeQuit + 1 = m
      BY <1>1, <3>5, <3>7
    <3> QED BY <3>3, <3>5, <3>6, <3>7, <3>8
  <2> QED BY <2>1, <2>2
<1> HIDE DEF quits
<1>3. Shown = 1 .. BeforeQuit
  <2>1. ASSUME NEW k \in Shown PROVE k \in 1 .. BeforeQuit
    <3>1. k \in 1 .. l /\ \A j \in 1 .. k : allQueries[j].type # "Quit"
      BY <1>1 DEF Shown
    <3>2. ~(BeforeQuit + 1 <= k)
      <4> SUFFICES ASSUME BeforeQuit + 1 <= k PROVE FALSE
        OBVIOUS
      <4>1. BeforeQuit + 1 \in 1 .. k /\ BeforeQuit < l
        BY <1>1, <1>2, <3>1
      <4> QED BY <1>2, <3>1, <4>1
    <3> QED BY <1>1, <1>2, <3>1, <3>2
  <2>2. ASSUME NEW k \in 1 .. BeforeQuit PROVE k \in Shown
    <3>1. k \in Queries /\ \A j \in 1 .. k : j \in 1 .. BeforeQuit
      BY <1>1, <1>2
    <3> QED BY <1>2, <3>1 DEF Shown
  <2> QED BY <2>1, <2>2
<1>4. Cardinality(1 .. BeforeQuit) = BeforeQuit
  <2>1. BeforeQuit \in Nat /\ 1 \in Int
    BY <1>1, <1>2
  <2>2. Cardinality(1 .. BeforeQuit) = IF 1 <= BeforeQuit THEN BeforeQuit - 1 + 1 ELSE 0
    BY <2>1, FS_Interval
  <2> QED BY <2>1, <2>2
<1> QED BY <1>2, <1>3, <1>4

\* What one step prints.
Output == [prints : {"listing", "result"}, of : Queries]

LEMMA NothingPrinted == NumberedFrom(<<>>, 0, 0)
BY DEF NumberedFrom, Numbers, Increasing, Places

LEMMA PrintsListing ==
    ASSUME NEW k \in Queries, NEW n \in Nat
    PROVE  ExecutionPrints(k) \in Seq(Output) /\ NumberedFrom(ExecutionPrints(k), n, n)
<1>1. CASE ExecutionPrints(k) = <<Listing(k)>>
  <2>1. Listing(k) \in Output /\ Listing(k).prints # "result"
    BY DEF Listing, Output
  <2> DEFINE s == <<Listing(k)>>
  <2>2. s \in Seq(Output) /\ DOMAIN s = {1} /\ s[1] = Listing(k)
    BY <2>1
  <2> HIDE DEF s
  <2>3. Places(s) = {}
    BY <2>1, <2>2 DEF Places
  <2>4. NumberedFrom(s, n, n)
    BY <2>3 DEF NumberedFrom, Numbers, Increasing
  <2> QED BY <1>1, <2>2, <2>4 DEF s
<1>2. CASE ExecutionPrints(k) = <<>>
  <2>1. Places(<<>>) = {}
    BY DEF Places
  <2>2. NumberedFrom(<<>>, n, n)
    BY <2>1 DEF NumberedFrom, Numbers, Increasing
  <2> QED BY <1>2, <2>2
<1> QED BY <1>1, <1>2 DEF ExecutionPrints

LEMMA PrintsResult ==
    ASSUME NEW k \in Queries, k \in Nat \ {0}
    PROVE  <<Result(k)>> \in Seq(Output) /\ NumberedFrom(<<Result(k)>>, k - 1, k)
<1>1. Result(k) \in Output /\ Result(k).prints = "result" /\ Result(k).of = k
  BY DEF Result, Output
<1> DEFINE s == <<Result(k)>>
<1>2. s \in Seq(Output) /\ DOMAIN s = {1} /\ s[1] = Result(k)
  BY <1>1
<1> HIDE DEF s
<1>3. Places(s) = {1}
  BY <1>1, <1>2 DEF Places
<1>4. Numbers(s) = {k} /\ Increasing(s)
  BY <1>1, <1>2, <1>3 DEF Numbers, Increasing
<1>5. (k - 1 + 1) .. k = {k}
  OBVIOUS
<1> QED BY <1>2, <1>4, <1>5 DEF NumberedFrom, s

LEMMA PrintsAll ==
    ASSUME NEW m \in Nat, 1 .. m \subseteq Queries
    PROVE  LET s == [k \in 1 .. m |-> Result(k)]
           IN  s \in Seq(Output) /\ NumberedFrom(s, 0, m)
<1> DEFINE s == [k \in 1 .. m |-> Result(k)]
<1>1. \A k \in 1 .. m : Result(k) \in Output /\ Result(k).prints = "result" /\ Result(k).of = k
  BY DEF Result, Output
<1>2. s \in Seq(Output) /\ DOMAIN s = 1 .. m
      /\ \A k \in 1 .. m : s[k].prints = "result" /\ s[k].of = k
  BY <1>1
<1> HIDE DEF s
<1>3. Places(s) = 1 .. m
  BY <1>2 DEF Places
<1>4. Numbers(s) = 1 .. m
  BY <1>2, <1>3 DEF Numbers
<1>5. Increasing(s)
  BY <1>2, <1>3 DEF Increasing
<1>6. s \in Seq(Output) /\ NumberedFrom(s, 0, m)
  BY <1>2, <1>4, <1>5 DEF NumberedFrom
<1> QED BY <1>6, Zenon DEF s

-----------------------------------------------------------------------------
(* The invariants.                                                         *)

\* Every file is known by the name it was last DUMPed under.
NamesKnown ==
    \A f \in Name :
        NameIn(fileTableNameMap, f) = NameBehind(allQueries, Len(allQueries), f)

\* What is printed up to now.
PrintedSoFar ==
    /\ phase \in {"collect", "process", "next"} => counter = 0
    /\ phase \in {"collect", "process", "next", "multi"} => NumberedFrom(stdout, 0, 0)
    /\ phase = "single" => /\ NumberedFrom(stdout, 0, counter)
                           /\ \A k \in 1 .. counter : allQueries[k].type # "Quit"
    /\ phase = "done" => NumberedFrom(stdout, 0, BeforeQuit)

LEMMA InitTypes ==
    ASSUME ExecutorInit
    PROVE  ExecutorTypeOK
<1>1. /\ source \in Programs /\ numThreads \in Threads /\ phase = "collect"
      /\ input = source[Main] /\ fileQueue = <<>> /\ listenFiles = <<>>
      /\ allQueries = <<>> /\ counter = 0 /\ executed = {} /\ stdout = <<>>
      /\ complex = Cleared /\ fileTableNameMap = <<>>
      /\ parsed = [text |-> <<>>, outcome |-> Failed]
  BY DEF ExecutorInit, ParserInit
<1>2. /\ Main \in DOMAIN source /\ DOMAIN source \subseteq STRING
      /\ \A f \in DOMAIN source : source[f] \in Seq(Text)
  BY <1>1, ExecutorAssumption
<1>3. Range(source) \subseteq Seq(Text) /\ input \in Seq(Text)
  BY <1>1, <1>2 DEF Range
<1>4. complex \in Builder
  <2>1. "" \in Name
    BY Zenon DEF Name
  <2>2. <<>> \in Text /\ <<>> \in Seq(Text)
    BY DEF Text
  <2> QED BY <1>1, <2>1, <2>2 DEF Cleared, Builder
<1>5. DOMAIN fileTableNameMap \subseteq STRING /\ Range(fileTableNameMap) \subseteq Name
  BY <1>1 DEF Range
<1>6. parsed \in [text : Text, outcome : Outcomes]
  <2>1. <<>> \in Text /\ Failed \in Outcomes
    BY DEF Text, Outcomes
  <2> QED BY <1>1, <2>1
<1>7. /\ allQueries \in Seq(Query) /\ fileQueue \in Seq(Name) /\ listenFiles \in Seq(Name)
      /\ counter \in 0 .. Len(allQueries) /\ executed \subseteq Queries
      /\ stdout \in Seq([prints : {"listing", "result"}, of : Queries])
  BY <1>1
<1> QED BY <1>1, <1>2, <1>3, <1>4, <1>5, <1>6, <1>7 DEF ExecutorTypeOK

\* What a statement that is read adds to the program.
ReadMakes ==
    \/ /\ parsed'.outcome.status = "Made" /\ phase' = phase
       /\ allQueries' = Append(allQueries, parsed'.outcome.query)
       /\ fileQueue' \in {fileQueue, Append(fileQueue, parsed'.outcome.query.file)}
       /\ listenFiles' \in {listenFiles, Append(listenFiles, parsed'.outcome.query.file)}
    \/ /\ parsed'.outcome.status # "Made" /\ phase' \in {phase, "undefined"}
       /\ UNCHANGED <<allQueries, fileQueue, listenFiles>>

LEMMA ReadStep ==
    ASSUME ExecutorTypeOK, ReadStatement
    PROVE  /\ complex' \in Builder /\ CacheTyped'
           /\ parsed' \in [text : Text, outcome : Outcomes]
           /\ AcceptsExactly'
           /\ Follows(parsed'.outcome, fileTableNameMap, fileTableNameMap')
           /\ parsed'.outcome.status = "Made" => parsed'.outcome.query \in Query
           /\ ReadMakes /\ input' \in Seq(Text)
<1>1. input \in Seq(Text) /\ input # <<>> /\ input' = Tail(input) /\ parseQuery(Head(input))
  BY DEF ExecutorTypeOK, ReadStatement
<1>2. Head(input) \in Text /\ input' \in Seq(Text)
  BY <1>1
<1>3. complex \in Builder /\ CacheTyped
  BY DEF ExecutorTypeOK, CacheTyped
<1>4. /\ complex' \in Builder /\ CacheTyped'
      /\ parsed' \in [text : Text, outcome : Outcomes]
      /\ AcceptsExactly'
      /\ Follows(parsed'.outcome, fileTableNameMap, fileTableNameMap')
  BY <1>1, <1>2, <1>3, ParseStep
<1>5. parsed'.outcome \in Outcomes
  BY <1>4
<1>6. parsed'.outcome.status = "Made" => parsed'.outcome.query \in Query
  BY <1>5 DEF Outcomes, Failed, Undefined
<1>7. ReadMakes
  <2>1. CASE parsed'.outcome.status = "Made"
    BY <2>1 DEF ReadStatement, ReadMakes, Heard
  <2>2. CASE parsed'.outcome.status # "Made"
    BY <2>2 DEF ReadStatement, ReadMakes
  <2> QED BY <2>1, <2>2
<1> QED BY <1>2, <1>4, <1>6, <1>7

\* The conjuncts of ExecutorTypeOK about the parser, and about what is being read.
ParserTyped == complex \in Builder /\ CacheTyped /\ parsed \in [text : Text, outcome : Outcomes]

InputTyped ==
    /\ DOMAIN source \subseteq STRING /\ Range(source) \subseteq Seq(Text)
    /\ numThreads \in Threads /\ input \in Seq(Text)
    /\ fileQueue \in Seq(Name) /\ listenFiles \in Seq(Name)

PhaseTyped ==
    phase \in {"collect", "process", "next", "single", "multi", "done", "undefined"}

ResultsTyped ==
    /\ allQueries \in Seq(Query) /\ counter \in 0 .. Len(allQueries)
    /\ executed \subseteq Queries /\ stdout \in Seq(Output)

\* What a worker leaves behind: its query is executed, and printed or dropped.
LEMMA WorkerEffect ==
    ASSUME NEW k \in Queries, ExecuteOnWorker(k)
    PROVE  /\ phase = "multi"
           /\ executed' = executed \cup {k}
           /\ stdout' = stdout \/ stdout' = stdout \o ExecutionPrints(k)
           /\ UNCHANGED <<parserVars, phase, source, numThreads, input, fileQueue,
                          listenFiles, allQueries, counter>>
<1> DEFINE prints == stdout' = stdout \/ stdout' = stdout \o ExecutionPrints(k)
<1>1. ASSUME NEW j, stdout' = IF k < j THEN stdout ELSE stdout \o ExecutionPrints(k)
      PROVE  prints
  BY <1>1
<1>2. stdout' = stdout \o ExecutionPrints(k) => prints
  OBVIOUS
<1> HIDE DEF prints
<1>3. prints
  BY <1>1, <1>2, Zenon DEF ExecuteOnWorker
<1> QED BY <1>3 DEF ExecuteOnWorker, prints

LEMMA TypeParts == ExecutorTypeOK <=> ParserTyped /\ InputTyped /\ PhaseTyped /\ ResultsTyped
BY DEF ExecutorTypeOK, ParserTyped, CacheTyped, InputTyped, PhaseTyped, ResultsTyped, Output

LEMMA TypeStep ==
    ASSUME ExecutorTypeOK, [ExecutorNext]_executorVars
    PROVE  ExecutorTypeOK'
<1>1. ParserTyped /\ InputTyped /\ PhaseTyped /\ ResultsTyped
  BY TypeParts
<1>2. SUFFICES ParserTyped' /\ InputTyped' /\ PhaseTyped' /\ ResultsTyped'
  BY TypeParts DEF ExecutorTypeOK, ParserTyped, CacheTyped, InputTyped, PhaseTyped,
                   ResultsTyped, Output
<1>3. UNCHANGED parserVars => ParserTyped'
  BY <1>1 DEF ParserTyped, CacheTyped, parserVars
<1>4. Len(allQueries) \in Nat /\ Queries = 1 .. Len(allQueries)
  BY <1>1 DEF ResultsTyped, Queries
<1>5. CASE ReadStatement
  <2>1. ParserTyped'
    BY <1>5, ReadStep DEF ParserTyped
  <2>2. ReadMakes /\ input' \in Seq(Text)
        /\ (parsed'.outcome.status = "Made" => parsed'.outcome.query \in Query)
    BY <1>5, ReadStep
  <2>3. /\ phase \in {"collect", "process"}
        /\ UNCHANGED <<source, numThreads, counter, executed, stdout>>
    BY <1>5 DEF ReadStatement
  <2> DEFINE q == parsed'.outcome.query
  <2>4. CASE parsed'.outcome.status = "Made"
    <3>1. /\ q \in Query /\ q.file \in Name /\ phase' = phase
          /\ allQueries' = Append(allQueries, q)
          /\ fileQueue' \in {fileQueue, Append(fileQueue, q.file)}
          /\ listenFiles' \in {listenFiles, Append(listenFiles, q.file)}
      BY <2>2, <2>4 DEF ReadMakes, Query
    <3> HIDE DEF q
    <3>2. PhaseTyped'
      BY <1>1, <3>1 DEF PhaseTyped
    <3>3. InputTyped'
      <4>1. fileQueue \in Seq(Name) /\ listenFiles \in Seq(Name) /\ q.file \in Name
        BY <1>1, <3>1 DEF InputTyped
      <4>2. Append(fileQueue, q.file) \in Seq(Name) /\ Append(listenFiles, q.file) \in Seq(Name)
        BY <4>1
      <4>3. fileQueue' \in Seq(Name) /\ listenFiles' \in Seq(Name)
        BY <3>1, <4>1, <4>2
      <4> QED BY <1>1, <2>2, <2>3, <4>3 DEF InputTyped
    <3>4. allQueries' \in Seq(Query) /\ Len(allQueries') = Len(allQueries) + 1
      BY <1>1, <3>1 DEF ResultsTyped
    <3>5. Queries \subseteq Queries'
      BY <1>4, <3>4 DEF Queries
    <3>6. stdout' \in Seq(Output')
      <4>1. Output \subseteq Output'
        BY <3>5 DEF Output
      <4>2. stdout \in Seq(Output) /\ stdout' = stdout
        BY <1>1, <2>3 DEF ResultsTyped
      <4> HIDE DEF Output
      <4> QED BY <4>1, <4>2
    <3>7. executed' \subseteq Queries' /\ counter' \in 0 .. Len(allQueries')
      BY <1>1, <1>4, <2>3, <3>4, <3>5 DEF ResultsTyped
    <3> QED BY <2>1, <3>2, <3>3, <3>4, <3>6, <3>7 DEF ResultsTyped
  <2>5. CASE parsed'.outcome.status # "Made"
    <3>1. phase' \in {phase, "undefined"} /\ UNCHANGED <<allQueries, fileQueue, listenFiles>>
      BY <2>2, <2>5 DEF ReadMakes
    <3>2. PhaseTyped'
      BY <1>1, <3>1 DEF PhaseTyped
    <3>3. InputTyped'
      BY <1>1, <2>2, <2>3, <3>1 DEF InputTyped
    <3>4. ResultsTyped'
      BY <1>1, <2>3, <3>1 DEF ResultsTyped, Queries, Output
    <3> QED BY <2>1, <3>2, <3>3, <3>4
  <2> QED BY <2>4, <2>5
<1>6. CASE EndOfStream
  <2>1. InputTyped'
    BY <1>1, <1>6 DEF EndOfStream, InputTyped
  <2>2. ResultsTyped' /\ PhaseTyped'
    BY <1>1, <1>6 DEF EndOfStream, ResultsTyped, PhaseTyped, Queries, Output
  <2> QED BY <1>3, <1>6, <2>1, <2>2 DEF EndOfStream
<1>7. CASE OpenNext
  <2>1. InputTyped'
    <3>1. fileQueue' \in Seq(Name)
      BY <1>1, <1>7 DEF OpenNext, InputTyped
    <3>2. input' \in Seq(Text)
      <4>1. input' = input \/ \E f \in DOMAIN source : input' = source[f]
        BY <1>7 DEF OpenNext
      <4> QED BY <1>1, <4>1 DEF InputTyped, Range
    <3> QED BY <1>1, <1>7, <3>1, <3>2 DEF OpenNext, InputTyped
  <2>2. ResultsTyped' /\ PhaseTyped'
    BY <1>1, <1>7 DEF OpenNext, ResultsTyped, PhaseTyped, Queries, Output
  <2> QED BY <1>3, <1>7, <2>1, <2>2 DEF OpenNext
<1>8. CASE Decide
  <2>1. InputTyped' /\ ResultsTyped' /\ PhaseTyped'
    BY <1>1, <1>8 DEF Decide, InputTyped, ResultsTyped, PhaseTyped, Queries, Output
  <2> QED BY <1>3, <1>8, <2>1 DEF Decide
<1>9. CASE ExecuteHere
  <2>1. counter + 1 \in Queries /\ counter' = counter + 1 /\ counter \in Nat
    BY <1>1, <1>4, <1>9 DEF ExecuteHere, ResultsTyped
  <2>2. stdout' \in Seq(Output)
    <3>1. ExecutionPrints(counter + 1) \in Seq(Output)
      BY <2>1, PrintsListing
    <3>2. <<Result(counter + 1)>> \in Seq(Output)
      <4>1. counter + 1 \in Nat \ {0}
        BY <2>1
      <4> QED BY <2>1, <4>1, PrintsResult
    <3>3. stdout' \in {stdout, stdout \o ExecutionPrints(counter + 1)
                                      \o <<Result(counter + 1)>>}
      BY <1>9, <2>1 DEF ExecuteHere
    <3>4. stdout \in Seq(Output)
      BY <1>1 DEF ResultsTyped
    <3>5. stdout \o ExecutionPrints(counter + 1) \in Seq(Output)
      BY <3>1, <3>4
    <3>6. stdout \o ExecutionPrints(counter + 1) \o <<Result(counter + 1)>> \in Seq(Output)
      BY <3>2, <3>5
    <3> QED BY <3>3, <3>4, <3>6
  <2>3. UNCHANGED <<parserVars, source, numThreads, input, fileQueue, listenFiles,
                    allQueries, executed>> /\ phase' \in {phase, "done"}
    BY <1>9 DEF ExecuteHere
  <2>4. InputTyped' /\ PhaseTyped'
    BY <1>1, <2>3 DEF InputTyped, PhaseTyped
  <2>5. ResultsTyped'
    <3>1. Output' = Output /\ Queries' = Queries
      BY <2>3 DEF Output, Queries
    <3>2. counter' \in 0 .. Len(allQueries')
      BY <1>4, <2>1, <2>3
    <3> QED BY <1>1, <2>2, <2>3, <3>1, <3>2 DEF ResultsTyped
  <2> QED BY <1>3, <2>3, <2>4, <2>5
<1>10. CASE LoopDone
  <2>1. InputTyped' /\ ResultsTyped' /\ PhaseTyped'
    BY <1>1, <1>10 DEF LoopDone, InputTyped, ResultsTyped, PhaseTyped, Queries, Output
  <2> QED BY <1>3, <1>10, <2>1 DEF LoopDone
<1>11. ASSUME NEW k \in Queries, ExecuteOnWorker(k)
       PROVE  ParserTyped' /\ InputTyped' /\ PhaseTyped' /\ ResultsTyped'
  <2>1. /\ executed' = executed \cup {k}
        /\ stdout' = stdout \/ stdout' = stdout \o ExecutionPrints(k)
        /\ UNCHANGED <<parserVars, phase, source, numThreads, input, fileQueue,
                       listenFiles, allQueries, counter>>
    BY <1>11, WorkerEffect
  <2>2. InputTyped' /\ PhaseTyped'
    BY <1>1, <2>1 DEF InputTyped, PhaseTyped
  <2>3. stdout' \in Seq(Output)
    <3>1. ExecutionPrints(k) \in Seq(Output)
      <4>1. 0 \in Nat
        OBVIOUS
      <4> QED BY <1>11, <4>1, PrintsListing
    <3>2. stdout \in Seq(Output) /\ stdout \o ExecutionPrints(k) \in Seq(Output)
      BY <1>1, <3>1 DEF ResultsTyped
    <3> QED BY <2>1, <3>2, Zenon
  <2>4. Output' = Output /\ Queries' = Queries
    BY <2>1 DEF Output, Queries
  <2>5. ResultsTyped'
    BY <1>1, <1>11, <2>1, <2>3, <2>4 DEF ResultsTyped
  <2> QED BY <1>3, <2>1, <2>2, <2>5
<1>12. CASE PrintResults
  <2>1. /\ stdout' = stdout \o [k \in 1 .. Cardinality(Shown) |-> Result(k)]
        /\ phase' = "done"
        /\ UNCHANGED <<parserVars, source, numThreads, input, fileQueue, listenFiles,
                       allQueries, counter, executed>>
    BY <1>12 DEF PrintResults
  <2>2. InputTyped' /\ PhaseTyped'
    BY <1>1, <2>1 DEF InputTyped, PhaseTyped
  <2>3. Cardinality(Shown) \in Nat /\ 1 .. Cardinality(Shown) \subseteq Queries
    BY <1>1, <1>4, QuitPlace DEF ResultsTyped
  <2>4. [k \in 1 .. Cardinality(Shown) |-> Result(k)] \in Seq(Output)
    BY <2>3, PrintsAll
  <2>5. stdout' \in Seq(Output)
    BY <1>1, <2>1, <2>4 DEF ResultsTyped
  <2>6. Output' = Output /\ Queries' = Queries
    BY <2>1 DEF Output, Queries
  <2>7. ResultsTyped'
    BY <1>1, <2>1, <2>5, <2>6 DEF ResultsTyped
  <2> QED BY <1>3, <2>1, <2>2, <2>7
<1>13. CASE UNCHANGED executorVars
  BY <1>1, <1>3, <1>13 DEF executorVars, InputTyped, ResultsTyped, PhaseTyped, Queries, Output
<1> QED BY <1>5, <1>6, <1>7, <1>8, <1>9, <1>10, <1>11, <1>12, <1>13
        DEF ExecutorNext, ExecutorStep, WaitAllBlocks, Ended

\* Every step but that of ReadStatement leaves the parser and the program alone.
LEMMA OnlyReading ==
    ASSUME [ExecutorNext]_executorVars, ~ReadStatement
    PROVE  UNCHANGED <<complex, fileTableNameMap, parsed, allQueries>>
BY DEF ExecutorNext, ExecutorStep, EndOfStream, OpenNext, Decide, ExecuteHere, LoopDone,
       ExecuteOnWorker, PrintResults, WaitAllBlocks, Ended,
       executorVars, parserVars

LEMMA InitNames ==
    ASSUME ExecutorInit
    PROVE  NamesKnown /\ LoadsAreNamed /\ AcceptsExactly /\ PrintedSoFar
<1>1. /\ fileTableNameMap = <<>> /\ allQueries = <<>> /\ phase = "collect"
      /\ counter = 0 /\ stdout = <<>> /\ parsed = [text |-> <<>>, outcome |-> Failed]
  BY DEF ExecutorInit, ParserInit
<1>2. NamesKnown
  <2>1. \A f : Dumps(<<>>, 0, f) = {} /\ NameBehind(<<>>, 0, f) = NameIn(<<>>, f)
    BY DEF Dumps, NameBehind, NameIn
  <2> QED BY <1>1, <2>1 DEF NamesKnown
<1>3. LoadsAreNamed
  <2>1. Queries = {}
    BY <1>1 DEF Queries
  <2> QED BY <2>1, NamedByPlace
<1>4. AcceptsExactly
  BY <1>1 DEF AcceptsExactly, Failed
<1>5. PrintedSoFar
  BY <1>1, NothingPrinted DEF PrintedSoFar
<1> QED BY <1>2, <1>3, <1>4, <1>5

LEMMA NamesStep ==
    ASSUME ExecutorTypeOK, NamesKnown, LoadsAreNamed, [ExecutorNext]_executorVars
    PROVE  NamesKnown' /\ LoadsAreNamed'
<1>1. CASE ~ReadStatement
  <2>1. UNCHANGED <<fileTableNameMap, allQueries>>
    BY <1>1, OnlyReading
  <2> QED BY <2>1 DEF NamesKnown, LoadsAreNamed, Queries
<1>2. CASE ReadStatement
  <2> DEFINE o == parsed'.outcome
             s == allQueries
             l == Len(allQueries)
  <2>1. /\ Follows(o, fileTableNameMap, fileTableNameMap')
        /\ o.status = "Made" => o.query \in Query
        /\ ReadMakes
    BY <1>2, ReadStep
  <2>2. s \in Seq(Query) /\ l \in Nat
    BY DEF ExecutorTypeOK
  <2> HIDE DEF o
  <2>3. CASE o.status # "Made"
    <3>1. UNCHANGED allQueries
      BY <2>1, <2>3 DEF ReadMakes, o
    <3>2. \A f \in Name : NameIn(fileTableNameMap', f) = NameIn(fileTableNameMap, f)
      BY <2>1, <2>3 DEF Follows
    <3> QED BY <3>1, <3>2 DEF NamesKnown, LoadsAreNamed, Queries
  <2>4. CASE o.status = "Made"
    <3> DEFINE q == o.query
    <3>1. q \in Query /\ allQueries' = Append(s, q) /\ q.file \in Name
      BY <2>1, <2>4 DEF ReadMakes, o, Query
    <3>2. /\ q.type = "Load" => q.table = NameIn(fileTableNameMap, q.file)
          /\ \A f \in Name :
                NameIn(fileTableNameMap', f) =
                   IF q.type = "Dump" /\ q.file = f THEN q.table
                   ELSE NameIn(fileTableNameMap, f)
      BY <2>1, <2>4 DEF Follows
    <3> HIDE DEF q
    <3>3. Len(allQueries') = l + 1 /\ allQueries'[l + 1] = q
          /\ \A k \in 1 .. l : allQueries'[k] = s[k]
      BY <2>2, <3>1
    <3>4. \A f \in Name : NameIn(fileTableNameMap, f) = NameBehind(s, l, f)
      BY DEF NamesKnown
    <3>5. ASSUME NEW f \in Name
          PROVE  NameIn(fileTableNameMap', f) = NameBehind(allQueries', l + 1, f)
      <4>1. NameBehind(allQueries', l + 1, f) =
               IF q.type = "Dump" /\ q.file = f THEN q.table ELSE NameBehind(s, l, f)
        BY <2>2, <3>1, OneMoreQuery
      <4> QED BY <3>2, <3>4, <4>1
    <3>6. NamesKnown'
      BY <3>3, <3>5 DEF NamesKnown
    <3>7. Queries = 1 .. l /\ Queries' = 1 .. l + 1
      BY <2>2, <3>1, <3>3 DEF Queries
    <3>8. ASSUME NEW k \in Queries', allQueries'[k].type = "Load"
          PROVE  allQueries'[k].table = NameBehind(allQueries', k - 1, allQueries'[k].file)
      <4>1. CASE k \in 1 .. l
        <5>1. s[k].type = "Load" /\ allQueries'[k] = s[k] /\ k \in Queries
          BY <3>3, <3>7, <3>8, <4>1
        <5>2. s[k].table = NameBehind(s, k - 1, s[k].file)
          BY <5>1, NamedByPlace
        <5>3. k - 1 \in 0 .. Len(s)
          BY <2>2, <4>1
        <5>4. NameBehind(Append(s, q), k - 1, s[k].file) = NameBehind(s, k - 1, s[k].file)
          BY <2>2, <3>1, <5>3, OneMoreQuery
        <5> QED BY <3>1, <5>1, <5>2, <5>4
      <4>2. CASE k = l + 1
        <5>1. allQueries'[k] = q /\ q.type = "Load" /\ k - 1 = l
          BY <2>2, <3>3, <3>8, <4>2
        <5>2. q.table = NameBehind(s, l, q.file)
          BY <3>1, <3>2, <3>4, <5>1
        <5>3. l \in 0 .. Len(s)
          BY <2>2
        <5>4. NameBehind(Append(s, q), l, q.file) = NameBehind(s, l, q.file)
          BY <2>2, <3>1, <5>3, OneMoreQuery
        <5> QED BY <3>1, <5>1, <5>2, <5>4
      <4> QED BY <2>2, <3>7, <4>1, <4>2
    <3>9. LoadsAreNamed'
      BY <3>8 DEF LoadsAreNamed, NameBehind, Dumps
    <3> QED BY <3>6, <3>9
  <2> QED BY <2>3, <2>4
<1> QED BY <1>1, <1>2

LEMMA AcceptsStep ==
    ASSUME ExecutorTypeOK, AcceptsExactly, [ExecutorNext]_executorVars
    PROVE  AcceptsExactly'
<1>1. CASE ReadStatement
  BY <1>1, ReadStep
<1>2. CASE ~ReadStatement
  BY <1>2, OnlyReading DEF AcceptsExactly
<1> QED BY <1>1, <1>2

\* The spellings of the language, once more for the statement that was read last.
LEMMA ReadsStep ==
    ASSUME ExecutorTypeOK, ReadsLanguage, [ExecutorNext]_executorVars
    PROVE  ReadsLanguage'
<1>1. CASE ReadStatement
  <2>1. input \in Seq(Text) /\ input # <<>> /\ parseQuery(Head(input))
    BY <1>1 DEF ExecutorTypeOK, ReadStatement
  <2> DEFINE t == Head(input)
  <2>2. t \in Text /\ parseQuery(t) /\ parsed'.text = t
    BY <2>1 DEF parseQuery
  <2> HIDE DEF t
  <2>3. SUFFICES ASSUME t \in DOMAIN Meaning
                 PROVE  parsed'.outcome = Made(Meaning[t])
    BY <2>2 DEF ReadsLanguage
  <2>4. \E q \in Language : t \in Spellings(q)
    BY <2>3 DEF Meaning
  <2>5. Meaning[t] \in Language /\ t \in Spellings(Meaning[t])
    <3>1. Meaning[t] = CHOOSE q \in Language : t \in Spellings(q)
      BY <2>3 DEF Meaning
    <3> QED BY <2>4, <3>1
  <2> QED BY <2>2, <2>5, LanguageAssumption, PlainRead
<1>2. CASE ~ReadStatement
  BY <1>2, OnlyReading DEF ReadsLanguage
<1> QED BY <1>1, <1>2

\* At first no statement has been read, and the empty one spells nothing.
LEMMA InitReads ==
    ASSUME ExecutorInit
    PROVE  ReadsLanguage
<1>1. parsed = [text |-> <<>>, outcome |-> Failed]
  BY DEF ExecutorInit, ParserInit
<1>2. SUFFICES ASSUME NEW q \in Language, <<>> \in Spellings(q) PROVE FALSE
  BY <1>1 DEF ReadsLanguage, Meaning
<1>3. Plain(q) /\ <<>> \in Text
  BY LanguageAssumption DEF Text
<1>4. CASE q.type \in {"List", "Quit", "PrintTable", "Listen"}
  BY <1>2, <1>3, <1>4, DebugRead DEF DebugMatches
<1>5. CASE q.type \in {"Drop", "Truncate", "Dump", "CopyTable"}
  BY <1>2, <1>3, <1>5, ManageRead DEF ManageTableMatches
<1>6. CASE q.type \in Range(ComplexTypes)
  <2>1. PICK v \in DOMAIN ComplexTypes : q.type = ComplexTypes[v]
    BY <1>6 DEF Range
  <2>2. Len(<<>>) >= 3
    BY <1>2, <1>3, <2>1, ComplexRead
  <2> QED BY <2>2
<1> QED BY <1>3, <1>4, <1>5, <1>6 DEF Plain

LEMMA PrintedStep ==
    ASSUME ExecutorTypeOK, PrintedSoFar, [ExecutorNext]_executorVars
    PROVE  PrintedSoFar'
<1>1. /\ allQueries \in Seq(Query) /\ Len(allQueries) \in Nat
      /\ Queries = 1 .. Len(allQueries) /\ counter \in 0 .. Len(allQueries)
      /\ stdout \in Seq(Output)
  BY DEF ExecutorTypeOK, Queries, Output
<1>2. CASE ReadStatement
  <2>1. phase \in {"collect", "process"} /\ UNCHANGED <<counter, stdout>>
    BY <1>2 DEF ReadStatement
  <2>2. phase' \in {phase, "undefined"}
    BY <1>2, ReadStep DEF ReadMakes
  <2> QED BY <2>1, <2>2 DEF PrintedSoFar
<1>3. CASE EndOfStream \/ OpenNext
  <2>1. /\ phase \in {"collect", "process", "next"} /\ UNCHANGED <<counter, stdout>>
        /\ phase' \in {"process", "next"}
    BY <1>3 DEF EndOfStream, OpenNext
  <2> QED BY <2>1 DEF PrintedSoFar
<1>4. CASE Decide
  <2>1. phase = "next" /\ phase' \in {"single", "multi"} /\ UNCHANGED <<counter, stdout, allQueries>>
    BY <1>4 DEF Decide
  <2>2. counter = 0 /\ NumberedFrom(stdout, 0, 0)
    BY <2>1 DEF PrintedSoFar
  <2> QED BY <2>1, <2>2 DEF PrintedSoFar
<1>5. CASE ExecuteHere
  <2> DEFINE k == counter + 1
  <2>1. phase = "single" /\ k \in Queries /\ k \in Nat \ {0} /\ counter' = k
        /\ counter \in Nat /\ k - 1 = counter /\ UNCHANGED allQueries
    BY <1>1, <1>5 DEF ExecuteHere
  <2>2. NumberedFrom(stdout, 0, counter) /\ \A j \in 1 .. counter : allQueries[j].type # "Quit"
    BY <2>1 DEF PrintedSoFar
  <2>3. CASE allQueries[k].type = "Quit"
    <3>1. phase' = "done" /\ UNCHANGED stdout
      BY <1>5, <2>1, <2>3 DEF ExecuteHere
    <3>2. BeforeQuit = counter
      <4>1. /\ BeforeQuit \in 0 .. Len(allQueries)
            /\ \A j \in 1 .. BeforeQuit : allQueries[j].type # "Quit"
            /\ BeforeQuit < Len(allQueries) => allQueries[BeforeQuit + 1].type = "Quit"
        BY <1>1, QuitPlace
      <4>2. ~(k <= BeforeQuit)
        BY <2>1, <2>3, <4>1
      <4>3. ~(BeforeQuit < counter)
        <5> SUFFICES ASSUME BeforeQuit < counter PROVE FALSE
          OBVIOUS
        <5>1. BeforeQuit + 1 \in 1 .. counter /\ BeforeQuit < Len(allQueries)
          BY <1>1, <4>1
        <5> QED BY <2>2, <4>1, <5>1
      <4> QED BY <2>1, <4>1, <4>2, <4>3
    <3>3. BeforeQuit' = BeforeQuit
      BY <2>1 DEF BeforeQuit, Queries
    <3>4. NumberedFrom(stdout', 0, BeforeQuit')
      BY <2>2, <3>1, <3>2, <3>3
    <3> QED BY <3>1, <3>4 DEF PrintedSoFar
  <2>4. CASE allQueries[k].type # "Quit"
    <3>1. phase' = phase /\ stdout' = stdout \o ExecutionPrints(k) \o <<Result(k)>>
      BY <1>5, <2>1, <2>4 DEF ExecuteHere
    <3> DEFINE listed == stdout \o ExecutionPrints(k)
               more == <<Result(k)>>
    <3>2. ExecutionPrints(k) \in Seq(Output) /\ NumberedFrom(ExecutionPrints(k), counter, counter)
      BY <2>1, PrintsListing
    <3>3. more \in Seq(Output) /\ NumberedFrom(more, counter, k)
      <4>1. more \in Seq(Output) /\ NumberedFrom(more, k - 1, k)
        BY <2>1, PrintsResult
      <4> QED BY <2>1, <4>1
    <3> HIDE DEF k, more
    <3>4. NumberedFrom(listed, 0, counter)
      <4>1. 0 \in Nat /\ 0 <= counter /\ counter <= counter
        BY <2>1
      <4> QED BY <1>1, <2>1, <2>2, <3>2, <4>1, OneAfterTheOther
    <3>5. listed \in Seq(Output)
      BY <1>1, <3>2
    <3> HIDE DEF listed
    <3>6. NumberedFrom(listed \o more, 0, k)
      <4>1. 0 \in Nat /\ 0 <= counter /\ counter <= k /\ k \in Nat
        BY <2>1 DEF k
      <4> QED BY <2>1, <3>3, <3>4, <3>5, <4>1, OneAfterTheOther
    <3>7. NumberedFrom(stdout', 0, counter')
      BY <2>1, <3>1, <3>6 DEF listed, more
    <3>8. \A j \in 1 .. k : allQueries[j].type # "Quit"
      <4>1. \A j \in 1 .. k : j \in 1 .. counter \/ j = k
        BY <2>1 DEF k
      <4> QED BY <2>2, <2>4, <4>1
    <3> QED BY <2>1, <3>1, <3>7, <3>8 DEF PrintedSoFar
  <2> QED BY <2>3, <2>4
<1>6. CASE LoopDone
  <2>1. phase = "single" /\ counter = Len(allQueries) /\ phase' = "done"
        /\ UNCHANGED <<allQueries, stdout>>
    BY <1>6 DEF LoopDone
  <2>2. NumberedFrom(stdout, 0, counter) /\ \A j \in 1 .. counter : allQueries[j].type # "Quit"
    BY <2>1 DEF PrintedSoFar
  <2>3. /\ BeforeQuit \in 0 .. Len(allQueries)
        /\ BeforeQuit < Len(allQueries) => allQueries[BeforeQuit + 1].type = "Quit"
    BY <1>1, QuitPlace
  <2>4. ~(BeforeQuit < Len(allQueries))
    <3> SUFFICES ASSUME BeforeQuit < Len(allQueries) PROVE FALSE
      OBVIOUS
    <3>1. BeforeQuit + 1 \in 1 .. counter
      BY <1>1, <2>1, <2>3
    <3> QED BY <2>2, <2>3, <3>1
  <2>5. BeforeQuit = counter
    BY <1>1, <2>1, <2>3, <2>4
  <2>6. BeforeQuit' = BeforeQuit
    BY <2>1 DEF BeforeQuit, Queries
  <2>7. NumberedFrom(stdout', 0, BeforeQuit')
    BY <2>1, <2>2, <2>5, <2>6
  <2> QED BY <2>1, <2>7 DEF PrintedSoFar
<1>7. ASSUME NEW k \in Queries, ExecuteOnWorker(k) PROVE PrintedSoFar'
  <2>1. /\ phase = "multi" /\ phase' = "multi"
        /\ stdout' = stdout \/ stdout' = stdout \o ExecutionPrints(k)
    BY <1>7, WorkerEffect
  <2>2. NumberedFrom(stdout, 0, 0)
    BY <2>1 DEF PrintedSoFar
  <2>3. 0 \in Nat /\ 0 <= 0
    OBVIOUS
  <2>4. ExecutionPrints(k) \in Seq(Output) /\ NumberedFrom(ExecutionPrints(k), 0, 0)
    BY <1>7, <2>3, PrintsListing
  <2>5. NumberedFrom(stdout \o ExecutionPrints(k), 0, 0)
    BY <1>1, <2>2, <2>3, <2>4, OneAfterTheOther
  <2> QED BY <2>1, <2>5 DEF PrintedSoFar
<1>8. CASE PrintResults
  <2> DEFINE m == Cardinality(Shown)
             results == [j \in 1 .. m |-> Result(j)]
  <2>1. phase = "multi" /\ phase' = "done" /\ UNCHANGED allQueries
        /\ stdout' = stdout \o results
    BY <1>8 DEF PrintResults
  <2>2. NumberedFrom(stdout, 0, 0)
    BY <2>1 DEF PrintedSoFar
  <2>3. m = BeforeQuit /\ m \in Nat /\ 1 .. m \subseteq Queries
    BY <1>1, QuitPlace
  <2> HIDE DEF m
  <2>4. results \in Seq(Output) /\ NumberedFrom(results, 0, m)
    BY <2>3, PrintsAll
  <2> HIDE DEF results
  <2>5. 0 \in Nat /\ 0 <= 0 /\ 0 <= m
    BY <2>3
  <2>6. NumberedFrom(stdout \o results, 0, m)
    BY <1>1, <2>2, <2>3, <2>4, <2>5, OneAfterTheOther
  <2>7. BeforeQuit' = BeforeQuit
    BY <2>1 DEF BeforeQuit, Queries
  <2>8. NumberedFrom(stdout', 0, BeforeQuit')
    BY <2>1, <2>3, <2>6, <2>7
  <2> QED BY <2>1, <2>8 DEF PrintedSoFar
<1>9. CASE UNCHANGED executorVars
  BY <1>9 DEF executorVars, PrintedSoFar, BeforeQuit, Queries
<1> QED BY <1>2, <1>3, <1>4, <1>5, <1>6, <1>7, <1>8, <1>9 DEF ExecutorNext, ExecutorStep, WaitAllBlocks, Ended

-----------------------------------------------------------------------------
(* Sequences put together of the values of a function.                     *)

\* FlattenSeq's equations, for the first n sequences.
Chained(g, seqs, n) ==
    g = [m \in 1 .. n |-> IF m = 1 THEN seqs[m] ELSE g[m - 1] \o seqs[m]]

\* They have a solution.
LEMMA FlattenExists ==
    ASSUME NEW B, NEW seqs \in Seq(Seq(B)), NEW n \in Nat, n <= Len(seqs)
    PROVE  \E g \in [1 .. n -> Seq(B)] : Chained(g, seqs, n)
<1> DEFINE Good == {k \in Nat : k <= Len(seqs) =>
                                    \E g \in [1 .. k -> Seq(B)] : Chained(g, seqs, k)}
<1>1. ASSUME NEW k \in Nat, \A l \in Nat : l < k => l \in Good PROVE k \in Good
  <2> SUFFICES ASSUME k <= Len(seqs) PROVE \E g \in [1 .. k -> Seq(B)] : Chained(g, seqs, k)
    OBVIOUS
  <2>1. CASE k = 0
    <3>1. [m \in 1 .. k |-> <<>>] \in [1 .. k -> Seq(B)]
      BY <2>1
    <3>2. Chained([m \in 1 .. k |-> <<>>], seqs, k)
      BY <2>1 DEF Chained
    <3> QED BY <3>1, <3>2
  <2>2. CASE k # 0
    <3>1. k - 1 \in Nat /\ k - 1 < k /\ k - 1 <= Len(seqs)
      BY <2>2
    <3>2. PICK f \in [1 .. k - 1 -> Seq(B)] : Chained(f, seqs, k - 1)
      BY <1>1, <3>1
    <3> DEFINE g == [m \in 1 .. k |-> IF m = 1 THEN seqs[m] ELSE f[m - 1] \o seqs[m]]
    <3>3. \A m \in 1 .. k : m # 1 => m - 1 \in 1 .. k - 1
      OBVIOUS
    <3>4. \A m \in 1 .. k : seqs[m] \in Seq(B)
      OBVIOUS
    <3>5. g \in [1 .. k -> Seq(B)]
      <4> SUFFICES ASSUME NEW m \in 1 .. k
                   PROVE  (IF m = 1 THEN seqs[m] ELSE f[m - 1] \o seqs[m]) \in Seq(B)
        OBVIOUS
      <4>1. CASE m = 1
        BY <3>4, <4>1
      <4>2. CASE m # 1
        <5>1. f[m - 1] \in Seq(B) /\ seqs[m] \in Seq(B)
          BY <3>3, <3>4, <4>2
        <5> QED BY <4>2, <5>1
      <4> QED BY <4>1, <4>2
    <3>6. \A m \in 1 .. k - 1 : g[m] = f[m]
      <4>1. \A m \in 1 .. k - 1 :
                f[m] = IF m = 1 THEN seqs[m] ELSE f[m - 1] \o seqs[m]
        BY <3>2 DEF Chained
      <4>2. \A m \in 1 .. k - 1 : m \in 1 .. k
        BY <3>1
      <4> QED BY <4>1, <4>2
    <3>7. Chained(g, seqs, k)
      <4>1. \A m \in 1 .. k : m # 1 => g[m - 1] = f[m - 1]
        BY <3>3, <3>6
      <4>2. g = [m \in 1 .. k |-> IF m = 1 THEN seqs[m] ELSE g[m - 1] \o seqs[m]]
        <5> HIDE DEF g
        <5>1. g = [m \in 1 .. k |-> IF m = 1 THEN seqs[m] ELSE f[m - 1] \o seqs[m]]
          BY DEF g
        <5> QED BY <4>1, <5>1
      <4> QED BY <4>2 DEF Chained
    <3> HIDE DEF g
    <3> QED BY <3>5, <3>7
  <2> QED BY <2>1, <2>2
<1>2. n \in Good
  <2>1. \A k \in Nat : k \in Good
    <3> HIDE DEF Good
    <3> QED BY <1>1, StrongInduction
  <2> QED BY <2>1
<1> QED BY <1>2

LEMMA FlattenNone == ASSUME NEW seqs, seqs = <<>> PROVE FlattenSeq(seqs) = <<>>
BY DEF FlattenSeq

\* FlattenSeq is what any solution ends with.
LEMMA FlattenChained ==
    ASSUME NEW seqs, Len(seqs) \in Nat, Len(seqs) > 0, NEW g,
           Chained(g, seqs, Len(seqs))
    PROVE  FlattenSeq(seqs) = g[Len(seqs)]
BY FlattenIs DEF Chained

LEMMA FlattenType ==
    ASSUME NEW B, NEW seqs \in Seq(Seq(B))
    PROVE  FlattenSeq(seqs) \in Seq(B)
<1>1. CASE Len(seqs) = 0
  <2>1. seqs = <<>>
    BY <1>1
  <2>2. <<>> \in Seq(B)
    OBVIOUS
  <2> QED BY <2>1, <2>2, FlattenNone
<1>2. CASE Len(seqs) # 0
  <2>1. Len(seqs) \in Nat /\ Len(seqs) > 0 /\ Len(seqs) <= Len(seqs)
    BY <1>2
  <2>2. PICK g \in [1 .. Len(seqs) -> Seq(B)] : Chained(g, seqs, Len(seqs))
    BY <2>1, FlattenExists
  <2>3. FlattenSeq(seqs) = g[Len(seqs)]
    BY <2>1, <2>2, FlattenChained
  <2>4. g[Len(seqs)] \in Seq(B)
    <3>1. Len(seqs) \in 1 .. Len(seqs)
      BY <2>1
    <3> QED BY ONLY <3>1, <2>2
  <2> QED BY <2>3, <2>4
<1> QED BY <1>1, <1>2

\* One more sequence comes behind the others.
LEMMA FlattenAppend ==
    ASSUME NEW B, NEW seqs \in Seq(Seq(B)), NEW x \in Seq(B)
    PROVE  FlattenSeq(Append(seqs, x)) = FlattenSeq(seqs) \o x
<1> DEFINE more == Append(seqs, x)
           n    == Len(seqs)
<1>1. /\ more \in Seq(Seq(B)) /\ Len(more) = n + 1 /\ n \in Nat
      /\ more[n + 1] = x /\ \A m \in 1 .. n : more[m] = seqs[m]
  OBVIOUS
<1> HIDE DEF more
<1>2. PICK g \in [1 .. n + 1 -> Seq(B)] : Chained(g, more, n + 1)
  <2>1. n + 1 \in Nat /\ n + 1 <= Len(more)
    BY <1>1
  <2> QED BY <1>1, <2>1, FlattenExists
<1>3. FlattenSeq(more) = g[n + 1]
  <2>1. Len(more) \in Nat /\ Len(more) > 0
    BY <1>1
  <2>2. Chained(g, more, Len(more))
    BY <1>1, <1>2
  <2>3. FlattenSeq(more) = g[Len(more)]
    BY <2>1, <2>2, FlattenChained
  <2> QED BY <1>1, <2>3
<1>4. \A m \in 1 .. n + 1 : g[m] = IF m = 1 THEN more[m] ELSE g[m - 1] \o more[m]
  BY <1>2 DEF Chained
<1>5. CASE n = 0
  <2>1. seqs = <<>>
    BY <1>5
  <2>2. FlattenSeq(seqs) = <<>>
    BY <2>1, FlattenNone
  <2>3. g[n + 1] = x
    <3>1. n + 1 \in 1 .. n + 1 /\ n + 1 = 1
      BY <1>5
    <3> QED BY <1>1, <1>4, <3>1
  <2> QED BY <1>3, <2>2, <2>3 DEF more
<1>6. CASE n # 0
  <2> DEFINE f == [m \in 1 .. n |-> g[m]]
  <2>1. f = [m \in 1 .. n |-> IF m = 1 THEN seqs[m] ELSE f[m - 1] \o seqs[m]]
    <3> SUFFICES ASSUME NEW m \in 1 .. n
                 PROVE  g[m] = IF m = 1 THEN seqs[m] ELSE f[m - 1] \o seqs[m]
      OBVIOUS
    <3>1. m \in 1 .. n + 1 /\ more[m] = seqs[m]
      BY <1>1
    <3>2. g[m] = IF m = 1 THEN more[m] ELSE g[m - 1] \o more[m]
      BY <1>4, <3>1
    <3>3. m # 1 => m - 1 \in 1 .. n
      OBVIOUS
    <3>4. m # 1 => f[m - 1] = g[m - 1]
      BY <3>3
    <3> HIDE DEF f
    <3> QED BY <3>1, <3>2, <3>4
  <2>2. f[n] = g[n]
    BY <1>1, <1>6
  <2> HIDE DEF f
  <2>3. FlattenSeq(seqs) = f[n]
    <3>1. Len(seqs) \in Nat /\ Len(seqs) > 0
      BY <1>6
    <3>2. Chained(f, seqs, n)
      BY <2>1 DEF Chained
    <3> QED BY <3>1, <3>2, FlattenChained
  <2>4. g[n + 1] = g[n] \o x
    <3>1. PICK m \in 1 .. n + 1 : m = n + 1
      BY <1>1
    <3>2. m # 1 /\ m - 1 = n
      BY <1>1, <1>6, <3>1
    <3>3. g[m] = g[m - 1] \o more[m]
      BY <1>4, <3>2
    <3> QED BY <1>1, <3>1, <3>2, <3>3
  <2> QED BY <1>3, <2>2, <2>3, <2>4 DEF more
<1> QED BY <1>5, <1>6

-----------------------------------------------------------------------------
\* Induction over sequences that grow at their end.
LEMMA GrownSequences ==
    ASSUME NEW A, NEW G, <<>> \in G,
           \A u \in Seq(A), a \in A : u \in G => Append(u, a) \in G
    PROVE  \A s \in Seq(A) : s \in G
<1> DEFINE Good == {n \in Nat : \A s \in Seq(A) : Len(s) = n => s \in G}
<1>1. ASSUME NEW n \in Nat, \A l \in Nat : l < n => l \in Good PROVE n \in Good
  <2> SUFFICES ASSUME NEW s \in Seq(A), Len(s) = n PROVE s \in G
    OBVIOUS
  <2>1. CASE n = 0
    BY <2>1
  <2>2. CASE n # 0
    <3> DEFINE u == SubSeq(s, 1, n - 1)
    <3>1. u \in Seq(A) /\ Len(u) = n - 1 /\ s[n] \in A /\ s = Append(u, s[n])
      BY <2>2
    <3> HIDE DEF u
    <3>2. n - 1 \in Nat /\ n - 1 < n
      BY <2>2
    <3>3. n - 1 \in Good
      BY <1>1, <3>2
    <3>4. u \in G
      BY <3>1, <3>3
    <3> QED BY <3>1, <3>4
  <2> QED BY <2>1, <2>2
<1>2. \A n \in Nat : n \in Good
  <2> HIDE DEF Good
  <2> QED BY <1>1, StrongInduction
<1> QED BY <1>2

LEMMA RangeAppend ==
    ASSUME NEW A, NEW s \in Seq(A), NEW a \in A
    PROVE  Range(Append(s, a)) = Range(s) \cup {a}
<1>1. DOMAIN Append(s, a) = 1 .. Len(s) + 1 /\ DOMAIN s = 1 .. Len(s) /\ Len(s) \in Nat
  OBVIOUS
<1>2. Append(s, a)[Len(s) + 1] = a /\ \A i \in 1 .. Len(s) : Append(s, a)[i] = s[i]
  OBVIOUS
<1> QED BY <1>1, <1>2 DEF Range

LEMMA RangeConcat ==
    ASSUME NEW B, NEW s \in Seq(B), NEW r \in Seq(B)
    PROVE  Range(s \o r) = Range(s) \cup Range(r)
<1>1. /\ DOMAIN (s \o r) = 1 .. Len(s) + Len(r) /\ DOMAIN s = 1 .. Len(s)
      /\ DOMAIN r = 1 .. Len(r) /\ Len(s) \in Nat /\ Len(r) \in Nat
  OBVIOUS
<1>2. /\ \A i \in 1 .. Len(s) : (s \o r)[i] = s[i]
      /\ \A i \in 1 .. Len(r) : (s \o r)[Len(s) + i] = r[i]
  OBVIOUS
<1>3. \A i \in 1 .. Len(s) + Len(r) :
          i \in 1 .. Len(s) \/ \E j \in 1 .. Len(r) : i = Len(s) + j
  <2> SUFFICES ASSUME NEW i \in 1 .. Len(s) + Len(r), i \notin 1 .. Len(s)
               PROVE  \E j \in 1 .. Len(r) : i = Len(s) + j
    OBVIOUS
  <2>1. i - Len(s) \in 1 .. Len(r) /\ i = Len(s) + (i - Len(s))
    BY <1>1
  <2> QED BY <2>1
<1>4. \A i \in 1 .. Len(s) : i \in 1 .. Len(s) + Len(r)
  BY <1>1
<1>5. \A i \in 1 .. Len(r) : Len(s) + i \in 1 .. Len(s) + Len(r)
  BY <1>1
<1> DEFINE t == s \o r
<1> HIDE DEF t
<1>6. \A x : x \in Range(t) => x \in Range(s) \cup Range(r)
  BY <1>1, <1>2, <1>3 DEF Range, t
<1>7. \A x : x \in Range(s) \cup Range(r) => x \in Range(t)
  BY <1>1, <1>2, <1>4, <1>5 DEF Range, t
<1> QED BY <1>6, <1>7 DEF t

LEMMA RangeOf ==
    ASSUME NEW A, NEW s \in Seq(A)
    PROVE  Range(s) \subseteq A /\ (s = <<>> <=> Range(s) = {})
<1>1. DOMAIN s = 1 .. Len(s) /\ Len(s) \in Nat /\ \A i \in 1 .. Len(s) : s[i] \in A
  OBVIOUS
<1>2. s # <<>> => 1 \in 1 .. Len(s)
  OBVIOUS
<1>3. s = <<>> <=> DOMAIN s = {}
  BY <1>1, <1>2
<1>4. Range(s) = {} <=> DOMAIN s = {}
  BY DEF Range
<1>5. Range(s) \subseteq A
  BY <1>1 DEF Range
<1> QED BY <1>3, <1>4, <1>5

\* The values of f at the members of s, one behind the other.
FlatMap(s, f) == FlattenSeq([i \in DOMAIN s |-> f[s[i]]])

\* FlatMap of no member, of one, and of a sequence that grows at its end.
LEMMA MapNone == ASSUME NEW f PROVE FlatMap(<<>>, f) = <<>>
<1>1. [i \in DOMAIN <<>> |-> f[<<>>[i]]] = <<>>
  OBVIOUS
<1> QED BY <1>1, FlattenNone DEF FlatMap

LEMMA MapType ==
    ASSUME NEW A, NEW B, NEW f \in [A -> Seq(B)], NEW s \in Seq(A)
    PROVE  FlatMap(s, f) \in Seq(B)
<1>1. [i \in DOMAIN s |-> f[s[i]]] \in Seq(Seq(B))
  <2>1. \A i \in 1 .. Len(s) : f[s[i]] \in Seq(B)
    OBVIOUS
  <2>2. [i \in 1 .. Len(s) |-> f[s[i]]] \in Seq(Seq(B))
    BY <2>1
  <2>3. DOMAIN s = 1 .. Len(s)
    OBVIOUS
  <2> QED BY <2>2, <2>3
<1> QED BY <1>1, FlattenType DEF FlatMap

LEMMA MapAppend ==
    ASSUME NEW A, NEW B, NEW f \in [A -> Seq(B)], NEW s \in Seq(A), NEW a \in A
    PROVE  FlatMap(Append(s, a), f) = FlatMap(s, f) \o f[a]
<1> DEFINE values == [i \in DOMAIN s |-> f[s[i]]]
           more   == [i \in DOMAIN Append(s, a) |-> f[Append(s, a)[i]]]
<1>1. values \in Seq(Seq(B)) /\ f[a] \in Seq(B)
  OBVIOUS
<1>2. more = Append(values, f[a])
  <2>1. Len(s) \in Nat /\ DOMAIN s = 1 .. Len(s) /\ DOMAIN Append(s, a) = 1 .. Len(s) + 1
    OBVIOUS
  <2>2. Len(values) = Len(s) /\ DOMAIN Append(values, f[a]) = 1 .. Len(s) + 1
    OBVIOUS
  <2>3. Append(s, a)[Len(s) + 1] = a /\ Append(values, f[a])[Len(s) + 1] = f[a]
    OBVIOUS
  <2>4. \A i \in 1 .. Len(s) : Append(s, a)[i] = s[i] /\ Append(values, f[a])[i] = f[s[i]]
    OBVIOUS
  <2> DEFINE t == Append(s, a)
             v == Append(values, f[a])
  <2>5. v \in Seq(Seq(B))
    OBVIOUS
  <2>6. v = [i \in DOMAIN v |-> v[i]]
    <3> HIDE DEF v
    <3> QED BY <2>5
  <2> HIDE DEF t, v, values
  <2>7. [i \in DOMAIN t |-> f[t[i]]] = v
    BY <2>1, <2>2, <2>3, <2>4, <2>6 DEF t, v
  <2> QED BY <2>7 DEF t, v
<1> HIDE DEF values, more
<1>3. FlattenSeq(Append(values, f[a])) = FlattenSeq(values) \o f[a]
  BY <1>1, FlattenAppend
<1> QED BY <1>2, <1>3 DEF FlatMap, values, more

LEMMA MapOne ==
    ASSUME NEW A, NEW B, NEW f \in [A -> Seq(B)], NEW a \in A
    PROVE  FlatMap(<<a>>, f) = f[a]
<1>1. <<>> \in Seq(A) /\ Append(<<>>, a) = <<a>>
  OBVIOUS
<1>2. FlatMap(<<a>>, f) = <<>> \o f[a]
  BY <1>1, MapAppend, MapNone
<1>3. f[a] \in Seq(B)
  OBVIOUS
<1> QED BY <1>2, <1>3

\* Sequences can be put together from either end.
Regroups(A) == \A s, x, y \in Seq(A) : s \o (x \o y) = (s \o x) \o y

LEMMA ConcatRegroups == ASSUME NEW A PROVE Regroups(A)
<1> SUFFICES ASSUME NEW s \in Seq(A), NEW x \in Seq(A), NEW y \in Seq(A)
             PROVE  s \o (x \o y) = (s \o x) \o y
  BY DEF Regroups
<1> QED OBVIOUS

\* FlatMap of two sequences, one behind the other.
LEMMA MapConcat ==
    ASSUME NEW A, NEW B, NEW f \in [A -> Seq(B)], NEW s \in Seq(A), NEW r \in Seq(A)
    PROVE  FlatMap(s \o r, f) = FlatMap(s, f) \o FlatMap(r, f)
<1> DEFINE Good == {u \in Seq(A) : FlatMap(s \o u, f) = FlatMap(s, f) \o FlatMap(u, f)}
<1>1. <<>> \in Good
  <2>1. s \o <<>> = s /\ <<>> \in Seq(A)
    OBVIOUS
  <2>2. FlatMap(s, f) \in Seq(B)
    BY MapType
  <2>3. FlatMap(s, f) \o <<>> = FlatMap(s, f)
    BY <2>2
  <2> QED BY <2>1, <2>3, MapNone
<1>2. ASSUME NEW u \in Seq(A), NEW a \in A, u \in Good PROVE Append(u, a) \in Good
  <2>1. Append(u, a) \in Seq(A) /\ s \o u \in Seq(A)
        /\ s \o Append(u, a) = Append(s \o u, a)
    OBVIOUS
  <2>2. FlatMap(s \o Append(u, a), f) = FlatMap(s \o u, f) \o f[a]
    BY <2>1, MapAppend
  <2>3. FlatMap(Append(u, a), f) = FlatMap(u, f) \o f[a]
    BY MapAppend
  <2>4. FlatMap(s, f) \in Seq(B) /\ FlatMap(u, f) \in Seq(B) /\ f[a] \in Seq(B)
    BY MapType
  <2>5. (FlatMap(s, f) \o FlatMap(u, f)) \o f[a] = FlatMap(s, f) \o (FlatMap(u, f) \o f[a])
    BY <2>4
  <2> QED BY <1>2, <2>1, <2>2, <2>3, <2>5
<1>3. r \in Good
  <2> HIDE DEF Good
  <2>1. \A u \in Seq(A) : u \in Good
    BY <1>1, <1>2, GrownSequences
  <2> QED BY <2>1
<1> QED BY <1>3

\* h does at once what f and then g do.
AtOnce(h, f, g, A, B, C) ==
    /\ f \in [A -> Seq(B)] /\ g \in [B -> Seq(C)] /\ h \in [A -> Seq(C)]
    /\ \A a \in A : h[a] = FlatMap(f[a], g)

\* Two of them, one after the other.
LEMMA MapTwice ==
    ASSUME NEW A, NEW B, NEW C, NEW f, NEW g, NEW h, AtOnce(h, f, g, A, B, C),
           NEW s \in Seq(A)
    PROVE  FlatMap(FlatMap(s, f), g) = FlatMap(s, h)
<1>1. f \in [A -> Seq(B)] /\ g \in [B -> Seq(C)] /\ h \in [A -> Seq(C)]
  BY DEF AtOnce
<1> DEFINE Good == {u \in Seq(A) : FlatMap(FlatMap(u, f), g) = FlatMap(u, h)}
<1>2. <<>> \in Good
  <2>1. <<>> \in Seq(A)
    OBVIOUS
  <2> QED BY <2>1, MapNone
<1>3. ASSUME NEW u \in Seq(A), NEW a \in A, u \in Good PROVE Append(u, a) \in Good
  <2>1. FlatMap(Append(u, a), f) = FlatMap(u, f) \o f[a]
    BY <1>1, MapAppend
  <2>2. FlatMap(u, f) \in Seq(B) /\ f[a] \in Seq(B)
    BY <1>1, MapType
  <2>3. FlatMap(FlatMap(u, f) \o f[a], g) = FlatMap(FlatMap(u, f), g) \o FlatMap(f[a], g)
    <3> DEFINE v == FlatMap(u, f)
               w == f[a]
    <3> HIDE DEF v, w
    <3>1. v \in Seq(B) /\ w \in Seq(B)
      BY <2>2 DEF v, w
    <3>2. FlatMap(v \o w, g) = FlatMap(v, g) \o FlatMap(w, g)
      BY <1>1, <3>1, MapConcat
    <3> QED BY <3>2 DEF v, w
  <2>4. FlatMap(Append(u, a), h) = FlatMap(u, h) \o h[a]
    BY <1>1, MapAppend
  <2>5. Append(u, a) \in Seq(A)
    OBVIOUS
  <2>6. h[a] = FlatMap(f[a], g)
    BY DEF AtOnce
  <2> QED BY <1>3, <2>1, <2>3, <2>4, <2>5, <2>6
<1>4. s \in Good
  <2> HIDE DEF Good
  <2>1. \A u \in Seq(A) : u \in Good
    BY <1>2, <1>3, GrownSequences
  <2> QED BY <2>1
<1> QED BY <1>4

\* What is in it.
LEMMA MapRange ==
    ASSUME NEW A, NEW B, NEW f \in [A -> Seq(B)], NEW s \in Seq(A)
    PROVE  Range(FlatMap(s, f)) = UNION {Range(f[a]) : a \in Range(s)}
<1> DEFINE Good == {u \in Seq(A) :
                       Range(FlatMap(u, f)) = UNION {Range(f[a]) : a \in Range(u)}}
<1>1. <<>> \in Good
  <2>1. <<>> \in Seq(A) /\ Range(<<>>) = {}
    BY DEF Range
  <2> QED BY <2>1, MapNone
<1>2. ASSUME NEW u \in Seq(A), NEW a \in A, u \in Good PROVE Append(u, a) \in Good
  <2>1. FlatMap(Append(u, a), f) = FlatMap(u, f) \o f[a]
    BY MapAppend
  <2>2. FlatMap(u, f) \in Seq(B) /\ f[a] \in Seq(B)
    BY MapType
  <2>3. Range(FlatMap(u, f) \o f[a]) = Range(FlatMap(u, f)) \cup Range(f[a])
    BY <2>2, RangeConcat
  <2>4. Append(u, a) \in Seq(A) /\ Range(Append(u, a)) = Range(u) \cup {a}
    BY RangeAppend
  <2>5. UNION {Range(f[b]) : b \in Range(u) \cup {a}}
            = (UNION {Range(f[b]) : b \in Range(u)}) \cup Range(f[a])
    OBVIOUS
  <2> QED BY <1>2, <2>1, <2>3, <2>4, <2>5
<1>3. s \in Good
  <2> HIDE DEF Good
  <2>1. \A u \in Seq(A) : u \in Good
    BY <1>1, <1>2, GrownSequences
  <2> QED BY <2>1
<1> QED BY <1>3

-----------------------------------------------------------------------------
(* Level by level.  calls has the files that each file LISTENs to, m is    *)
(* the main file, and read what was read, file after file, in the end.     *)

\* The first n levels.
LevelsAre(g, calls, m, n) ==
    g = [k \in 0 .. n |-> IF k = 0 THEN <<m>> ELSE FlatMap(g[k - 1], calls)]

\* They have a solution.
LEMMA LevelsExist ==
    ASSUME NEW A, NEW calls \in [A -> Seq(A)], NEW m \in A, NEW n \in Nat
    PROVE  \E g \in [0 .. n -> Seq(A)] : LevelsAre(g, calls, m, n)
<1> DEFINE Good == {k \in Nat : \E g \in [0 .. k -> Seq(A)] : LevelsAre(g, calls, m, k)}
<1>1. ASSUME NEW k \in Nat, \A l \in Nat : l < k => l \in Good PROVE k \in Good
  <2>1. CASE k = 0
    <3>1. <<m>> \in Seq(A) /\ \A i \in 0 .. 0 : i = 0
      OBVIOUS
    <3>2. [i \in 0 .. 0 |-> <<m>>] \in [0 .. 0 -> Seq(A)]
      BY <3>1
    <3>3. LevelsAre([i \in 0 .. 0 |-> <<m>>], calls, m, 0)
      BY <3>1 DEF LevelsAre
    <3> QED BY <2>1, <3>2, <3>3
  <2>2. CASE k # 0
    <3>1. k - 1 \in Nat /\ k - 1 < k
      BY <2>2
    <3>2. PICK f \in [0 .. k - 1 -> Seq(A)] : LevelsAre(f, calls, m, k - 1)
      BY <1>1, <3>1
    <3> DEFINE g == [i \in 0 .. k |-> IF i = 0 THEN <<m>> ELSE FlatMap(f[i - 1], calls)]
    <3>3. \A i \in 0 .. k : i # 0 => i - 1 \in 0 .. k - 1
      OBVIOUS
    <3>4. g \in [0 .. k -> Seq(A)]
      <4> SUFFICES ASSUME NEW i \in 0 .. k
                   PROVE  (IF i = 0 THEN <<m>> ELSE FlatMap(f[i - 1], calls)) \in Seq(A)
        OBVIOUS
      <4>1. <<m>> \in Seq(A)
        OBVIOUS
      <4>2. i # 0 => f[i - 1] \in Seq(A)
        BY <3>3
      <4>3. i # 0 => FlatMap(f[i - 1], calls) \in Seq(A)
        BY <4>2, MapType
      <4> QED BY <4>1, <4>3
    <3>5. \A i \in 0 .. k - 1 : g[i] = f[i]
      <4>1. \A i \in 0 .. k - 1 :
                f[i] = IF i = 0 THEN <<m>> ELSE FlatMap(f[i - 1], calls)
        BY <3>2 DEF LevelsAre
      <4>2. \A i \in 0 .. k - 1 : i \in 0 .. k
        BY <3>1
      <4> QED BY <4>1, <4>2
    <3>6. \A i \in 0 .. k : i # 0 => g[i - 1] = f[i - 1]
      BY <3>3, <3>5
    <3>7. g = [i \in 0 .. k |-> IF i = 0 THEN <<m>> ELSE FlatMap(f[i - 1], calls)]
      OBVIOUS
    <3> HIDE DEF g
    <3>8. LevelsAre(g, calls, m, k)
      BY <3>6, <3>7 DEF LevelsAre
    <3> QED BY <3>4, <3>8
  <2> QED BY <2>1, <2>2
<1>2. n \in Good
  <2>1. \A k \in Nat : k \in Good
    <3> HIDE DEF Good
    <3> QED BY <1>1, StrongInduction
  <2> QED BY <2>1
<1> QED BY <1>2

\* A file was LISTENed to before it was read.
HeardBefore(read, calls) ==
    \A u, e \in Seq(DOMAIN calls) :
        read = u \o e /\ e # <<>> => Len(u) <= Len(FlatMap(u, calls))

\* The files LISTENed to in u are those behind the main file in u and, then, l.
Level(u, l, calls, m) == <<m>> \o FlatMap(u, calls) = u \o l

Split(read, u, e) == read = u \o e

\* What was read is the main file and the files that were LISTENed to.
AllHeard(read, calls, m) == read = <<m>> \o FlatMap(read, calls)

\* A level is read whole before the next one begins.
LEMMA NextLevel ==
    ASSUME NEW A, NEW calls, calls \in [A -> Seq(A)], NEW m \in A,
           NEW u \in Seq(A), NEW l \in Seq(A), NEW e \in Seq(A), NEW read,
           Split(read, u, e), Level(u, l, calls, m), AllHeard(read, calls, m)
    PROVE  /\ Level(u \o l, FlatMap(l, calls), calls, m)
           /\ Split(read, u \o l, FlatMap(e, calls))
<1> DEFINE a == FlatMap(u, calls)
           b == FlatMap(l, calls)
           c == FlatMap(e, calls)
<1>1. a \in Seq(A) /\ b \in Seq(A) /\ c \in Seq(A) /\ <<m>> \in Seq(A)
  <2>1. a \in Seq(A) /\ b \in Seq(A) /\ c \in Seq(A)
    BY MapType
  <2>2. <<m>> \in Seq(A)
    OBVIOUS
  <2> QED BY <2>1, <2>2
<1>2. FlatMap(u \o l, calls) = a \o b /\ FlatMap(u \o e, calls) = a \o c
  BY MapConcat
<1>3. <<m>> \o a = u \o l
  BY DEF Level
<1> HIDE DEF a, b, c
<1>4. <<m>> \o (a \o b) = (<<m>> \o a) \o b /\ <<m>> \o (a \o c) = (<<m>> \o a) \o c
  <2>1. Regroups(A)
    BY ONLY ConcatRegroups
  <2> DEFINE s == <<m>>
  <2>2. s \in Seq(A)
    BY <1>1
  <2> HIDE DEF s
  <2>3. s \o (a \o b) = (s \o a) \o b
    <3>1. s \in Seq(A) /\ a \in Seq(A) /\ b \in Seq(A)
      BY <1>1, <2>2
    <3> QED BY ONLY <2>1, <3>1 DEF Regroups
  <2>4. s \o (a \o c) = (s \o a) \o c
    <3>1. s \in Seq(A) /\ a \in Seq(A) /\ c \in Seq(A)
      BY <1>1, <2>2
    <3> QED BY ONLY <2>1, <3>1 DEF Regroups
  <2> QED BY <2>3, <2>4 DEF s
<1>5. read = <<m>> \o FlatMap(u \o e, calls)
  BY DEF AllHeard, Split
<1> QED BY <1>2, <1>3, <1>4, <1>5 DEF Level, Split, b, c

\* While there is something left, the next level is not empty.
LEMMA LevelLeft ==
    ASSUME NEW A, NEW calls, calls \in [A -> Seq(A)], NEW m \in A,
           NEW u \in Seq(A), NEW l \in Seq(A), NEW e \in Seq(A),
           HeardBefore(u \o e, calls), Level(u, l, calls, m), e # <<>>
    PROVE  l # <<>>
<1> DEFINE a == FlatMap(u, calls)
<1>1. a \in Seq(A) /\ <<m>> \in Seq(A)
  <2>1. a \in Seq(A)
    BY MapType
  <2>2. <<m>> \in Seq(A)
    OBVIOUS
  <2> QED BY <2>1, <2>2
<1>2. Len(u) <= Len(a)
  BY DEF HeardBefore
<1>3. <<m>> \o a = u \o l
  BY DEF Level
<1> HIDE DEF a
<1>4. Len(<<m>> \o a) = 1 + Len(a) /\ Len(u \o l) = Len(u) + Len(l)
  BY <1>1
<1>5. Len(u) \in Nat /\ Len(a) \in Nat /\ Len(l) \in Nat
  BY <1>1
<1>6. Len(l) # 0
  BY <1>2, <1>3, <1>4, <1>5
<1> QED BY <1>6

Kids(calls, files) == UNION {Range(calls[a]) : a \in files}

\* What the files of a level and behind it LISTEN to is behind it; if that is all of it
\* there is nothing, since the levels would go on for ever.
LEMMA NoEndlessLevels ==
    ASSUME NEW A, NEW calls, calls \in [A -> Seq(A)], NEW m \in A, NEW read \in Seq(A),
           AllHeard(read, calls, m), HeardBefore(read, calls)
    PROVE  \A u, l, e \in Seq(A) :
              read = u \o e /\ Level(u, l, calls, m) /\ Range(e) = Kids(calls, Range(e))
                  => e = <<>>
<1> DEFINE Ends(u, l, e) ==
              read = u \o e /\ Level(u, l, calls, m) /\ Range(e) = Kids(calls, Range(e))
                  => e = <<>>
           Good == {n \in Nat : \A u, l, e \in Seq(A) : Len(e) = n => Ends(u, l, e)}
<1>1. ASSUME NEW n \in Nat, \A k \in Nat : k < n => k \in Good PROVE n \in Good
  <2> SUFFICES ASSUME NEW u \in Seq(A), NEW l \in Seq(A), NEW e \in Seq(A), Len(e) = n,
                      read = u \o e, Level(u, l, calls, m),
                      Range(e) = Kids(calls, Range(e)), e # <<>>
               PROVE  FALSE
    OBVIOUS
  <2> DEFINE f == FlatMap(e, calls)
             k == FlatMap(l, calls)
  <2>1. f \in Seq(A) /\ k \in Seq(A)
    BY MapType
  <2>2. Range(f) = Kids(calls, Range(e))
    BY MapRange DEF Kids
  <2>3. Level(u \o l, k, calls, m) /\ Split(read, u \o l, f)
    <3>1. /\ u \in Seq(A) /\ l \in Seq(A) /\ e \in Seq(A) /\ m \in A
          /\ calls \in [A -> Seq(A)] /\ Level(u, l, calls, m)
          /\ Split(read, u, e) /\ AllHeard(read, calls, m)
      BY DEF Split
    <3> QED BY ONLY <3>1, NextLevel
  <2>4. l # <<>>
    BY LevelLeft
  <2> HIDE DEF f, k
  <2>5. read = (u \o l) \o f
    BY <2>3 DEF Split
  <2>6. Len(f) \in Nat /\ Len(f) < n
    <3>1. Len(u \o e) = Len(u) + Len(e)
      <4>1. u \in Seq(A) /\ e \in Seq(A)
        OBVIOUS
      <4> QED BY ONLY <4>1
    <3>2. Len((u \o l) \o f) = Len(u) + Len(l) + Len(f)
      BY <2>1
    <3>3. Len(u) \in Nat /\ Len(l) \in Nat /\ Len(f) \in Nat /\ Len(l) # 0
      BY <2>1, <2>4
    <3>4. Len(u) + Len(e) = Len(u) + Len(l) + Len(f)
      BY <2>5, <3>1, <3>2
    <3> QED BY <3>3, <3>4
  <2>7. Len(f) \in Good
    BY <1>1, <2>6
  <2>8. u \o l \in Seq(A)
    OBVIOUS
  <2>9. Ends(u \o l, k, f)
    BY <2>1, <2>7, <2>8
  <2>10. f = <<>>
    BY <2>2, <2>3, <2>5, <2>9
  <2>11. Range(f) = {}
    BY <2>1, <2>10, RangeOf
  <2>12. Range(e) # {}
    BY RangeOf
  <2> QED BY <2>2, <2>11, <2>12
<1>2. \A n \in Nat : n \in Good
  <2> HIDE DEF Good
  <2> QED BY <1>1, StrongInduction
<1>3. \A e \in Seq(A) : Len(e) \in Good
  <2> HIDE DEF Good
  <2> QED BY <1>2
<1> QED BY <1>3

\* What was read is the levels, one behind the other, and there are no more of them than
\* files.
LEMMA ReadInLevels ==
    ASSUME NEW A, IsFiniteSet(A), NEW calls, calls \in [A -> Seq(A)], NEW m \in A,
           NEW read \in Seq(A),
           AllHeard(read, calls, m), HeardBefore(read, calls),
           NEW g \in [0 .. Cardinality(A) -> Seq(A)],
           LevelsAre(g, calls, m, Cardinality(A))
    PROVE  read = FlattenSeq([n \in 1 .. Cardinality(A) |-> g[n - 1]])
<1> DEFINE N == Cardinality(A)
           upper(k) == FlattenSeq([n \in 1 .. k |-> g[n - 1]])
           Left(k, e) ==
              /\ read = upper(k) \o e
              /\ Level(upper(k), g[k], calls, m)
              /\ Kids(calls, Range(e)) \subseteq Range(e)
              /\ Cardinality(Range(e)) <= N - k
           Good == {k \in Nat : k <= N => upper(k) \in Seq(A) /\ \E e \in Seq(A) : Left(k, e)}
<1>1. N \in Nat
  BY FS_CardinalityType
<1>2. \A k \in 0 .. N : g[k] = IF k = 0 THEN <<m>> ELSE FlatMap(g[k - 1], calls)
  BY DEF LevelsAre
<1> HIDE DEF N
<1>3. ASSUME NEW k \in Nat, \A l \in Nat : l < k => l \in Good PROVE k \in Good
  <2> SUFFICES ASSUME k <= N
               PROVE  upper(k) \in Seq(A) /\ \E e \in Seq(A) : Left(k, e)
    OBVIOUS
  <2>1. CASE k = 0
    <3>1. [n \in 1 .. 0 |-> g[n - 1]] = <<>>
      OBVIOUS
    <3>2. upper(0) = <<>>
      BY <3>1, FlattenNone
    <3>3. <<>> \in Seq(A) /\ <<>> \o read = read /\ <<m>> \o <<>> = <<>> \o <<m>>
      OBVIOUS
    <3>4. g[0] = <<m>>
      BY <1>1, <1>2
    <3>5. Level(<<>>, <<m>>, calls, m)
      BY <3>3, MapNone DEF Level
    <3>6. Kids(calls, Range(read)) \subseteq Range(read)
      <4>1. Range(FlatMap(read, calls)) = Kids(calls, Range(read))
        BY MapRange DEF Kids
      <4>2. FlatMap(read, calls) \in Seq(A) /\ <<m>> \in Seq(A)
        <5>1. <<m>> \in Seq(A)
          OBVIOUS
        <5> QED BY <5>1, MapType
      <4>3. Range(<<m>> \o FlatMap(read, calls)) =
                Range(<<m>>) \cup Range(FlatMap(read, calls))
        BY <4>2, RangeConcat
      <4>4. read = <<m>> \o FlatMap(read, calls)
        BY DEF AllHeard
      <4> QED BY <4>1, <4>3, <4>4
    <3>7. Cardinality(Range(read)) <= N - 0
      <4>1. Range(read) \subseteq A
        BY RangeOf
      <4>2. Cardinality(Range(read)) <= N
        BY <4>1, FS_Subset DEF N
      <4>3. N - 0 = N
        BY <1>1
      <4> QED BY <4>2, <4>3
    <3>8. Left(0, read)
      BY <3>2, <3>3, <3>4, <3>5, <3>6, <3>7
    <3> HIDE DEF upper, Left
    <3> QED BY <2>1, <3>2, <3>3, <3>8
  <2>2. CASE k # 0
    <3>1. k - 1 \in Nat /\ k - 1 < k /\ k - 1 <= N
      BY <1>1, <2>2
    <3>2. k - 1 \in Good
      BY <1>3, <3>1
    <3>3. upper(k - 1) \in Seq(A)
      BY <3>1, <3>2
    <3>4. PICK e \in Seq(A) : Left(k - 1, e)
      BY <3>1, <3>2
    <3> DEFINE f == FlatMap(e, calls)
               l == g[k - 1]
    <3>5. l \in Seq(A) /\ g[k] = FlatMap(l, calls)
      <4>1. k - 1 \in 0 .. N /\ k \in 0 .. N
        BY <1>1, <3>1
      <4>2. g[k - 1] \in Seq(A)
        BY <4>1 DEF N
      <4> QED BY <1>2, <2>2, <4>1, <4>2
    <3>6. upper(k) = upper(k - 1) \o l
      <4> DEFINE before == [n \in 1 .. k - 1 |-> g[n - 1]]
                 all    == [n \in 1 .. k |-> g[n - 1]]
      <4>1. \A n \in 1 .. k - 1 : g[n - 1] \in Seq(A)
        <5>1. \A n \in 1 .. k - 1 : n - 1 \in 0 .. N
          BY <1>1, <3>1
        <5> QED BY <5>1 DEF N
      <4>2. before \in Seq(Seq(A)) /\ Len(before) = k - 1
        BY <3>1, <4>1
      <4>3. /\ \A n \in 1 .. k - 1 : before[n] = all[n]
            /\ all[k] = l
            /\ all = [n \in 1 .. k |-> all[n]]
        BY <3>1
      <4> HIDE DEF before, all, l
      <4>4. Append(before, l) \in Seq(Seq(A)) /\ Len(Append(before, l)) = k
        BY <3>1, <3>5, <4>2
      <4>5. Append(before, l) = all
        <5>1. ASSUME NEW s \in Seq(Seq(A)), Len(s) = k, \A n \in 1 .. k : s[n] = all[n]
              PROVE  s = all
          BY <4>3, <5>1
        <5>2. /\ \A n \in 1 .. Len(before) : Append(before, l)[n] = before[n]
              /\ Append(before, l)[Len(before) + 1] = l
          BY <3>5, <4>2
        <5>3. \A n \in 1 .. k : n \in 1 .. Len(before) \/ n = k
          BY <3>1, <4>2
        <5>4. Len(before) + 1 = k
          BY <4>2
        <5>5. \A n \in 1 .. k : Append(before, l)[n] = all[n]
          BY <4>2, <4>3, <5>2, <5>3, <5>4
        <5> QED BY <4>4, <5>1, <5>5
      <4>6. FlattenSeq(Append(before, l)) = FlattenSeq(before) \o l
        BY <3>5, <4>2, FlattenAppend
      <4> QED BY <4>5, <4>6 DEF before, all
    <3>7. upper(k) \in Seq(A)
      <4> HIDE DEF upper, l
      <4> QED BY <3>3, <3>5, <3>6
    <3> DEFINE u == upper(k - 1)
    <3>8. u \in Seq(A) /\ Level(u, l, calls, m) /\ read = u \o e
          /\ Kids(calls, Range(e)) \subseteq Range(e) /\ Cardinality(Range(e)) <= N - (k - 1)
      BY <3>3, <3>4
    <3>9. upper(k) = u \o l
      BY <3>6
    <3> HIDE DEF upper, Left, Good, u, l
    <3>10. Level(u \o l, FlatMap(l, calls), calls, m) /\ Split(read, u \o l, f)
      <4>1. /\ u \in Seq(A) /\ l \in Seq(A) /\ e \in Seq(A) /\ m \in A
            /\ calls \in [A -> Seq(A)] /\ Level(u, l, calls, m)
            /\ Split(read, u, e) /\ AllHeard(read, calls, m)
        BY <3>5, <3>8 DEF Split
      <4> QED BY ONLY <4>1, NextLevel
    <3>11. f \in Seq(A) /\ Range(f) = Kids(calls, Range(e))
      BY MapType, MapRange DEF Kids
    <3> HIDE DEF f
    <3>12. read = upper(k) \o f /\ Level(upper(k), g[k], calls, m)
      BY <3>5, <3>9, <3>10 DEF Split
    <3>13. Kids(calls, Range(f)) \subseteq Range(f)
      <4>1. Range(f) \subseteq Range(e)
        BY <3>8, <3>11
      <4>2. Kids(calls, Range(f)) \subseteq Kids(calls, Range(e))
        BY <4>1 DEF Kids
      <4> QED BY <3>11, <4>2
    <3>14. Cardinality(Range(f)) <= N - k
      <4>1. Range(f) \subseteq Range(e) /\ Range(e) \subseteq A
        BY <3>8, <3>11, RangeOf
      <4>2. IsFiniteSet(Range(e))
        BY <4>1, FS_Subset
      <4>3. IsFiniteSet(Range(f)) /\ Cardinality(Range(f)) <= Cardinality(Range(e))
            /\ (Cardinality(Range(e)) = Cardinality(Range(f)) => Range(e) = Range(f))
        BY <4>1, <4>2, FS_Subset
      <4>4. Cardinality(Range(e)) \in Nat /\ Cardinality(Range(f)) \in Nat
        BY <4>2, <4>3, FS_CardinalityType
      <4>5. CASE Range(e) = Range(f)
        <5>1. e = <<>>
          BY <3>5, <3>8, <3>11, <4>5, NoEndlessLevels
        <5>2. Range(e) = {}
          BY <5>1, RangeOf
        <5>3. Cardinality(Range(f)) = 0
          BY <4>5, <5>2, FS_EmptySet
        <5> QED BY <1>1, <5>3
      <4>6. CASE Range(e) # Range(f)
        <5>1. Cardinality(Range(f)) < Cardinality(Range(e))
          BY <4>3, <4>4, <4>6
        <5> QED BY <1>1, <3>8, <4>4, <5>1
      <4> QED BY <4>5, <4>6
    <3>15. Left(k, f)
      BY <3>12, <3>13, <3>14 DEF Left
    <3> QED BY <3>7, <3>11, <3>15
  <2> QED BY <2>1, <2>2
<1>4. N \in Good
  <2>1. \A k \in Nat : k \in Good
    <3> HIDE DEF Good
    <3> QED BY <1>3, StrongInduction
  <2> HIDE DEF Good
  <2> QED BY <1>1, <2>1
<1>5. PICK e \in Seq(A) : Left(N, e)
  <2> HIDE DEF Left, upper
  <2>1. N <= N
    BY <1>1
  <2> QED BY <1>4, <2>1
<1>6. upper(N) \in Seq(A)
  <2> HIDE DEF Left, upper
  <2>1. N <= N
    BY <1>1
  <2> QED BY <1>4, <2>1
<1>7. e = <<>>
  <2>1. Range(e) \subseteq A /\ (e = <<>> <=> Range(e) = {})
    BY RangeOf
  <2>2. IsFiniteSet(Range(e))
    BY <2>1, FS_Subset
  <2>3. Cardinality(Range(e)) \in Nat /\ Cardinality(Range(e)) <= N - N
    BY <1>5, <2>2, FS_CardinalityType
  <2>4. Cardinality(Range(e)) = 0
    BY <1>1, <2>3
  <2>5. Range(e) = {}
    BY <2>2, <2>4, FS_EmptySet
  <2> QED BY <2>1, <2>5
<1>8. read = upper(N)
  <2>1. read = upper(N) \o e
    BY <1>5
  <2> HIDE DEF upper
  <2> QED BY <1>6, <1>7, <2>1
<1> QED BY <1>8 DEF N

-----------------------------------------------------------------------------
(* What is read, and in which order.                                       *)

\* The query files p as functions: the files of p a statement LISTENs to, those a file
\* LISTENs to, the file under a name, and the statements that can be parsed.
HeardIn(p) ==
    [t \in Text |-> IF DebugMatches(t) /\ t[1] = "LISTEN" /\ t[3] \in DOMAIN p
                    THEN <<t[3]>> ELSE <<>>]

CallsIn(p) == [f \in DOMAIN p |-> FlatMap(p[f], HeardIn(p))]

OpenedIn(p) == [n \in Name |-> IF n \in DOMAIN p THEN <<n>> ELSE <<>>]

KnownOf == [t \in Text |-> IF Parses(t) THEN <<t>> ELSE <<>>]

LEMMA FilesTypes ==
    ASSUME NEW p \in Programs
    PROVE  /\ Main \in DOMAIN p /\ DOMAIN p \subseteq STRING /\ IsFiniteSet(DOMAIN p)
           /\ p \in [DOMAIN p -> Seq(Text)]
           /\ HeardIn(p) \in [Text -> Seq(DOMAIN p)]
           /\ CallsIn(p) \in [DOMAIN p -> Seq(DOMAIN p)]
           /\ OpenedIn(p) \in [Name -> Seq(DOMAIN p)]
           /\ KnownOf \in [Text -> Seq(Text)]
<1>1. /\ Main \in DOMAIN p /\ DOMAIN p \subseteq STRING /\ IsFiniteSet(DOMAIN p)
      /\ p \in [DOMAIN p -> Seq(Text)]
  BY ExecutorAssumption
<1>2. \A S : <<>> \in Seq(S) /\ \A x \in S : <<x>> \in Seq(S)
  OBVIOUS
<1>3. HeardIn(p) \in [Text -> Seq(DOMAIN p)]
  BY <1>2 DEF HeardIn
<1>4. CallsIn(p) \in [DOMAIN p -> Seq(DOMAIN p)]
  <2>1. ASSUME NEW f \in DOMAIN p PROVE FlatMap(p[f], HeardIn(p)) \in Seq(DOMAIN p)
    <3>1. p[f] \in Seq(Text)
      BY <1>1
    <3> QED BY <1>3, <3>1, MapType
  <2> QED BY <2>1 DEF CallsIn
<1>5. OpenedIn(p) \in [Name -> Seq(DOMAIN p)]
  BY <1>2 DEF OpenedIn
<1>6. KnownOf \in [Text -> Seq(Text)]
  BY <1>2 DEF KnownOf
<1> QED BY <1>1, <1>3, <1>4, <1>5, <1>6

\* What parseQuery makes of a statement: whether it can be parsed, and where it LISTENs.
LEMMA QueryRead ==
    ASSUME NEW t \in Text, parseQuery(t), CacheTyped
    PROVE  LET o == parsed'.outcome
           IN  /\ o.status = "Made" =>
                     /\ Parses(t)
                     /\ o.query.type = "Listen" <=> DebugMatches(t) /\ t[1] = "LISTEN"
                     /\ o.query.type = "Listen" => o.query.file = t[3] /\ t[3] \in Name
               /\ o.status = "Failed" => ~Parses(t) /\ ~DebugMatches(t)
<1> DEFINE o == parsed'.outcome
           Told == /\ o.status = "Made" =>
                        /\ Parses(t)
                        /\ o.query.type = "Listen" <=> DebugMatches(t) /\ t[1] = "LISTEN"
                        /\ o.query.type = "Listen" => o.query.file = t[3] /\ t[3] \in Name
                   /\ o.status = "Failed" => ~Parses(t) /\ ~DebugMatches(t)
<1>1. t \in Seq(STRING) /\ Len(t) \in Nat /\ \A k \in 1 .. Len(t) : t[k] \in Name
  BY TokenIsName DEF Text
<1>2. ASSUME t = <<>> PROVE Told
  <2>1. ~DebugMatches(t) /\ ~ManageTableMatches(t)
    BY <1>2 DEF DebugMatches, ManageTableMatches
  <2>2. o = Failed
    BY <1>2, <2>1 DEF parseQuery
  <2> HIDE DEF o
  <2> QED BY <1>2, <2>1, <2>2 DEF Failed, Parses
<1>3. ASSUME DebugMatches(t) PROVE Told
  <2>1. t # <<>> /\ ~ManageTableMatches(t)
    BY <1>1, <1>3 DEF DebugMatches, ManageTableMatches
  <2>2. o = Debug(t)
    BY <1>3, <2>1 DEF parseQuery
  <2>3. Parses(t)
    BY <1>3, <2>1 DEF Parses
  <2> HIDE DEF o
  <2>4. CASE t[1] = "LISTEN"
    <3>1. o = Made([Bare("Listen") EXCEPT !.file = t[3]])
      BY <2>2, <2>4 DEF Debug
    <3>2. o.status = "Made" /\ o.query.type = "Listen" /\ o.query.file = t[3]
      BY <3>1 DEF Made, Bare
    <3>3. Len(t) = 4
      BY <1>3, <2>4 DEF DebugMatches
    <3>4. t[3] \in Name
      BY <1>1, <3>3
    <3> QED BY <1>3, <2>3, <2>4, <3>2, <3>4
  <2>5. CASE t[1] # "LISTEN"
    <3>1. t[1] \in {"LIST", "QUIT", "SHOWTABLE"}
      BY <1>3, <2>5 DEF DebugMatches
    <3>2. o \in {Made(Bare("List")), Made(Bare("Quit")), Made(Of("PrintTable", t[2]))}
      BY <2>2, <3>1 DEF Debug
    <3>3. o.status = "Made" /\ o.query.type # "Listen"
      <4>1. /\ Bare("List").type = "List" /\ Bare("Quit").type = "Quit"
            /\ Bare("PrintTable").type = "PrintTable"
        BY DEF Bare
      <4>2. Of("PrintTable", t[2]).type = "PrintTable"
        BY DEF Of, Bare
      <4>3. \A q : Made(q).status = "Made" /\ Made(q).query = q
        BY DEF Made
      <4> QED BY <3>2, <4>1, <4>2, <4>3
    <3> QED BY <2>3, <2>5, <3>3
  <2> QED BY <2>4, <2>5
<1>4. ASSUME ManageTableMatches(t) PROVE Told
  <2>1. t # <<>> /\ ~DebugMatches(t)
    BY <1>1, <1>4 DEF DebugMatches, ManageTableMatches
  <2>2. o = ManageTable(t)
    BY <1>4, <2>1 DEF parseQuery
  <2>3. PICK q \in Query : ManageTable(t) = Made(q) /\ t \in Spellings(q) /\ ManageIs(q, t)
    BY <1>4, ManageMade
  <2> HIDE DEF o
  <2>4. o.status = "Made" /\ o.query = q
    BY <2>2, <2>3 DEF Made
  <2>5. q.type # "Listen"
    BY <2>3 DEF ManageIs
  <2>6. Parses(t)
    BY <1>4, <2>1 DEF Parses
  <2> QED BY <2>1, <2>4, <2>5, <2>6
<1>5. ASSUME t # <<>> /\ ~DebugMatches(t) /\ ~ManageTableMatches(t) PROVE Told
  <2>1. o = Complex(t, parseToken(Cleared, t))
    BY <1>5 DEF parseQuery, AtStart
  <2>2. Parses(t) <=> o.status = "Made"
    BY <1>5, <2>1 DEF Parses
  <2>3. ASSUME o.status = "Made" PROVE o.query.type # "Listen"
    <3> HIDE DEF o
    <3>1. PICK q \in Query : /\ o = Made(q) /\ t \in Spellings(q)
                             /\ \E w \in DOMAIN ComplexTypes : q.type = ComplexTypes[w]
      BY <1>5, <2>1, <2>3, ComplexMade
    <3>2. o.query = q
      BY <3>1 DEF Made
    <3>3. q.type # "Listen"
      BY <3>1 DEF ComplexTypes
    <3> QED BY <3>2, <3>3
  <2> HIDE DEF o
  <2> QED BY <1>5, <2>2, <2>3
<1>6. Told
  BY <1>2, <1>3, <1>4, <1>5
<1> QED BY <1>6

\* The statements ts spell the queries qs.
SpellAll(ts, qs) == Len(qs) = Len(ts) /\ \A k \in 1 .. Len(qs) : ts[k] \in Spellings(qs[k])

\* The files opened up to now, one after the other, and their statements read up to now.
ReadUpTo(files, texts) ==
    /\ FlatMap(files, source) = texts \o input
    /\ <<Main>> \o FlatMap(texts, HeardIn(source)) =
          files \o FlatMap(fileQueue \o listenFiles, OpenedIn(source))
    /\ HeardBefore(files, CallsIn(source))
    /\ SpellAll(FlatMap(texts, KnownOf), allQueries)

ReadingSoFar ==
    /\ source \in Programs
    /\ phase = "collect" => listenFiles = <<>>
    /\ phase = "next" => input = <<>> /\ listenFiles = <<>>
    /\ phase \in {"collect", "process", "next"} =>
          \E files \in Seq(DOMAIN source), texts \in Seq(Text) : ReadUpTo(files, texts)

\* The head and the tail of a sequence.
LEMMA OneInFront ==
    ASSUME NEW S, NEW s \in Seq(S), s # <<>>
    PROVE  /\ s = <<Head(s)>> \o Tail(s) /\ Head(s) \in S /\ Tail(s) \in Seq(S)
           /\ \A r \in Seq(S) : r \o s = Append(r, Head(s)) \o Tail(s)
<1>1. /\ Head(s) \in S /\ Tail(s) \in Seq(S) /\ s = <<Head(s)>> \o Tail(s)
  OBVIOUS
<1>2. ASSUME NEW r \in Seq(S) PROVE r \o s = Append(r, Head(s)) \o Tail(s)
  OBVIOUS
<1> QED BY <1>1, <1>2

LEMMA LastTaken ==
    ASSUME NEW A, NEW r \in Seq(A), NEW w \in Seq(A), NEW y \in A, NEW z \in A,
           Append(r, y) = Append(w, z)
    PROVE  r = w
<1>1. Len(Append(r, y)) = Len(r) + 1 /\ Len(Append(w, z)) = Len(w) + 1
  OBVIOUS
<1>2. Len(r) = Len(w)
  BY <1>1
<1>3. \A i \in 1 .. Len(r) : Append(r, y)[i] = r[i]
  OBVIOUS
<1>4. \A i \in 1 .. Len(w) : Append(w, z)[i] = w[i]
  OBVIOUS
<1>5. \A i \in 1 .. Len(r) : r[i] = w[i]
  BY <1>2, <1>3, <1>4
<1> QED BY <1>2, <1>5

\* A file that was LISTENed to before is read.
LEMMA HeardThenRead ==
    ASSUME NEW A, NEW calls, calls \in [A -> Seq(A)], NEW read \in Seq(A), NEW h \in A,
           HeardBefore(read, calls), Len(read) <= Len(FlatMap(read, calls))
    PROVE  HeardBefore(Append(read, h), calls)
<1>1. DOMAIN calls = A
  OBVIOUS
<1>2. SUFFICES ASSUME NEW u \in Seq(A), NEW e \in Seq(A),
                      Append(read, h) = u \o e, e # <<>>
               PROVE  Len(u) <= Len(FlatMap(u, calls))
  BY <1>1 DEF HeardBefore
<1>3. PICK v \in Seq(A), x \in A : e = Append(v, x)
  <2> DEFINE v == SubSeq(e, 1, Len(e) - 1)
  <2>1. v \in Seq(A) /\ e[Len(e)] \in A /\ e = Append(v, e[Len(e)])
    BY <1>2
  <2> QED BY <2>1
<1>4. read = u \o v
  <2>1. Append(read, h) = Append(u \o v, x)
    <3>1. u \in Seq(A) /\ v \in Seq(A) /\ x \in A
      BY <1>2, <1>3
    <3>2. u \o Append(v, x) = Append(u \o v, x)
      BY ONLY <3>1
    <3> QED BY <1>2, <1>3, <3>2
  <2>2. u \o v \in Seq(A)
    OBVIOUS
  <2> QED BY ONLY <2>1, <2>2, read \in Seq(A), h \in A, x \in A, LastTaken
<1>5. CASE v = <<>>
  <2>1. read = u
    BY <1>4, <1>5
  <2> QED BY <2>1
<1>6. CASE v # <<>>
  BY <1>1, <1>4, <1>6 DEF HeardBefore
<1> QED BY <1>5, <1>6

\* Nothing but the main file is open at first.
LEMMA InitReading ==
    ASSUME ExecutorInit
    PROVE  ReadingSoFar
<1>1. /\ source \in Programs /\ phase = "collect" /\ input = source[Main]
      /\ fileQueue = <<>> /\ listenFiles = <<>> /\ allQueries = <<>>
  BY DEF ExecutorInit
<1> DEFINE A == DOMAIN source
<1>2. /\ Main \in A /\ source \in [A -> Seq(Text)]
      /\ HeardIn(source) \in [Text -> Seq(A)] /\ CallsIn(source) \in [A -> Seq(A)]
  BY <1>1, FilesTypes
<1>3. FlatMap(<<Main>>, source) = <<>> \o input
  <2>1. FlatMap(<<Main>>, source) = source[Main]
    BY <1>2, MapOne
  <2>2. source[Main] \in Seq(Text)
    BY <1>2
  <2> QED BY <1>1, <2>1, <2>2
<1>4. <<Main>> \o FlatMap(<<>>, HeardIn(source)) =
          <<Main>> \o FlatMap(fileQueue \o listenFiles, OpenedIn(source))
  <2>1. fileQueue \o listenFiles = <<>>
    BY <1>1
  <2> QED BY <2>1, MapNone
<1>5. HeardBefore(<<Main>>, CallsIn(source))
  <2>1. SUFFICES ASSUME NEW u \in Seq(A), NEW e \in Seq(A), <<Main>> = u \o e, e # <<>>
                 PROVE  Len(u) <= Len(FlatMap(u, CallsIn(source)))
    BY DEF HeardBefore, CallsIn
  <2>2. Len(u \o e) = Len(u) + Len(e) /\ Len(u) \in Nat /\ Len(e) \in Nat
    OBVIOUS
  <2>3. Len(<<Main>>) = 1 /\ Len(e) # 0
    BY <2>1
  <2>4. Len(u) = 0
    BY <2>1, <2>2, <2>3
  <2>5. u = <<>>
    BY <2>4
  <2> QED BY <2>5, MapNone
<1>6. SpellAll(FlatMap(<<>>, KnownOf), allQueries)
  BY <1>1, MapNone DEF SpellAll
<1>7. ReadUpTo(<<Main>>, <<>>)
  BY <1>3, <1>4, <1>5, <1>6 DEF ReadUpTo
<1>8. <<Main>> \in Seq(A) /\ <<>> \in Seq(Text)
  BY <1>2
<1> HIDE DEF A
<1>9. \E files \in Seq(A), texts \in Seq(Text) : ReadUpTo(files, texts)
  BY <1>7, <1>8
<1> QED BY <1>1, <1>9 DEF ReadingSoFar, A

\* A statement read goes from the input to the statements read, its file to the queue.
LEMMA ReadingRead ==
    ASSUME ExecutorTypeOK, ReadingSoFar, ReadStatement
    PROVE  ReadingSoFar'
<1> DEFINE t    == Head(input)
           o    == parsed'.outcome
           wait == fileQueue \o listenFiles
           hd   == HeardIn(source)
           op   == OpenedIn(source)
<1>1. /\ input \in Seq(Text) /\ fileQueue \in Seq(Name) /\ listenFiles \in Seq(Name)
      /\ CacheTyped /\ allQueries \in Seq(Query)
  BY DEF ExecutorTypeOK, CacheTyped
<1>2. /\ phase \in {"collect", "process"} /\ input # <<>> /\ parseQuery(t)
      /\ input' = Tail(input) /\ source' = source
  BY DEF ReadStatement
<1>3. t \in Text /\ input' \in Seq(Text)
  BY <1>1, <1>2
<1>4. /\ o.status = "Made" =>
            /\ Parses(t)
            /\ o.query.type = "Listen" <=> DebugMatches(t) /\ t[1] = "LISTEN"
            /\ o.query.type = "Listen" => o.query.file = t[3] /\ t[3] \in Name
      /\ o.status = "Failed" => ~Parses(t) /\ ~DebugMatches(t)
  BY <1>1, <1>2, <1>3, QueryRead
<1>5. o.status = "Made" => o.query \in Query /\ t \in Spellings(o.query)
  <2>1. AcceptsExactly' /\ (o.status = "Made" => o.query \in Query)
    BY ReadStep
  <2>2. parsed'.text = t
    BY <1>2 DEF parseQuery
  <2> QED BY <2>1, <2>2 DEF AcceptsExactly
<1>6. source \in Programs /\ (phase = "collect" => listenFiles = <<>>)
  BY DEF ReadingSoFar
<1>7. PICK files \in Seq(DOMAIN source), texts \in Seq(Text) : ReadUpTo(files, texts)
  BY <1>2 DEF ReadingSoFar
<1>8. /\ FlatMap(files, source) = texts \o input
      /\ <<Main>> \o FlatMap(texts, hd) = files \o FlatMap(wait, op)
      /\ HeardBefore(files, CallsIn(source))
      /\ SpellAll(FlatMap(texts, KnownOf), allQueries)
  BY <1>7 DEF ReadUpTo
<1>9. /\ Main \in DOMAIN source /\ hd \in [Text -> Seq(DOMAIN source)]
      /\ op \in [Name -> Seq(DOMAIN source)] /\ KnownOf \in [Text -> Seq(Text)]
  BY <1>6, FilesTypes
<1>10. /\ hd[t] = IF DebugMatches(t) /\ t[1] = "LISTEN" /\ t[3] \in DOMAIN source
                  THEN <<t[3]>> ELSE <<>>
       /\ KnownOf[t] = IF Parses(t) THEN <<t>> ELSE <<>>
       /\ \A n \in Name : op[n] = IF n \in DOMAIN source THEN <<n>> ELSE <<>>
  BY <1>3 DEF HeardIn, KnownOf, OpenedIn
<1>11. wait \in Seq(Name)
  BY <1>1
<1>12. o.status # "Made" /\ o.status # "Failed" => phase' = "undefined"
  BY DEF ReadStatement
<1>13. CASE o.status # "Made" /\ o.status # "Failed"
  BY <1>2, <1>6, <1>12, <1>13 DEF ReadingSoFar
<1>14. CASE o.status \in {"Made", "Failed"}
  <2>1. PICK more \in Seq(Text) : more = Append(texts, t)
    <3>1. Append(texts, t) \in Seq(Text)
      BY <1>3
    <3> QED BY <3>1
  <2>2. FlatMap(files, source) = more \o input'
    <3>1. texts \o input = Append(texts, t) \o Tail(input)
      BY <1>1, <1>2, OneInFront
    <3> QED BY <1>2, <1>8, <2>1, <3>1
  <2>3. /\ FlatMap(more, hd) = FlatMap(texts, hd) \o hd[t]
        /\ FlatMap(more, KnownOf) = FlatMap(texts, KnownOf) \o KnownOf[t]
    BY <1>3, <1>9, <2>1, MapAppend
  <2>4. phase' = phase /\ (phase = "collect" => listenFiles' = <<>>)
    <3>1. phase' = phase /\ (phase = "collect" => listenFiles' = listenFiles)
      BY <1>14 DEF ReadStatement
    <3> QED BY <1>6, <3>1
  <2>5. <<Main>> \o FlatMap(more, hd) = files \o FlatMap(fileQueue' \o listenFiles', op)
    <3>1. /\ FlatMap(texts, hd) \in Seq(DOMAIN source) /\ hd[t] \in Seq(DOMAIN source)
          /\ FlatMap(wait, op) \in Seq(DOMAIN source) /\ <<Main>> \in Seq(DOMAIN source)
      <4>1. FlatMap(texts, hd) \in Seq(DOMAIN source) /\ FlatMap(wait, op) \in Seq(DOMAIN source)
        BY <1>9, <1>11, MapType
      <4> QED BY <1>3, <1>9, <4>1
    <3>2. FlatMap(fileQueue' \o listenFiles', op) = FlatMap(wait, op) \o hd[t]
      <4>1. CASE o.status = "Made" /\ o.query.type = "Listen"
        <5>1. t[3] \in Name /\ hd[t] = op[t[3]]
          BY <1>4, <1>10, <4>1
        <5>2. /\ phase = "collect" =>
                     fileQueue' = Append(fileQueue, t[3]) /\ listenFiles' = listenFiles
              /\ phase = "process" =>
                     fileQueue' = fileQueue /\ listenFiles' = Append(listenFiles, t[3])
          BY <1>4, <4>1 DEF ReadStatement, Heard
        <5>3. fileQueue' \o listenFiles' = Append(wait, t[3])
          <6>1. CASE phase = "collect"
            <7>1. listenFiles = <<>>
              BY <1>6, <6>1
            <7>2. fileQueue' = Append(fileQueue, t[3]) /\ listenFiles' = <<>>
              BY <5>2, <6>1, <7>1
            <7>3. wait = fileQueue
              BY <1>1, <7>1
            <7>4. Append(fileQueue, t[3]) \o <<>> = Append(fileQueue, t[3])
              BY <1>1, <5>1
            <7> QED BY <7>2, <7>3, <7>4
          <6>2. CASE phase = "process"
            <7>1. fileQueue \o Append(listenFiles, t[3]) = Append(fileQueue \o listenFiles, t[3])
              BY <1>1, <5>1
            <7> QED BY <5>2, <6>2, <7>1
          <6> QED BY <1>2, <6>1, <6>2
        <5>4. FlatMap(Append(wait, t[3]), op) = FlatMap(wait, op) \o op[t[3]]
          BY <1>9, <1>11, <5>1, MapAppend
        <5> QED BY <5>1, <5>3, <5>4
      <4>2. CASE ~(o.status = "Made" /\ o.query.type = "Listen")
        <5>1. hd[t] = <<>>
          BY <1>4, <1>10, <1>14, <4>2
        <5>2. fileQueue' = fileQueue /\ listenFiles' = listenFiles
          BY <1>14, <4>2 DEF ReadStatement, Heard
        <5>3. FlatMap(wait, op) \o <<>> = FlatMap(wait, op)
          BY <3>1
        <5> QED BY <5>1, <5>2, <5>3
      <4> QED BY <4>1, <4>2
    <3>3. Regroups(DOMAIN source)
      BY ONLY ConcatRegroups
    <3>4. <<Main>> \o (FlatMap(texts, hd) \o hd[t]) = (<<Main>> \o FlatMap(texts, hd)) \o hd[t]
      <4> DEFINE a == <<Main>>
                 b == FlatMap(texts, hd)
                 c == hd[t]
      <4>1. a \in Seq(DOMAIN source) /\ b \in Seq(DOMAIN source) /\ c \in Seq(DOMAIN source)
        BY <3>1
      <4> HIDE DEF a, b, c
      <4>2. a \o (b \o c) = (a \o b) \o c
        BY ONLY <3>3, <4>1 DEF Regroups
      <4> QED BY <4>2 DEF a, b, c
    <3>5. files \o (FlatMap(wait, op) \o hd[t]) = (files \o FlatMap(wait, op)) \o hd[t]
      <4> DEFINE b == FlatMap(wait, op)
                 c == hd[t]
      <4>1. files \in Seq(DOMAIN source) /\ b \in Seq(DOMAIN source) /\ c \in Seq(DOMAIN source)
        BY <3>1
      <4> HIDE DEF b, c
      <4>2. files \o (b \o c) = (files \o b) \o c
        BY ONLY <3>3, <4>1 DEF Regroups
      <4> QED BY <4>2 DEF b, c
    <3> QED BY <1>8, <2>3, <3>2, <3>4, <3>5
  <2>6. SpellAll(FlatMap(more, KnownOf), allQueries')
    <3> DEFINE known == FlatMap(texts, KnownOf)
    <3>1. known \in Seq(Text)
      BY <1>9, MapType
    <3> HIDE DEF known
    <3>2. SpellAll(known, allQueries) /\ FlatMap(more, KnownOf) = known \o KnownOf[t]
      BY <1>8, <2>3 DEF known
    <3>3. CASE o.status = "Made"
      <4>1. /\ FlatMap(more, KnownOf) = known \o <<t>>
            /\ allQueries' = Append(allQueries, o.query)
        BY <1>4, <1>10, <3>2, <3>3 DEF ReadStatement
      <4>2. o.query \in Query /\ t \in Spellings(o.query)
        BY <1>5, <3>3
      <4> DEFINE q == o.query
      <4> HIDE DEF q, o, t
      <4>3. \A q1 \in Query : \A t1 \in Text :
                t1 \in Spellings(q1) => SpellAll(known \o <<t1>>, Append(allQueries, q1))
        <5>1. SUFFICES ASSUME NEW q1 \in Query, NEW t1 \in Text, t1 \in Spellings(q1)
                       PROVE  SpellAll(known \o <<t1>>, Append(allQueries, q1))
          OBVIOUS
        <5>2. /\ known \in Seq(Text) /\ allQueries \in Seq(Query)
              /\ Len(allQueries) = Len(known) /\ Len(known) \in Nat
              /\ \A k \in 1 .. Len(known) : known[k] \in Spellings(allQueries[k])
          BY <1>1, <3>1, <3>2 DEF SpellAll
        <5>3. /\ Len(known \o <<t1>>) = Len(known) + 1
              /\ (known \o <<t1>>)[Len(known) + 1] = t1
              /\ \A k \in 1 .. Len(known) : (known \o <<t1>>)[k] = known[k]
          BY <5>2
        <5>4. /\ Len(Append(allQueries, q1)) = Len(allQueries) + 1
              /\ Append(allQueries, q1)[Len(allQueries) + 1] = q1
              /\ \A k \in 1 .. Len(allQueries) : Append(allQueries, q1)[k] = allQueries[k]
          BY <5>2
        <5>5. \A k \in 1 .. Len(known) + 1 : k \in 1 .. Len(known) \/ k = Len(known) + 1
          BY <5>2
        <5> DEFINE ts == known \o <<t1>>
                   qs == Append(allQueries, q1)
        <5> HIDE DEF ts, qs
        <5>6. \A k \in 1 .. Len(known) + 1 : ts[k] \in Spellings(qs[k])
          BY <5>1, <5>2, <5>3, <5>4, <5>5 DEF ts, qs
        <5>7. Len(ts) = Len(known) + 1 /\ Len(qs) = Len(known) + 1
          BY <5>2, <5>3, <5>4 DEF ts, qs
        <5>8. SpellAll(ts, qs)
          BY <5>6, <5>7 DEF SpellAll
        <5> QED BY <5>8 DEF ts, qs
      <4> QED BY <1>3, <4>1, <4>2, <4>3 DEF q
    <3>4. CASE o.status = "Failed"
      <4>1. KnownOf[t] = <<>> /\ allQueries' = allQueries
        BY <1>4, <1>10, <3>4 DEF ReadStatement
      <4>2. known \o <<>> = known
        BY <3>1
      <4> QED BY <3>2, <4>1, <4>2
    <3> QED BY <1>14, <3>3, <3>4
  <2>7. ReadUpTo(files, more)'
    <3> HIDE DEF o, t, wait
    <3>1. source' = source
      BY <1>2
    <3>2. FlatMap(files, source') = more \o input'
      BY <2>2, <3>1
    <3>3. <<Main>> \o FlatMap(more, HeardIn(source')) =
              files \o FlatMap(fileQueue' \o listenFiles', OpenedIn(source'))
      BY <2>5, <3>1
    <3>4. HeardBefore(files, CallsIn(source'))
      BY <1>8, <3>1
    <3> QED BY <2>6, <3>2, <3>3, <3>4 DEF ReadUpTo
  <2> HIDE DEF o, t, wait, hd, op
  <2>8. \E f \in Seq(DOMAIN source'), x \in Seq(Text) : ReadUpTo(f, x)'
    BY <1>2, <2>1, <2>7
  <2> QED BY <1>2, <1>6, <2>4, <2>8 DEF ReadingSoFar
<1> QED BY <1>13, <1>14

\* The files put aside go to the queue, in their order.
LEMMA ReadingEnds ==
    ASSUME ExecutorTypeOK, ReadingSoFar, EndOfStream
    PROVE  ReadingSoFar'
<1>1. fileQueue \in Seq(Name) /\ listenFiles \in Seq(Name)
  BY DEF ExecutorTypeOK
<1>2. /\ phase \in {"collect", "process"} /\ phase' = "next"
      /\ input = <<>> /\ input' = input /\ source' = source /\ allQueries' = allQueries
      /\ fileQueue' = fileQueue \o listenFiles /\ listenFiles' = <<>>
  BY DEF EndOfStream
<1>3. PICK files \in Seq(DOMAIN source), texts \in Seq(Text) : ReadUpTo(files, texts)
  BY <1>2 DEF ReadingSoFar
<1>4. fileQueue' \o listenFiles' = fileQueue \o listenFiles
  <2>1. (fileQueue \o listenFiles) \o <<>> = fileQueue \o listenFiles
    BY <1>1
  <2> QED BY <1>2, <2>1
<1>5. ReadUpTo(files, texts)'
  <2>1. /\ FlatMap(files, source') = texts \o input'
        /\ HeardBefore(files, CallsIn(source'))
        /\ SpellAll(FlatMap(texts, KnownOf), allQueries')
    BY <1>2, <1>3 DEF ReadUpTo
  <2>2. <<Main>> \o FlatMap(texts, HeardIn(source')) =
            files \o FlatMap(fileQueue' \o listenFiles', OpenedIn(source'))
    BY <1>2, <1>3, <1>4 DEF ReadUpTo
  <2> QED BY <2>1, <2>2 DEF ReadUpTo
<1> QED BY <1>2, <1>5 DEF ReadingSoFar

\* The file in front of the queue becomes the last of those opened.
LEMMA ReadingOpens ==
    ASSUME ExecutorTypeOK, ReadingSoFar, OpenNext
    PROVE  ReadingSoFar'
<1> DEFINE h  == Head(fileQueue)
           hd == HeardIn(source)
           op == OpenedIn(source)
           A  == DOMAIN source
<1>1. fileQueue \in Seq(Name) /\ listenFiles \in Seq(Name)
  BY DEF ExecutorTypeOK
<1>2. /\ phase = "next" /\ fileQueue # <<>> /\ fileQueue' = Tail(fileQueue)
      /\ source' = source /\ listenFiles' = listenFiles /\ allQueries' = allQueries
      /\ h \in A => phase' = "process" /\ input' = source[h]
      /\ h \notin A => phase' = phase /\ input' = input
  BY DEF OpenNext
<1>3. source \in Programs /\ input = <<>> /\ listenFiles = <<>>
  BY <1>2 DEF ReadingSoFar
<1>4. PICK files \in Seq(A), texts \in Seq(Text) : ReadUpTo(files, texts)
  BY <1>2 DEF ReadingSoFar
<1>5. /\ Main \in A /\ source \in [A -> Seq(Text)] /\ hd \in [Text -> Seq(A)]
      /\ op \in [Name -> Seq(A)] /\ CallsIn(source) \in [A -> Seq(A)]
  BY <1>3, FilesTypes
<1>6. h \in Name /\ Tail(fileQueue) \in Seq(Name) /\ fileQueue = <<h>> \o Tail(fileQueue)
  BY <1>1, <1>2, OneInFront
<1> DEFINE rest == FlatMap(Tail(fileQueue), op)
<1>7. op[h] = IF h \in A THEN <<h>> ELSE <<>>
  BY <1>6 DEF OpenedIn
<1>8. op[h] \in Seq(A) /\ rest \in Seq(A)
  BY <1>5, <1>6, MapType
<1>9. FlatMap(fileQueue, op) = op[h] \o rest
  <2>1. <<h>> \in Seq(Name)
    BY <1>6
  <2>2. FlatMap(<<h>> \o Tail(fileQueue), op) = FlatMap(<<h>>, op) \o rest
    BY <1>5, <1>6, <2>1, MapConcat
  <2>3. FlatMap(<<h>>, op) = op[h]
    BY <1>5, <1>6, MapOne
  <2> QED BY <1>6, <2>2, <2>3
<1>10. fileQueue \o listenFiles = fileQueue /\ fileQueue' \o listenFiles' = Tail(fileQueue)
  BY <1>1, <1>2, <1>3, <1>6
<1>11. /\ FlatMap(files, source) = texts
       /\ <<Main>> \o FlatMap(texts, hd) = files \o (op[h] \o rest)
       /\ HeardBefore(files, CallsIn(source))
       /\ SpellAll(FlatMap(texts, KnownOf), allQueries)
  <2>1. texts \o <<>> = texts
    OBVIOUS
  <2> QED BY <1>3, <1>4, <1>9, <1>10, <2>1 DEF ReadUpTo
<1> HIDE DEF rest, h, hd, op, A
<1>12. CASE h \notin A
  <2>1. op[h] \o rest = rest
    BY <1>7, <1>8, <1>12
  <2>2. ReadUpTo(files, texts)'
    <3>1. texts \o input' = texts
      BY <1>2, <1>3, <1>12
    <3>2. /\ FlatMap(files, source') = texts \o input'
          /\ HeardBefore(files, CallsIn(source'))
          /\ SpellAll(FlatMap(texts, KnownOf), allQueries')
      BY <1>2, <1>11, <3>1
    <3>3. <<Main>> \o FlatMap(texts, HeardIn(source')) =
              files \o FlatMap(fileQueue' \o listenFiles', OpenedIn(source'))
      BY <1>2, <1>10, <1>11, <2>1 DEF rest, hd, op
    <3> QED BY <3>2, <3>3 DEF ReadUpTo
  <2> QED BY <1>2, <1>3, <1>4, <1>12, <2>2 DEF ReadingSoFar, A
<1>13. CASE h \in A
  <2>1. PICK more \in Seq(A) : more = Append(files, h)
    <3>1. Append(files, h) \in Seq(A)
      BY <1>13
    <3> QED BY <3>1
  <2>2. FlatMap(more, source) = texts \o source[h]
    BY <1>5, <1>11, <1>13, <2>1, MapAppend
  <2>3. files \o (op[h] \o rest) = more \o rest
    <3>1. files \in Seq(A) /\ rest \in Seq(A) /\ h \in A
      BY <1>8, <1>13
    <3>2. files \o (<<h>> \o rest) = Append(files, h) \o rest
      BY ONLY <3>1
    <3> QED BY <1>7, <1>13, <2>1, <3>2
  <2>4. Len(files) <= Len(FlatMap(files, CallsIn(source)))
    <3>1. \A f \in A : CallsIn(source)[f] = FlatMap(source[f], hd)
      BY DEF CallsIn, A, hd
    <3>2. FlatMap(FlatMap(files, source), hd) = FlatMap(files, CallsIn(source))
      <4> DEFINE c == CallsIn(source)
      <4>1. AtOnce(c, source, hd, A, Text, A)
        BY <1>5, <3>1 DEF AtOnce
      <4> HIDE DEF c
      <4>2. FlatMap(FlatMap(files, source), hd) = FlatMap(files, c)
        BY <4>1, MapTwice
      <4> QED BY <4>2 DEF c
    <3>3. FlatMap(texts, hd) = FlatMap(files, CallsIn(source))
      BY <1>11, <3>2
    <3> DEFINE told == FlatMap(texts, hd)
    <3>4. told \in Seq(A)
      BY <1>5, MapType
    <3> HIDE DEF told
    <3>5. <<Main>> \o told = more \o rest
      BY <1>11, <2>3 DEF told
    <3>6. Len(<<Main>> \o told) = 1 + Len(told)
      <4>1. <<Main>> \in Seq(A)
        BY <1>5
      <4> QED BY <3>4, <4>1
    <3>7. Len(more \o rest) = Len(more) + Len(rest) /\ Len(more) = Len(files) + 1
      BY <1>8, <2>1
    <3>8. Len(told) \in Nat /\ Len(files) \in Nat /\ Len(rest) \in Nat
      BY <1>8, <3>4
    <3>9. 1 + Len(told) = Len(files) + 1 + Len(rest)
      BY <3>5, <3>6, <3>7
    <3>10. Len(files) <= Len(told)
      BY <3>8, <3>9
    <3> QED BY <3>3, <3>10 DEF told
  <2>5. HeardBefore(more, CallsIn(source))
    BY <1>5, <1>11, <1>13, <2>1, <2>4, HeardThenRead
  <2>6. ReadUpTo(more, texts)'
    <3>1. input' = source[h]
      BY <1>2, <1>13
    <3>2. /\ FlatMap(more, source') = texts \o input'
          /\ HeardBefore(more, CallsIn(source'))
          /\ SpellAll(FlatMap(texts, KnownOf), allQueries')
      BY <1>2, <1>11, <2>2, <2>5, <3>1
    <3>3. <<Main>> \o FlatMap(texts, HeardIn(source')) =
              more \o FlatMap(fileQueue' \o listenFiles', OpenedIn(source'))
      BY <1>2, <1>10, <1>11, <2>3 DEF rest, hd, op
    <3> QED BY <3>2, <3>3 DEF ReadUpTo
  <2>7. phase' = "process"
    BY <1>2, <1>13
  <2> QED BY <1>2, <1>3, <2>1, <2>6, <2>7 DEF ReadingSoFar, A
<1> QED BY <1>12, <1>13

\* Every step keeps count of what has been read.
LEMMA ReadingStep ==
    ASSUME ExecutorTypeOK, ReadingSoFar, [ExecutorNext]_executorVars
    PROVE  ReadingSoFar'
<1>1. CASE ReadStatement
  BY <1>1, ReadingRead
<1>2. CASE EndOfStream
  BY <1>2, ReadingEnds
<1>3. CASE OpenNext
  BY <1>3, ReadingOpens
<1>4. CASE Decide \/ ExecuteHere \/ LoopDone \/ (\E k \in Queries : ExecuteOnWorker(k))
           \/ PrintResults
  <2>1. source' = source /\ phase' \in {"single", "multi", "done"}
    BY <1>4 DEF Decide, ExecuteHere, LoopDone, ExecuteOnWorker, PrintResults
  <2> QED BY <2>1 DEF ReadingSoFar
<1>5. CASE UNCHANGED executorVars
  <2>1. UNCHANGED <<phase, source, input, fileQueue, listenFiles, allQueries>>
    BY <1>5 DEF executorVars
  <2> QED BY <2>1 DEF ReadingSoFar, ReadUpTo
<1> QED BY <1>1, <1>2, <1>3, <1>4, <1>5 DEF ExecutorNext, ExecutorStep, WaitAllBlocks, Ended

\* The operators of the property, as functions of the query files.
LEMMA ListensIs ==
    ASSUME source \in Programs
    PROVE  /\ \A t \in Text : Called(t) = HeardIn(source)[t]
           /\ \A f \in DOMAIN source : ListensTo(f) = CallsIn(source)[f]
<1> DEFINE hd == HeardIn(source)
<1>1. \A t \in Text : Called(t) = hd[t]
  BY DEF Called, HeardIn
<1>2. ASSUME NEW f \in DOMAIN source PROVE ListensTo(f) = CallsIn(source)[f]
  <2>1. source[f] \in Seq(Text)
    BY FilesTypes
  <2>2. \A i \in DOMAIN source[f] : source[f][i] \in Text
    BY <2>1
  <2> HIDE DEF hd
  <2>3. [i \in DOMAIN source[f] |-> Called(source[f][i])]
            = [i \in DOMAIN source[f] |-> hd[source[f][i]]]
    BY ONLY <1>1, <2>2
  <2>4. ListensTo(f) = FlatMap(source[f], hd)
    BY <2>3 DEF ListensTo, FlatMap
  <2>5. CallsIn(source)[f] = FlatMap(source[f], hd)
    BY DEF CallsIn, hd
  <2> QED BY <2>4, <2>5
<1> QED BY <1>1, <1>2 DEF hd

\* Levels' equation.
LevelsHold(g, n) ==
    g = [k \in 0 .. n |-> IF k = 0 THEN <<Main>>
                          ELSE FlattenSeq([i \in DOMAIN g[k - 1] |-> ListensTo(g[k - 1][i])])]

\* It has one solution.
LEMMA LevelsUnique ==
    ASSUME NEW n \in Nat, NEW g, NEW h, LevelsHold(g, n), LevelsHold(h, n)
    PROVE  \A k \in 0 .. n : h[k] = g[k]
<1> DEFINE Following(s) == FlattenSeq([i \in DOMAIN s |-> ListensTo(s[i])])
           Same == {k \in Nat : k \in 0 .. n => h[k] = g[k]}
<1>1. /\ \A k \in 0 .. n : g[k] = IF k = 0 THEN <<Main>> ELSE Following(g[k - 1])
      /\ \A k \in 0 .. n : h[k] = IF k = 0 THEN <<Main>> ELSE Following(h[k - 1])
  <2>1. /\ g = [k \in 0 .. n |-> IF k = 0 THEN <<Main>> ELSE Following(g[k - 1])]
        /\ h = [k \in 0 .. n |-> IF k = 0 THEN <<Main>> ELSE Following(h[k - 1])]
    BY DEF LevelsHold
  <2> HIDE DEF Following
  <2> QED BY <2>1
<1> HIDE DEF Following
<1>2. ASSUME NEW k \in Nat, \A l \in Nat : l < k => l \in Same PROVE k \in Same
  <2> SUFFICES ASSUME k \in 0 .. n PROVE h[k] = g[k]
    OBVIOUS
  <2>1. k # 0 => k - 1 \in Nat /\ k - 1 < k /\ k - 1 \in 0 .. n
    OBVIOUS
  <2>2. k # 0 => h[k - 1] = g[k - 1]
    BY <1>2, <2>1
  <2> QED BY <1>1, <2>2
<1>3. \A k \in Nat : k \in Same
  <2> HIDE DEF Same
  <2> QED BY <1>2, StrongInduction
<1> QED BY <1>3

\* The levels of the property are those the files read are shown to be.
LEMMA LevelsRead ==
    ASSUME source \in Programs
    PROVE  \E g \in [0 .. Cardinality(DOMAIN source) -> Seq(DOMAIN source)] :
               /\ LevelsAre(g, CallsIn(source), Main, Cardinality(DOMAIN source))
               /\ ReadingOrder = FlattenSeq([n \in 1 .. Cardinality(DOMAIN source) |-> g[n - 1]])
<1> DEFINE A == DOMAIN source
           N == Cardinality(A)
           c == CallsIn(source)
<1>1. /\ Main \in A /\ IsFiniteSet(A) /\ c \in [A -> Seq(A)]
  BY FilesTypes
<1>2. N \in Nat
  BY <1>1, FS_CardinalityType
<1>3. PICK g \in [0 .. N -> Seq(A)] : LevelsAre(g, c, Main, N)
  <2> HIDE DEF A, N, c
  <2> QED BY <1>1, <1>2, LevelsExist
<1>4. LevelsHold(g, N)
  <2>1. \A s \in Seq(A) : FlatMap(s, c) = FlattenSeq([i \in DOMAIN s |-> ListensTo(s[i])])
    <3>1. SUFFICES ASSUME NEW s \in Seq(A)
                   PROVE  FlatMap(s, c) = FlattenSeq([i \in DOMAIN s |-> ListensTo(s[i])])
      OBVIOUS
    <3>2. \A f \in A : ListensTo(f) = c[f]
      BY ListensIs
    <3>3. \A i \in DOMAIN s : s[i] \in A
      OBVIOUS
    <3> HIDE DEF c, A
    <3>4. [i \in DOMAIN s |-> ListensTo(s[i])] = [i \in DOMAIN s |-> c[s[i]]]
      BY ONLY <3>2, <3>3
    <3> QED BY <3>4 DEF FlatMap
  <2>2. \A k \in 0 .. N : k # 0 => g[k - 1] \in Seq(A)
    <3>1. \A k \in 0 .. N : k # 0 => k - 1 \in 0 .. N
      BY <1>2
    <3> HIDE DEF A, N
    <3> QED BY <1>3, <3>1
  <2>3. g = [k \in 0 .. N |-> IF k = 0 THEN <<Main>> ELSE FlatMap(g[k - 1], c)]
    BY <1>3 DEF LevelsAre
  <2> DEFINE Following(s) == FlattenSeq([i \in DOMAIN s |-> ListensTo(s[i])])
  <2>4. \A s \in Seq(A) : FlatMap(s, c) = Following(s)
    BY <2>1
  <2> HIDE DEF A, N, c, Following
  <2>5. g = [k \in 0 .. N |-> IF k = 0 THEN <<Main>> ELSE Following(g[k - 1])]
    <3>1. \A k \in 0 .. N : k # 0 => FlatMap(g[k - 1], c) = Following(g[k - 1])
      BY <2>2, <2>4
    <3> QED BY ONLY <2>3, <3>1
  <2> QED BY <2>5 DEF LevelsHold, Following
<1> DEFINE Step(f) == [k \in 0 .. Cardinality(DOMAIN source) |->
                          IF k = 0 THEN <<Main>>
                          ELSE FlattenSeq([i \in DOMAIN f[k - 1] |-> ListensTo(f[k - 1][i])])]
           h == CHOOSE f : f = Step(f)
<1>5. Levels = h
  BY DEF Levels
<1>6. LevelsHold(h, N)
  <2>1. g = Step(g)
    BY <1>4 DEF LevelsHold
  <2>2. h = Step(h)
    <3> HIDE DEF Step
    <3> QED BY <2>1
  <2> HIDE DEF h
  <2> QED BY <2>2 DEF LevelsHold
<1>7. \A k \in 0 .. N : Levels[k] = g[k]
  <2> HIDE DEF h, N
  <2> QED BY <1>2, <1>4, <1>5, <1>6, LevelsUnique
<1>8. ReadingOrder = FlattenSeq([n \in 1 .. N |-> g[n - 1]])
  <2>1. \A n \in 1 .. N : n - 1 \in 0 .. N
    BY <1>2
  <2>2. [n \in 1 .. N |-> Levels[n - 1]] = [n \in 1 .. N |-> g[n - 1]]
    BY ONLY <1>7, <2>1
  <2> QED BY <2>2 DEF ReadingOrder
<1> QED BY <1>3, <1>8

\* When no file waits the files were opened level by level.
LEMMA ReadingDone ==
    ASSUME ReadingSoFar, phase = "next", fileQueue = <<>>
    PROVE  /\ ReadingOrder \in Seq(DOMAIN source)
           /\ SpellAll(FlatMap(FlatMap(ReadingOrder, source), KnownOf), allQueries)
<1> DEFINE A  == DOMAIN source
           hd == HeardIn(source)
           op == OpenedIn(source)
           c  == CallsIn(source)
<1>1. source \in Programs /\ input = <<>> /\ listenFiles = <<>>
  BY DEF ReadingSoFar
<1>2. PICK files \in Seq(A), texts \in Seq(Text) : ReadUpTo(files, texts)
  BY DEF ReadingSoFar
<1>3. /\ Main \in A /\ IsFiniteSet(A) /\ source \in [A -> Seq(Text)]
      /\ hd \in [Text -> Seq(A)] /\ c \in [A -> Seq(A)]
  BY <1>1, FilesTypes
<1>4. FlatMap(files, source) = texts
  <2>1. texts \o <<>> = texts
    OBVIOUS
  <2> QED BY <1>1, <1>2, <2>1 DEF ReadUpTo
<1>5. <<Main>> \o FlatMap(texts, hd) = files
  <2>1. fileQueue \o listenFiles = <<>>
    BY <1>1
  <2>2. FlatMap(fileQueue \o listenFiles, op) = <<>>
    BY <2>1, MapNone
  <2>3. files \o <<>> = files
    OBVIOUS
  <2> QED BY <1>2, <2>2, <2>3 DEF ReadUpTo
<1>6. FlatMap(FlatMap(files, source), hd) = FlatMap(files, c)
  <2>1. AtOnce(c, source, hd, A, Text, A)
    <3>1. \A f \in A : c[f] = FlatMap(source[f], hd)
      BY DEF CallsIn
    <3> QED BY <1>3, <3>1 DEF AtOnce
  <2> HIDE DEF c, hd
  <2> QED BY <2>1, MapTwice
<1>7. AllHeard(files, c, Main)
  BY <1>4, <1>5, <1>6 DEF AllHeard
<1>8. HeardBefore(files, c)
  BY <1>2 DEF ReadUpTo
<1>9. PICK g \in [0 .. Cardinality(A) -> Seq(A)] :
          /\ LevelsAre(g, c, Main, Cardinality(A))
          /\ ReadingOrder = FlattenSeq([n \in 1 .. Cardinality(A) |-> g[n - 1]])
  BY <1>1, LevelsRead
<1>10. files = ReadingOrder
  <2>1. LevelsAre(g, c, Main, Cardinality(A))
    BY <1>9
  <2>2. files = FlattenSeq([n \in 1 .. Cardinality(A) |-> g[n - 1]])
    <3> HIDE DEF A, c
    <3> QED BY <1>3, <1>7, <1>8, <2>1, ReadInLevels
  <2> QED BY <1>9, <2>2
<1>11. SpellAll(FlatMap(texts, KnownOf), allQueries)
  BY <1>2 DEF ReadUpTo
<1> QED BY <1>4, <1>10, <1>11

\* So the program read is that of the property.
LEMMA ReadsInOrder ==
    ASSUME ExecutorTypeOK, ReadingSoFar
    PROVE  ReadsBreadthFirst
<1> SUFFICES ASSUME phase = "next", fileQueue = <<>>
             PROVE  LET texts == FlattenSeq([i \in DOMAIN ReadingOrder |->
                                                source[ReadingOrder[i]]])
                        known == FlattenSeq([i \in DOMAIN texts |->
                                    IF Parses(texts[i]) THEN <<texts[i]>> ELSE <<>>])
                    IN  Len(allQueries) = Len(known)
                        /\ \A k \in Queries : known[k] \in Spellings(allQueries[k])
  BY DEF ReadsBreadthFirst
<1> DEFINE texts == FlattenSeq([i \in DOMAIN ReadingOrder |-> source[ReadingOrder[i]]])
           known == FlattenSeq([i \in DOMAIN texts |->
                                    IF Parses(texts[i]) THEN <<texts[i]>> ELSE <<>>])
<1>1. source \in Programs /\ source \in [DOMAIN source -> Seq(Text)]
  BY FilesTypes DEF ReadingSoFar
<1>2. texts = FlatMap(ReadingOrder, source)
  BY DEF FlatMap
<1>3. texts \in Seq(Text) /\ SpellAll(FlatMap(texts, KnownOf), allQueries)
  <2>1. ReadingOrder \in Seq(DOMAIN source)
    BY ReadingDone
  <2>2. FlatMap(ReadingOrder, source) \in Seq(Text)
    BY <1>1, <2>1, MapType
  <2> HIDE DEF texts
  <2> QED BY <1>2, <2>2, ReadingDone
<1> HIDE DEF texts
<1>4. known = FlatMap(texts, KnownOf)
  <2>1. \A i \in DOMAIN texts : texts[i] \in Text
    BY <1>3
  <2>2. \A t \in Text : KnownOf[t] = IF Parses(t) THEN <<t>> ELSE <<>>
    BY DEF KnownOf
  <2>3. [i \in DOMAIN texts |-> IF Parses(texts[i]) THEN <<texts[i]>> ELSE <<>>]
            = [i \in DOMAIN texts |-> KnownOf[texts[i]]]
    BY ONLY <2>1, <2>2
  <2> QED BY <2>3 DEF FlatMap
<1> HIDE DEF known
<1>5. SpellAll(known, allQueries)
  BY <1>3, <1>4
<1>6. Len(allQueries) = Len(known) /\ \A k \in 1 .. Len(allQueries) : known[k] \in Spellings(allQueries[k])
  BY <1>5 DEF SpellAll
<1>7. Queries = 1 .. Len(allQueries)
  BY DEF ExecutorTypeOK, Queries
<1> QED BY <1>6, <1>7 DEF texts, known

-----------------------------------------------------------------------------
(* The invariant.                                                          *)

\* What holds in every state of executeQueries.
ExecutorInv ==
    /\ ExecutorTypeOK /\ NamesKnown /\ LoadsAreNamed /\ PrintedSoFar
    /\ AcceptsExactly /\ ReadsLanguage /\ ReadingSoFar

LEMMA Invariant == ExecutorSpec => []ExecutorInv
<1>1. ExecutorInit => ExecutorInv
  BY InitTypes, InitNames, InitReads, InitReading DEF ExecutorInv
<1>2. ExecutorInv /\ [ExecutorNext]_executorVars => ExecutorInv'
  BY TypeStep, NamesStep, AcceptsStep, ReadsStep, PrintedStep, ReadingStep
  DEF ExecutorInv
<1> QED BY <1>1, <1>2, PTL DEF ExecutorSpec

-----------------------------------------------------------------------------
(* The theorems.                                                           *)

\* Whatever the query files say, every variable of executeQueries and of the builders
\* keeps its type: parseToken, parseTarget and parseWhereConditions take tokens that are
\* there, and the numbers printed are numbers of queries.
THEOREM ExecutorTypeCorrect == ExecutorSpec => []ExecutorTypeOK
<1>1. ExecutorInv => ExecutorTypeOK
  BY DEF ExecutorInv
<1> QED BY <1>1, Invariant, PTL

\* parseQuery accepts no statement but one that spells, token for token, the query it
\* was made into: the builders are cleared, and each reads its statement to the end.
THEOREM StatementsAcceptedExactly == ExecutorSpec => []AcceptsExactly
<1>1. ExecutorInv => AcceptsExactly
  BY DEF ExecutorInv
<1> QED BY <1>1, Invariant, PTL

\* A statement that spells a query of the language is made into that query, whatever was
\* parsed in front of it: no builder takes another's statement or loses a token, and the
\* operands and conditions of earlier statements are gone.
THEOREM LanguageIsRead == ExecutorSpec => []ReadsLanguage
<1>1. ExecutorInv => ReadsLanguage
  BY DEF ExecutorInv
<1> QED BY <1>1, Invariant, PTL

\* The program executed is the parseable statements of the main file and of the files
\* LISTENed to, level by level and each time a file is LISTENed to, whatever files are
\* missing: the queue loses no file and reads none before its turn.
THEOREM FilesReadBreadthFirst == ExecutorSpec => []ReadsBreadthFirst
<1>1. ExecutorInv => ReadsBreadthFirst
  BY ReadsInOrder DEF ExecutorInv
<1> QED BY <1>1, Invariant, PTL

\* A LOAD bears the name its file was last DUMPed under in front of it, in whatever
\* query file that was, or else the one on disk: fileTableNameMap is never out of date.
THEOREM LoadsBearTheirNames == ExecutorSpec => []LoadsAreNamed
<1>1. ExecutorInv => LoadsAreNamed
  BY DEF ExecutorInv
<1> QED BY <1>1, Invariant, PTL

\* executeQueries prints, on one thread or through the Runtime, the numbers of exactly
\* the queries in front of the first QUIT, in program order.
THEOREM ResultsPrintedInOrder == ExecutorSpec => []ResultsInOrder
<1>1. ExecutorInv => ResultsInOrder
  <2> SUFFICES ASSUME ExecutorInv, phase = "done"
               PROVE  /\ {stdout[i].of : i \in ResultPlaces} = 1 .. BeforeQuit
                      /\ \A i, j \in ResultPlaces : i < j => stdout[i].of < stdout[j].of
    BY DEF ResultsInOrder
  <2>1. NumberedFrom(stdout, 0, BeforeQuit)
    BY DEF ExecutorInv, PrintedSoFar
  <2>2. Places(stdout) = ResultPlaces
    BY DEF Places, ResultPlaces
  <2>3. Numbers(stdout) = {stdout[i].of : i \in ResultPlaces}
    BY <2>2 DEF Numbers
  <2>4. 0 + 1 = 1
    OBVIOUS
  <2> QED BY <2>1, <2>2, <2>3, <2>4 DEF NumberedFrom, Increasing
<1> QED BY <1>1, Invariant, PTL

=============================================================================
