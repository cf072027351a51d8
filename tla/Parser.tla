-------------------------------- MODULE Parser --------------------------------
(***************************************************************************)
(* QueryParser and its chain of builders, Debug, ManageTable, Complex and  *)
(* Failed.  A statement is the sequence of its tokens.  The builders are   *)
(* objects that live as long as the parser: what one statement leaves in   *)
(* ComplexQueryBuilder is there when the next one is parsed.               *)
(***************************************************************************)
EXTENDS Queries, SequencesExt

CONSTANTS
    TableFile,    \* the table named by each file that LOAD finds on the disk
    Language      \* the queries whose spellings the checks know

ASSUME ParserAssumption ==
    DOMAIN TableFile \subseteq STRING /\ Range(TableFile) \subseteq STRING

VARIABLES
    complex,           \* the members of ComplexQueryBuilder
    fileTableNameMap,  \* Database::fileTableNameMap
    parsed             \* the last statement and what became of it

parserVars == <<complex, fileTableNameMap, parsed>>

-----------------------------------------------------------------------------
(* Queries as the builders make them.                                      *)

ManageTypes == [LOAD |-> "Load", DROP |-> "Drop", TRUNCATE |-> "Truncate",
                DUMP |-> "Dump", COPYTABLE |-> "CopyTable"]

ComplexTypes == [INSERT |-> "Insert", UPDATE |-> "Update", SELECT |-> "Select",
                 DELETE |-> "Delete", DUPLICATE |-> "Duplicate", COUNT |-> "Count",
                 SUM |-> "Sum", MIN |-> "Min", MAX |-> "Max", ADD |-> "Add",
                 SUB |-> "Sub", SWAP |-> "Swap"]

\* A statement, a name or none, and a query as it leaves the builders.
Text == Seq(STRING)

Name == STRING \cup {""}

Query == [type : QueryTypes, table : Name, file : Name, newTable : Name,
          operands : Text, condition : Seq(Text)]

Bare(type) == [type |-> type, table |-> "", file |-> "", newTable |-> "",
               operands |-> <<>>, condition |-> <<>>]

Of(type, table) == [Bare(type) EXCEPT !.table = table]

Made(query) == [status |-> "Made", query |-> query]

\* QueryBuilderMatchFailed, and a read past the last token.
Failed    == [status |-> "Failed"]
Undefined == [status |-> "Undefined"]

Outcomes == [status : {"Made"}, query : Query] \cup {Failed, Undefined}

-----------------------------------------------------------------------------
(* ComplexQueryBuilder: OPERATION ( operand ... ) FROM table               *)
(* WHERE ( field op value ) ...                                            *)

Builder == [targetTable : Name, operandToken : Text, conditionToken : Seq(Text)]

Cleared == [targetTable |-> "", operandToken |-> <<>>, conditionToken |-> <<>>]

\* Mutant: the operands are looked through from their second token on.
FindBehind(tok, t, i) ==
    Min({j \in (i + 1) .. Len(t) : t[j] = tok} \cup {Len(t) + 1})

\* The index of the first tok from place i on, or the place behind the last token.
Find(tok, t, i) ==
    Min({j \in i .. Len(t) : t[j] = tok} \cup {Len(t) + 1})

\* What parseToken leaves in the builder, and whether it threw IllFormedQuery.
Parsed(b)     == [builder |-> b, status |-> "Parsed"]
IllFormed(b)  == [builder |-> b, status |-> "IllFormed"]
PastTheEnd(b) == [builder |-> b, status |-> "Undefined"]

\* Conditions are groups of five tokens; those in front of a bad group stay.
parseWhereConditions(b, t, i) ==
    LET open(k)    == i + 5 * k
        IsGroup(k) == /\ open(k) + 4 <= Len(t)
                      /\ t[open(k)] = "(" /\ t[open(k) + 4] = ")"
        good       == Min({k \in 0 .. Len(t) : ~IsGroup(k)})
        cond(k)    == SubSeq(t, open(k) + 1, open(k) + 3)
        filled     == [b EXCEPT !.conditionToken = @ \o [k \in 1 .. good |-> cond(k - 1)]]
    IN  IF open(good) > Len(t) THEN Parsed(filled) ELSE IllFormed(filled)

\* From the token FROM, at place i, on.
parseTarget(b, t, i) ==
    LET named == [b EXCEPT !.targetTable = t[i + 1]]
    IN  CASE i + 1 > Len(t)          -> IllFormed(b)
          [] i + 1 = Len(t)          -> Parsed(named)
          [] OTHER -> IF t[i + 2] # "WHERE" THEN IllFormed(named)
                      ELSE parseWhereConditions(named, t, i + 3)

\* parseOperands does not look for the end before it reads the token behind "(".
parseToken(b, t) ==
    LET close  == Find(")", t, 3)
        filled == [b EXCEPT !.operandToken = @ \o SubSeq(t, 3, close - 1)]
    IN  CASE Len(t) = 1                  -> IllFormed(b)
          [] Len(t) > 1 /\ t[2] = "FROM" -> parseTarget(b, t, 2)
          [] Len(t) = 2 /\ t[2] = "("    -> PastTheEnd(b)
          [] OTHER ->
               IF t[2] # "(" THEN IllFormed(b)
               ELSE IF close >= Len(t) \/ t[close + 1] # "FROM" THEN IllFormed(filled)
               ELSE parseTarget(filled, t, close + 1)

\* ComplexQueryBuilder::tryExtractQuery on the builder b.
Complex(t, p) ==
    CASE p.status = "Undefined" -> Undefined
      [] p.status = "Parsed" /\ t[1] \in DOMAIN ComplexTypes ->
           Made([Of(ComplexTypes[t[1]], p.builder.targetTable) EXCEPT
                   !.operands  = p.builder.operandToken,
                   !.condition = p.builder.conditionToken])
      [] OTHER -> Failed

-----------------------------------------------------------------------------
(* The other builders.                                                     *)

\* The name cached for a path, else the one in the file, else none.
getFileTableName(path) ==
    IF path \in DOMAIN fileTableNameMap THEN fileTableNameMap[path]
    ELSE IF path \in DOMAIN TableFile THEN TableFile[path] ELSE ""

Named(map, path, table) ==
    [p \in DOMAIN map \cup {path} |-> IF p = path THEN table ELSE map[p]]

\* Mutant: a name that is cached is kept.
KeepFileTableName(path, table) ==
    IF path \in DOMAIN fileTableNameMap THEN fileTableNameMap
    ELSE Named(fileTableNameMap, path, table)

\* updateFileTableName, when a DUMP is parsed, replaces what is cached.
updateFileTableName(path, table) == Named(fileTableNameMap, path, table)

DebugMatches(t) ==
    \/ t \in {<<"LIST">>, <<"QUIT">>}
    \/ Len(t) = 2 /\ t[1] = "SHOWTABLE"
    \/ Len(t) = 4 /\ t[1] = "LISTEN" /\ t[2] = "(" /\ t[4] = ")"

Debug(t) ==
    CASE t[1] = "LIST"      -> Made(Bare("List"))
      [] t[1] = "QUIT"      -> Made(Bare("Quit"))
      [] t[1] = "SHOWTABLE" -> Made(Of("PrintTable", t[2]))
      [] t[1] = "LISTEN"    -> Made([Bare("Listen") EXCEPT !.file = t[3]])

ManageTableMatches(t) ==
    \/ Len(t) = 2 /\ t[1] \in {"LOAD", "DROP", "TRUNCATE"}
    \/ Len(t) = 3 /\ t[1] \in {"DUMP", "COPYTABLE"}

ManageTable(t) ==
    LET q == Of(ManageTypes[t[1]], t[2])
    IN  CASE t[1] = "LOAD" ->
               Made([q EXCEPT !.table = getFileTableName(t[2]), !.file = t[2]])
          [] t[1] = "DUMP"      -> Made([q EXCEPT !.file = t[3]])
          [] t[1] = "COPYTABLE" -> Made([q EXCEPT !.newTable = t[3]])
          [] OTHER              -> Made(q)

-----------------------------------------------------------------------------
ParserInit ==
    /\ complex = Cleared
    /\ fileTableNameMap = <<>>
    /\ parsed = [text |-> <<>>, outcome |-> Failed]

\* Mutant: nobody clears the builders.
AtStartKept(t) == complex

\* What the builders start a statement with: QueryParser::parseQuery clears the whole
\* chain first, unless there is no token at all.
AtStart(t) == IF t = <<>> THEN complex ELSE Cleared

\* QueryParser::parseQuery.
parseQuery(t) ==
    LET p       == parseToken(AtStart(t), t)
        ours    == t # <<>> /\ ~DebugMatches(t) /\ ~ManageTableMatches(t)
        outcome == CASE t = <<>>              -> Failed
                     [] DebugMatches(t)       -> Debug(t)
                     [] ManageTableMatches(t) -> ManageTable(t)
                     [] OTHER                 -> Complex(t, p)
    IN  /\ complex' = IF ours THEN p.builder ELSE AtStart(t)
        /\ fileTableNameMap' =
              CASE ManageTableMatches(t) /\ t[1] = "DUMP" ->
                     updateFileTableName(t[3], t[2])
                [] ManageTableMatches(t) /\ t[1] = "LOAD" /\ t[2] \in DOMAIN TableFile ->
                     Named(fileTableNameMap, t[2], getFileTableName(t[2]))
                [] OTHER -> fileTableNameMap
        /\ parsed' = [text |-> t, outcome |-> outcome]

-----------------------------------------------------------------------------
(* The language, read the other way round: the ways to spell a query.      *)

Words(type, types) == CHOOSE w \in DOMAIN types : types[w] = type

Parens(ts) == <<"(">> \o ts \o <<")">>

Operands(q) == {Parens(q.operands)} \cup IF q.operands = <<>> THEN {<<>>} ELSE {}

Where(q) ==
    {<<"WHERE">> \o FlattenSeq([i \in DOMAIN q.condition |-> Parens(q.condition[i])])}
        \cup IF q.condition = <<>> THEN {<<>>} ELSE {}

Spelling(q, o, w) == <<Words(q.type, ComplexTypes)>> \o o \o <<"FROM", q.table>> \o w

Spellings(q) ==
    CASE q.type = "List"       -> {<<"LIST">>}
      [] q.type = "Quit"       -> {<<"QUIT">>}
      [] q.type = "PrintTable" -> {<<"SHOWTABLE", q.table>>}
      [] q.type = "Listen"     -> {<<"LISTEN", "(", q.file, ")">>}
      [] q.type = "Load"       -> {<<"LOAD", q.file>>}
      [] q.type = "Dump"       -> {<<"DUMP", q.table, q.file>>}
      [] q.type = "CopyTable"  -> {<<"COPYTABLE", q.table, q.newTable>>}
      [] q.type \in {"Drop", "Truncate"} -> {<<Words(q.type, ManageTypes), q.table>>}
      [] OTHER -> {Spelling(q, o, w) : o \in Operands(q), w \in Where(q)}

\* A query that holds what its statement says and no more, so that the statement can be
\* read back.  The table of a LOAD is not in its statement, an operand ")" would end the
\* operands, and every condition has three tokens.
Plain(q) ==
    /\ q \in Query
    /\ CASE q.type \in {"List", "Quit"} -> q = Bare(q.type)
         [] q.type = "Listen" -> q = [Bare("Listen") EXCEPT !.file = q.file]
         [] q.type \in {"PrintTable", "Drop", "Truncate"} -> q = Of(q.type, q.table)
         [] q.type = "Dump" -> q = [Of("Dump", q.table) EXCEPT !.file = q.file]
         [] q.type = "CopyTable" ->
              q = [Of("CopyTable", q.table) EXCEPT !.newTable = q.newTable]
         [] q.type \in Range(ComplexTypes) ->
              /\ q.file = "" /\ q.newTable = ""
              /\ ")" \notin Range(q.operands)
              /\ \A k \in DOMAIN q.condition : Len(q.condition[k]) = 3
         [] OTHER -> FALSE

ASSUME LanguageAssumption == \A q \in Language : Plain(q)

\* An accepted statement spells the query that was made of it: no token is lost, none
\* is left over, and none comes from an earlier statement.
AcceptsExactly ==
    LET o == parsed.outcome
    IN  o.status = "Made" => parsed.text \in Spellings(o.query)

Meaning ==
    [t \in UNION {Spellings(q) : q \in Language} |->
        CHOOSE q \in Language : t \in Spellings(q)]

\* A statement that spells a query is accepted as that query, whatever was parsed
\* before it.
ReadsLanguage ==
    parsed.text \in DOMAIN Meaning => parsed.outcome = Made(Meaning[parsed.text])
=============================================================================
