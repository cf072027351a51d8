----------------------------- MODULE MCExecutor -----------------------------
(* Small instances of Executor: every spelling of some hundred queries, and  *)
(* one of SELECT damaged in every way, each followed by another statement;   *)
(* and programs of three query files that LISTEN to each other.              *)
EXTENDS Executor

\* The data files; there is no d3.
TwoTableFiles == ("d1" :> "t1") @@ ("d2" :> "t2")

Conds == {<<>>, <<<<"a", ">", "1">>>>, <<<<"KEY", "=", "k">>, <<"a", "<", "2">>>>}
Opers == {<<>>, <<"a">>, <<"a", "b">>}

AllLanguage ==
    {[Of(type, "t1") EXCEPT !.operands = o, !.condition = c] :
        type \in {ComplexTypes[w] : w \in DOMAIN ComplexTypes}, o \in Opers, c \in Conds}
    \cup {Of(type, "t1") : type \in {"Drop", "Truncate", "PrintTable"}}
    \cup {[Of("Dump", t) EXCEPT !.file = f] : t \in {"t1", "t2"}, f \in {"d1", "d3"}}
    \cup {[Of("CopyTable", "t1") EXCEPT !.newTable = "t2"], Bare("List"), Bare("Quit")}
    \cup {[Bare("Listen") EXCEPT !.file = f] : f \in {"f1", "f2", "none"}}

-----------------------------------------------------------------------------
(* One statement, in every form, and one behind it.                            *)

Spelled == DOMAIN Meaning

\* The texts that are damaged: of a query, and of an operation nobody knows.
Whole == {t \in Spelled : t[1] = "SELECT"}
Misnamed == {[t EXCEPT ![1] = "CHOOSE"] : t \in Whole}

Tokens == {"(", ")", "FROM", "WHERE", "x"}

OneLost == UNION {{RemoveAt(t, i) : i \in DOMAIN t} : t \in Whole \cup Misnamed}
OneWrong == UNION {{[t EXCEPT ![i] = tok] : i \in DOMAIN t, tok \in Tokens} :
                      t \in Whole \cup Misnamed}
CutShort == UNION {{SubSeq(t, 1, n) : n \in 0 .. Len(t)} : t \in Whole \cup Misnamed}

Second == {<<"UPDATE", "FROM", "t1">>, <<"COUNT", "(", "b", ")", "FROM", "t2">>}

Pairs == {[f \in {Main} |-> <<t, u>>] :
             t \in Spelled \cup Misnamed \cup OneLost \cup OneWrong \cup CutShort,
             u \in Second}

-----------------------------------------------------------------------------
(* Three files.                                                                *)

UpTo(n, S) == UNION {[1 .. m -> S] : m \in 0 .. n}

Listen(f)  == <<"LISTEN", "(", f, ")">>
Load(d)    == <<"LOAD", d>>
Dump(t, d) == <<"DUMP", t, d>>
Show(t)    == <<"SHOWTABLE", t>>
Select     == <<"SELECT", "FROM", "t2">>
Quit       == <<"QUIT">>

InMain == {Listen("f1"), Listen("f2"), Listen("none"), Load("d1"), Load("d2"),
           Dump("t2", "d1"), Show("t2"), Quit}
InOne  == {Listen("f2"), Load("d3"), Dump("t2", "d1"), Quit}
InTwo  == {Load("d1"), Load("d2"), Dump("t1", "d3")}

IsHeard(f, texts) == \E i \in DOMAIN texts : texts[i] = Listen(f)

Nested ==
    {p \in {("main" :> m) @@ ("f1" :> a) @@ ("f2" :> b) :
               m \in UpTo(3, InMain), a \in UpTo(2, InOne), b \in UpTo(1, InTwo)} :
        /\ IsHeard("f1", p["main"]) \/ p["f1"] = <<>>
        /\ IsHeard("f2", p["main"] \o p["f1"]) \/ p["f2"] = <<>>}

SomePrograms == Pairs \cup Nested

\* A SHOWTABLE behind a query of another table.
ShowPrograms == {"main" :> <<Load("d1"), Load("d2"), Select, Show("t1")>>}
=============================================================================
