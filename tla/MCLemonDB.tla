----------------------------- MODULE MCLemonDB -----------------------------
(* Small instances of LemonDB: two workers, two tables, two files.        *)
EXTENDS LemonDB

CONSTANTS w1, w2, t1, t2, f1, f2

Cmd(type, table) == [NoCommand EXCEPT !.type = type, !.table = table]
LoadFrom(f)      == [NoCommand EXCEPT !.type = "Load", !.file = f]
DumpTo(t, f)     == [Cmd("Dump", t) EXCEPT !.file = f]
CopyTo(t, u)     == [Cmd("CopyTable", t) EXCEPT !.newTable = u]

\* File f1 holds table t1 and f2 holds t2, or f2 does not exist.
HeaderOne == [f \in FileIds |-> IF f = f1 THEN t1 ELSE Control]
HeaderTwo == [f \in FileIds |-> CASE f = f1 -> t1 [] f = f2 -> t2 [] OTHER -> Control]

\* Programs that load both tables first and then work on them.
LoadFirstCommands == {LoadFrom(f1), LoadFrom(f2), Cmd("Update", t1),
                      Cmd("Select", t1), Cmd("Update", t2), DumpTo(t1, f1),
                      DumpTo(t2, f1), Cmd("Quit", Control)}

IsPrefix(p, q) == Len(p) <= Len(q) /\ \A i \in DOMAIN p : p[i] = q[i]

LoadFirst(p) ==
    /\ IsPrefix(p, <<LoadFrom(f1), LoadFrom(f2)>>)
          \/ IsPrefix(<<LoadFrom(f1), LoadFrom(f2)>>, p)
    /\ \A i \in DOMAIN p : /\ i > 2 => p[i].type # "Load"
                           /\ p[i].type = "Quit" => i = Len(p)

\* Programs that load t1 and copy it once, to a table nothing has used before.
CopyOnceCommands == {LoadFrom(f1), CopyTo(t1, t2), Cmd("Update", t1),
                     Cmd("Drop", t1), Cmd("Update", t2), Cmd("Drop", t2),
                     DumpTo(t1, f2), DumpTo(t2, f2)}

CopyOnce(p) ==
    \A i \in DOMAIN p :
        /\ p[i].type = "Load" <=> i = 1
        /\ p[i].table = t2 => \E j \in 1 .. (i - 1) : p[j].type = "CopyTable"
        /\ p[i].type = "CopyTable" => \A j \in 1 .. (i - 1) : p[j].type # "CopyTable"

SerialCommands == LoadFirstCommands \cup CopyOnceCommands

\* Both are orderly, as the theorems on the serial output ask.
SerialPrograms(p) ==
    /\ Orderly(p)
    /\ \/ LoadFirst(p) /\ \A i \in DOMAIN p : p[i] \in LoadFirstCommands
       \/ CopyOnce(p) /\ \A i \in DOMAIN p : p[i] \in CopyOnceCommands

\* Programs that drop table t2, create it again by COPYTABLE and go on to use both
\* tables: DROP and COPYTABLE both put t2 on the index, so two queries of one table
\* meet at the locks.
SharedCommands == {LoadFrom(f1), LoadFrom(f2), Cmd("Drop", t2), CopyTo(t1, t2),
                   Cmd("Update", t1), Cmd("Update", t2), Cmd("Select", t2),
                   Cmd("Truncate", t2), DumpTo(t2, f2)}

Again == <<LoadFrom(f1), LoadFrom(f2), Cmd("Drop", t2), CopyTo(t1, t2)>>

Shared(p) == IsPrefix(p, Again) \/ IsPrefix(Again, p)

\* The programs of the violation runs.
ScriptCommands == {LoadFrom(f1), LoadFrom(f2), DumpTo(t1, f2), DumpTo(t2, f2),
                   Cmd("Drop", t1), Cmd("Drop", t2), CopyTo(t1, t2),
                   Cmd("Select", t2), Cmd("List", Control)}

\* The DROP is preferred to the LOAD that the DUMP has released.
LostLoad(p) ==
    IsPrefix(p, <<LoadFrom(f1), DumpTo(t1, f2), Cmd("Drop", t1), LoadFrom(f2)>>)

\* The last LOAD is preferred to the table that the first has made ready; it is one
\* more than a worker fetches at once.  File i holds table i.
ManyFiles    == 1 .. (FetchBatchSize + 1)
HeaderMany   == [f \in FileIds |-> IF f \in ManyFiles THEN f ELSE Control]
ManyCommands == {LoadFrom(f) : f \in ManyFiles} \cup {Cmd("Select", 1)}

LostTable(p) ==
    IsPrefix(p, Append([i \in ManyFiles |-> LoadFrom(i)], Cmd("Select", 1)))

\* Table t2 is dropped and created again, by COPYTABLE.
CopyAgain(p) ==
    IsPrefix(p, <<LoadFrom(f1), LoadFrom(f2), Cmd("Drop", t2), CopyTo(t1, t2),
                  Cmd("Select", t2), DumpTo(t2, f2)>>)

\* A query behind LIST.
ListOvertaken(p) ==
    IsPrefix(p, <<LoadFrom(f1), Cmd("List", Control), Cmd("Drop", t1)>>)
=============================================================================
