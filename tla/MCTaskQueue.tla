----------------------------- MODULE MCTaskQueue -----------------------------
(* Small instances of TaskQueue: two tables, two files, every program of   *)
(* up to MaxQueries commands.                                              *)
EXTENDS TaskQueue

CONSTANTS t1, t2, f1, f2

Cmd(type, table) == [NoCommand EXCEPT !.type = type, !.table = table]
LoadFrom(f)      == [NoCommand EXCEPT !.type = "Load", !.file = f]
DumpTo(t, f)     == [Cmd("Dump", t) EXCEPT !.file = f]
CopyTo(t, u)     == [Cmd("CopyTable", t) EXCEPT !.newTable = u]

\* File f1 holds table t1 and f2 holds t2.
HeaderTwo == [f \in FileIds |-> CASE f = f1 -> t1 [] f = f2 -> t2 [] OTHER -> Control]

\* One command of every shape the scheduler tells apart.
AllCommands == {LoadFrom(f1), LoadFrom(f2), DumpTo(t1, f1), DumpTo(t1, f2),
                Cmd("Drop", t1), Cmd("Drop", t2), CopyTo(t1, t2),
                Cmd("Select", t1), Cmd("Select", t2), Cmd("Truncate", t2),
                Cmd("List", Control), Cmd("Quit", Control)}

\* The commands with dependencies, for longer programs.
TrackedCommands == {LoadFrom(f1), LoadFrom(f2), DumpTo(t1, f2), Cmd("Drop", t1),
                    Cmd("Drop", t2), CopyTo(t1, t2), Cmd("Select", t2)}

\* Any program of four commands, and five of those with dependencies.
AnyProgram(p) == Len(p) <= 4 \/ \A i \in DOMAIN p : p[i] \in TrackedCommands
=============================================================================
