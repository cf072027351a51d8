---------------------------- MODULE MCGlobalIndex ----------------------------
(* A small instance of GlobalIndex: three tables, four queries of the two  *)
(* priorities a table's query can have.                                    *)
EXTENDS GlobalIndex

CONSTANTS t1, t2, t3

Query(t, s, p) == [table |-> t, seq |-> s, pri |-> p]

\* HIGH is 1 and NORMAL is 2; three tables have a NORMAL query, which is what a
\* cycle in KeyCmp takes, and one of them a HIGH one behind it.
FourHeads == {Query(t1, 1, 2), Query(t2, 2, 2), Query(t3, 3, 2), Query(t1, 4, 1)}
=============================================================================
