------------------------------ MODULE TableIndex ------------------------------
(***************************************************************************)
(* What the scheduler needs of class GlobalIndex: the tables that may be   *)
(* served, each under the query that is served next.  This is the index of *)
(* module TaskQueue; module GlobalIndex implements it with a heap.         *)
(***************************************************************************)
EXTENDS Integers

CONSTANTS
    Tables,     \* names of tables
    NoTable,    \* the null TableQueue pointer
    Heads,      \* the queries that may head a queue: [table, seq, pri]
    NoHead,     \* the table is not indexed
    Quantum,    \* GlobalIndex::kFairnessQuantum
    MaxTick     \* bound: how many fetches there are

VARIABLES
    live,       \* the head under which a table is indexed
    fetchTick,  \* the clock of the stamps
    picked      \* what pickBest returned last

Init == /\ live = [t \in Tables |-> NoHead]
        /\ fetchTick = 0
        /\ picked = NoTable

Indexed == {t \in Tables : live[t] # NoHead}

\* Priorities are always respected.  While all stamps lie within the quantum equal
\* priorities are served in the order of the program; later nothing is promised.
Precedes(t, u) ==
    \/ live[t].pri < live[u].pri
    \/ /\ fetchTick < Quantum
       /\ live[t].pri = live[u].pri
       /\ live[t].seq < live[u].seq

Upsert(h) == /\ live' = [live EXCEPT ![h.table] = h]
             /\ UNCHANGED <<fetchTick, picked>>

\* pickBest yields a table and takes it off the index ...
Pick(t) == /\ t \in Indexed
           /\ \A u \in Indexed : ~Precedes(u, t)
           /\ live' = [live EXCEPT ![t] = NoHead]
           /\ picked' = t
           /\ UNCHANGED fetchTick

\* ... or returns false, only if no table is indexed.
PickNone == /\ Indexed = {}
            /\ picked' = NoTable
            /\ UNCHANGED <<live, fetchTick>>

\* A worker has fetched a query.
Tick == /\ fetchTick < MaxTick
        /\ fetchTick' = fetchTick + 1
        /\ UNCHANGED <<live, picked>>

Next == \/ \E h \in Heads : Upsert(h)
        \/ \E t \in Tables : Pick(t)
        \/ PickNone
        \/ Tick

Spec == Init /\ [][Next]_<<live, fetchTick, picked>>
=============================================================================
