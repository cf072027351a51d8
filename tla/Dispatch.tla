------------------------------- MODULE Dispatch -------------------------------
(***************************************************************************)
(* What class TaskQueue promises its callers (scheduler/TaskQueue.h), with *)
(* none of its queues, indexes and heaps: a query that was registered is   *)
(* handed to a worker at most once, runs, reports its completion and is    *)
(* retired.  LIST and QUIT separate what comes before them from what comes *)
(* after, and the operations on one file follow the order of the program.  *)
(* Module TaskQueue implements this one.                                   *)
(*                                                                         *)
(* Two things it does not promise.  A LOAD may be lost: its promise is     *)
(* destroyed.  And nothing is said of the order of the queries of a table: *)
(* the scheduler does not keep the order of the program (module LemonDB    *)
(* exhibits the programs).                                                 *)
(***************************************************************************)
EXTENDS Queries

CONSTANTS
    Commands,     \* the queries a client may send
    NoCommand,    \* the placeholder for a query that is not yet submitted
    NoFile,       \* the path of the queries that name no file
    MaxQueries    \* bound: how many queries a run submits

Seqs == 1 .. MaxQueries

VARIABLES
    query,        \* the submitted queries
    submitted,    \* how many of them there are
    status        \* how far each of them is

Statuses == {"none", "queued", "running", "reported", "done", "lost"}

Init == /\ query = [s \in Seqs |-> NoCommand]
        /\ submitted = 0
        /\ status = [s \in Seqs |-> "none"]

IsBarrier(s) == query[s].type \in BarrierTypes

SameFile(r, s) == query[r].file = query[s].file /\ query[r].file # NoFile

\* A worker has the query, or its callback is not yet through.
InFlight(s) == status[s] \in {"running", "reported"}

\* The completion has been noted; the counters may still be behind.
Over(s) == status[s] \in {"reported", "done"}

\* A query is accepted and gets the next sequence number.
Register ==
    /\ submitted < MaxQueries
    /\ submitted' = submitted + 1
    /\ \E q \in Commands : query' = [query EXCEPT ![submitted + 1] = q]
    /\ status' = [status EXCEPT ![submitted + 1] = "queued"]

\* No earlier barrier is still queued, a barrier starts alone, and the earlier
\* operations on the query's file are over.
MayStart(s) ==
    /\ \A b \in Seqs : b < s /\ status[b] = "queued" => ~IsBarrier(b)
    /\ IsBarrier(s) => \A r \in Seqs : ~InFlight(r)
    /\ \A r \in Seqs : r < s /\ SameFile(r, s) => Over(r)

\* The LOADs a step may lose: one at most.
Losable == {{}} \cup {{l} : l \in {r \in Seqs : /\ status[r] = "queued"
                                                /\ query[r].type = "Load"}}

\* fetchNext hands the query to a worker; it may lose a LOAD while it looks.
Start(s) ==
    /\ status[s] = "queued"
    /\ MayStart(s)
    /\ \E lost \in Losable :
          /\ s \notin lost
          /\ status' = [r \in Seqs |-> IF r = s THEN "running"
                                       ELSE IF r \in lost THEN "lost"
                                       ELSE status[r]]
    /\ UNCHANGED <<query, submitted>>

\* fetchNext loses a LOAD and finds nothing to hand out.
Lose ==
    /\ \E lost \in Losable :
          status' = [r \in Seqs |-> IF r \in lost THEN "lost" ELSE status[r]]
    /\ UNCHANGED <<query, submitted>>

\* onCompleted has released what waited for the query ...
Report(s) ==
    /\ status[s] = "running"
    /\ status' = [status EXCEPT ![s] = "reported"]
    /\ UNCHANGED <<query, submitted>>

\* ... and the query is not counted as running any more.
Finish(s) ==
    /\ status[s] = "reported"
    /\ status' = [status EXCEPT ![s] = "done"]
    /\ UNCHANGED <<query, submitted>>

Next == \/ Register
        \/ Lose
        \/ \E s \in Seqs : Start(s) \/ Report(s) \/ Finish(s)

vars == <<query, submitted, status>>

Spec == Init /\ [][Next]_vars
=============================================================================
