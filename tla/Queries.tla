------------------------------- MODULE Queries -------------------------------
(***************************************************************************)
(* The vocabulary the scheduler and the thread pool share: the types of a  *)
(* query (QueryType in query/Query.h), the lock a query takes on its table *)
(* (getQueryKind in query/QueryHelpers.h) and the level it is scheduled at *)
(* (classifyPriority in query/QueryPriority.h).                            *)
(***************************************************************************)
EXTENDS Naturals

\* Queries that go to the barrier queue of the scheduler.
BarrierTypes == {"Quit", "List", "Listen"}

\* Queries the dependency manager tracks (DependencyManager::markScheduled).
TrackedTypes == {"Load", "Dump", "Drop", "CopyTable"}

ReadTypes == {"Dump", "List", "PrintTable", "Select", "Count", "Sum", "Min",
              "Max"}

WriteTypes == {"Load", "Drop", "Truncate", "CopyTable", "Insert", "Update",
               "Delete", "Duplicate", "Add", "Sub", "Swap"}

NullTypes == {"Quit", "Listen", "Nop"}

QueryTypes == ReadTypes \cup WriteTypes \cup NullTypes

\* The lock mode of a query: shared for a reader, exclusive for a writer, none
\* for the others.
getQueryKind(type) ==
    CASE type \in ReadTypes  -> "Read"
      [] type \in WriteTypes -> "Write"
      [] OTHER               -> "Null"

\* Smaller numbers are served first: SYSTEM_HIGH is 0, HIGH is 1, NORMAL is 2.
classifyPriority(type) ==
    CASE type \in {"Quit", "List"} -> 0
      [] type \in {"Load", "Dump", "Drop", "Truncate", "CopyTable"} -> 1
      [] OTHER -> 2
=============================================================================
