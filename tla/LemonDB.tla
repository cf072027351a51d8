------------------------------- MODULE LemonDB -------------------------------
(***************************************************************************)
(* The multi-threaded mode as a whole: the main thread of executeQueries   *)
(* and Runtime, the workers of the Threadpool, the table locks, the        *)
(* scheduler (module TaskQueue) and the database with its files.           *)
(*                                                                         *)
(* The rows of a table are kept as the sequence of the writes that made    *)
(* them, so two tables are equal here only if the same writes were applied *)
(* in the same order.  What a query shows on standard output is a function *)
(* of the rows it saw.                                                     *)
(***************************************************************************)
EXTENDS TaskQueue

CONSTANTS
    Workers,          \* the threads of the pool
    FetchBatchSize    \* Threadpool::FETCH_BATCH_SIZE

ASSUME PoolAssumption == FetchBatchSize \in Nat \ {0}

VARIABLES
    pc,            \* where a worker is in work()
    batch,         \* the tasks a worker has fetched and not yet queued
    localQueue,    \* local_queue_, shared by the workers
    task,          \* the task a worker executes, 0 if none
    readers, writers,   \* the table locks
    db,            \* Database::tables: rows of the tables that exist
    disk,          \* the files
    result,        \* <<>>, or the value of the query's promise: <<output>>
    stop           \* the main thread has requested the workers to stop

workerVars == <<pc, batch, localQueue, task, readers, writers>>
dataVars   == <<db, disk, result>>
dbVars     == <<vars, workerVars, dataVars, stop>>

Locks == INSTANCE LockManager WITH Threads <- Workers, Ids <- TableIds

-----------------------------------------------------------------------------
(* What the queries do to the tables and the files.                        *)

\* Nothing on standard output: a NullQueryResult, or an error (on stderr).
Silent == <<>>

\* A file that is missing or has no header line; LOAD fails on both.
NoContent == [table |-> Control, rows |-> <<>>]

Outcome(tables, files, out) == [db |-> tables, disk |-> files, out |-> out]

Put(tables, t, rows) ==
    [u \in DOMAIN tables \cup {t} |-> IF u = t THEN rows ELSE tables[u]]

\* The table's name comes from the file; a name in use is an error.
LoadTable(q, tables, files) ==
    LET c == files[q.file]
    IN  IF c.table = Control \/ c.table \in DOMAIN tables
        THEN Outcome(tables, files, Silent)
        ELSE Outcome(Put(tables, c.table, c.rows), files, Silent)

\* The file is truncated before the table is looked up.
DumpTable(q, tables, files) ==
    Outcome(tables,
            [files EXCEPT ![q.file] =
               IF q.table \in DOMAIN tables
               THEN [table |-> q.table, rows |-> tables[q.table]]
               ELSE NoContent],
            Silent)

DropTable(q, tables, files) ==
    Outcome(Restrict(tables, DOMAIN tables \ {q.table}), files, Silent)

CopyTable(q, tables, files) ==
    IF q.table \in DOMAIN tables /\ q.newTable \notin DOMAIN tables
    THEN Outcome(Put(tables, q.newTable, tables[q.table]), files, Silent)
    ELSE Outcome(tables, files, Silent)

TruncateTable(q, tables, files) ==
    IF q.table \in DOMAIN tables
    THEN Outcome(Put(tables, q.table, <<>>), files, Silent)
    ELSE Outcome(tables, files, Silent)

\* INSERT shows nothing; the other writes show how many rows they found.
WriteRows(q, s, tables, files) ==
    IF q.table \in DOMAIN tables
    THEN Outcome(Put(tables, q.table, Append(tables[q.table], s)), files,
                 IF q.type = "Insert" THEN Silent ELSE <<tables[q.table]>>)
    ELSE Outcome(tables, files, Silent)

ReadRows(q, tables, files) ==
    Outcome(tables, files,
            IF q.table \in DOMAIN tables THEN <<tables[q.table]>> ELSE Silent)

ListTables(tables, files) == Outcome(tables, files, <<tables>>)

Effect(q, s, tables, files) ==
    CASE q.type = "Load"      -> LoadTable(q, tables, files)
      [] q.type = "Dump"      -> DumpTable(q, tables, files)
      [] q.type = "Drop"      -> DropTable(q, tables, files)
      [] q.type = "CopyTable" -> CopyTable(q, tables, files)
      [] q.type = "Truncate"  -> TruncateTable(q, tables, files)
      [] q.type = "List"      -> ListTables(tables, files)
      [] q.type \in NullTypes -> Outcome(tables, files, Silent)
      [] q.type \in WriteTypes \ {"Load", "Drop", "CopyTable", "Truncate"} ->
            WriteRows(q, s, tables, files)
      [] OTHER -> ReadRows(q, tables, files)

NoTables == <<>>

InitialDisk == [f \in FileIds |-> [table |-> Header[f], rows |-> <<>>]]

-----------------------------------------------------------------------------
DBInit ==
    /\ Init
    /\ pc = [w \in Workers |-> "work"]
    /\ batch = [w \in Workers |-> <<>>]
    /\ localQueue = <<>>
    /\ task = [w \in Workers |-> 0]
    /\ Locks!LockInit
    /\ db = NoTables
    /\ disk = InitialDisk
    /\ result = [s \in Seqs |-> <<>>]
    /\ stop = FALSE

(* The main thread.                                                        *)

\* Runtime::submitQuery, called for every query of the program ...
Submit == SubmitQuery /\ UNCHANGED <<workerVars, dataVars, stop>>

\* ... and Runtime::startExecution.
StartExecution == SetReady /\ UNCHANGED <<workerVars, dataVars, stop>>

Delivered == \A s \in Seqs : s <= submitted => result[s] # <<>>

\* waitAll has returned, the results are printed, ~Runtime stops the pool.
StopPool ==
    /\ readyToFetch /\ ~stop /\ Delivered
    /\ stop' = TRUE
    /\ UNCHANGED <<vars, workerVars, dataVars>>

(* A worker: Threadpool::work.  Until the queue is open a worker only      *)
(* spins and is left at its start.                                         *)

Goto(w, l) == pc' = [pc EXCEPT ![w] = l]

\* Mutant: the task stays in the queue.
LookAt(w, q, otherwise) ==
    /\ localQueue' = q
    /\ task' = [task EXCEPT ![w] = IF q = <<>> THEN 0 ELSE Head(q)]
    /\ batch' = [batch EXCEPT ![w] = <<>>]
    /\ Goto(w, IF q = <<>> THEN otherwise ELSE "lock")
    /\ UNCHANGED <<vars, readers, writers, dataVars, stop>>

\* Under local_mutex_: take the front of q, or go and fetch / sleep.
TakeFrom(w, q, otherwise) ==
    /\ localQueue' = IF q = <<>> THEN q ELSE Tail(q)
    /\ task' = [task EXCEPT ![w] = IF q = <<>> THEN 0 ELSE Head(q)]
    /\ batch' = [batch EXCEPT ![w] = <<>>]
    /\ Goto(w, IF q = <<>> THEN otherwise ELSE "lock")
    /\ UNCHANGED <<vars, readers, writers, dataVars, stop>>

Work(w) ==
    /\ pc[w] = "work" /\ readyToFetch /\ ~stop
    /\ TakeFrom(w, localQueue, "fetch")

\* One step of fetchNext; a load that loses to a table breaks its promise.
FetchNext(w) ==
    LET got == {s \in Seqs : owner[s] # "fetched" /\ owner'[s] = "fetched"}
    IN  /\ pc[w] = IF mu = "fetching" THEN "fetching" ELSE "fetch"
        /\ FetchStep
        /\ batch' = [batch EXCEPT ![w] = IF got = {} THEN @
                                         ELSE Append(@, CHOOSE s \in got : TRUE)]
        /\ Goto(w, IF mu' = "fetching" THEN "fetching"
                   ELSE IF got = {} \/ Len(batch'[w]) = FetchBatchSize THEN "push"
                   ELSE "fetch")
        /\ result' = [s \in Seqs |->
                        IF owner[s] # "broken" /\ owner'[s] = "broken"
                        THEN <<Silent>> ELSE result[s]]
        /\ UNCHANGED <<localQueue, task, readers, writers, db, disk, stop>>

Push(w) ==
    /\ pc[w] = "push"
    /\ TakeFrom(w, localQueue \o batch[w], "work")

\* executeTask: the guard on the table the query named when it was parsed.
Acquire(w) ==
    LET s == task[w]
    IN  /\ pc[w] = "lock"
        /\ CASE getQueryKind(query[s].type) = "Write" ->
                   Locks!lockX(w, item[s].target)
             [] getQueryKind(query[s].type) = "Read" ->
                   Locks!lockS(w, item[s].target)
             [] OTHER -> UNCHANGED <<readers, writers>>
        /\ Goto(w, "execute")
        /\ UNCHANGED <<vars, batch, localQueue, task, dataVars, stop>>

\* run_logic: execute the query, or the override of a dropped one, and set the
\* promise; only then comes the callback.
Execute(w) ==
    LET s == task[w]
        r == IF item[s].dropped THEN Outcome(db, disk, Silent)
             ELSE Effect(query[s], s, db, disk)
    IN  /\ pc[w] = "execute"
        /\ db' = r.db /\ disk' = r.disk
        /\ result' = [result EXCEPT ![s] = <<r.out>>]
        /\ Goto(w, "complete")
        /\ UNCHANGED <<vars, batch, localQueue, task, readers, writers, stop>>

Complete(w) ==
    /\ \/ /\ pc[w] = "complete"
          /\ BeginCompletion(task[w])
          /\ Goto(w, "completing")
       \/ /\ pc[w] = "completing"
          /\ \E r \in Seqs : \/ UpdateReadyFiles(r)
                             \/ \E t \in TableIds : UpdateReadyTables(t, r)
          /\ UNCHANGED pc
       \/ /\ pc[w] = "completing"
          /\ FinishCompletion(task[w])
          /\ Goto(w, "retire")
       \/ /\ pc[w] = "retire"
          /\ Retire(task[w])
          /\ Goto(w, "unlock")
    /\ UNCHANGED <<batch, localQueue, task, readers, writers, dataVars, stop>>

Release(w) ==
    LET s == task[w]
    IN  /\ pc[w] = "unlock"
        /\ CASE getQueryKind(query[s].type) = "Write" ->
                   Locks!unlockX(w, item[s].target)
             [] getQueryKind(query[s].type) = "Read" ->
                   Locks!unlockS(w, item[s].target)
             [] OTHER -> UNCHANGED <<readers, writers>>
        /\ task' = [task EXCEPT ![w] = 0]
        /\ Goto(w, "work")
        /\ UNCHANGED <<vars, batch, localQueue, dataVars, stop>>

\* worker_loop sees the stop request between two rounds.
Exit(w) ==
    /\ pc[w] = "work" /\ stop
    /\ Goto(w, "exit")
    /\ UNCHANGED <<vars, batch, localQueue, task, readers, writers, dataVars, stop>>

WorkerStep(w) == \/ Work(w) \/ FetchNext(w) \/ Push(w) \/ Acquire(w) \/ Execute(w)
                 \/ Complete(w) \/ Release(w) \/ Exit(w)

\* The process has ended: every worker has left its loop.
Terminated == stop /\ (\A w \in Workers : pc[w] = "exit") /\ UNCHANGED dbVars

DBNext == \/ Submit \/ StartExecution \/ StopPool
          \/ \E w \in Workers : WorkerStep(w)
          \/ Terminated

DBSpec == DBInit /\ [][DBNext]_dbVars

\* The operating system runs every thread: the main thread, and each worker, goes
\* on when it can.
Fairness == /\ WF_dbVars(StartExecution)
            /\ WF_dbVars(StopPool)
            /\ \A w \in Workers : WF_dbVars(WorkerStep(w))

FairDBSpec == DBSpec /\ Fairness

-----------------------------------------------------------------------------
(* Properties.                                                             *)

\* Every variable of the thread pool, the locks and the data has its type.
DBTypeOK ==
    /\ TypeOK
    /\ pc \in [Workers -> {"work", "fetch", "fetching", "push", "lock", "execute",
                           "complete", "completing", "retire", "unlock", "exit"}]
    /\ batch \in [Workers -> Seq(Seqs)]
    /\ localQueue \in Seq(Seqs)
    /\ task \in [Workers -> 0 .. MaxQueries]
    /\ Locks!LockTypeOK
    /\ DOMAIN db \subseteq Tables
    /\ \A t \in DOMAIN db : db[t] \in Seq(Seqs)
    /\ disk \in [FileIds -> [table : TableIds, rows : Seq(Seqs)]]
    /\ \A s \in Seqs : Len(result[s]) <= 1
    /\ stop \in BOOLEAN

\* The program executed query by query, as the single-threaded mode does.
Serial ==
    LET after[k \in 0 .. submitted] ==
            IF k = 0 THEN Outcome(NoTables, InitialDisk, Silent)
            ELSE LET before == after[k - 1]
                 IN  Effect(query[k], k, before.db, before.disk)
    IN  after

\* Query q creates table t when it executes, if nothing has created it before ...
Creates(q, t) == q.newTable = t \/ (q.type = "Load" /\ Header[q.file] = t)

\* ... and q uses it, or creates it.
Names(q, t) == q.table = t \/ Creates(q, t)

\* The programs that the scheduler executes as the single-threaded mode does: they
\* do not LIST and end where they QUIT; a LOAD has nothing of its own priority but
\* LOADs before it; and what creates a table is the first query that names it.
Orderly(p) ==
    /\ \A i \in DOMAIN p : p[i].type # "List" /\ (p[i].type = "Quit" => i = Len(p))
    /\ \A i, j \in DOMAIN p : i < j =>
          /\ p[j].type = "Load" =>
                p[i].type = "Load" \/ classifyPriority(p[i].type) # classifyPriority("Load")
          /\ \A t \in Tables : Creates(p[j], t) => ~Names(p[i], t)

\* What every query shows is what it shows in the single-threaded mode, in whatever
\* order the workers execute the program (test/run.sh compares the two outputs).
SerialOutput ==
    \A s \in Seqs : result[s] # <<>> => result[s] = <<Serial[s].out>>

\* ... and so are the tables and the files in the end.
SerialFinalState ==
    stop => db = Serial[submitted].db /\ disk = Serial[submitted].disk

\* The tables whose rows query s reads, and those it changes, when it executes.
RowsRead(s) ==
    CASE item[s].dropped -> {}
      [] query[s].type = "List" -> Tables
      [] query[s].type \in ReadTypes \cup {"CopyTable"} -> {query[s].table}
      [] OTHER -> {}

RowsWritten(s) ==
    IF query[s].type \in WriteTypes \ {"Load", "CopyTable"} /\ ~item[s].dropped
    THEN {query[s].table} ELSE {}

\* While a worker changes the rows of a table, or destroys it, no other worker uses
\* them: the one lock a query takes covers every table whose rows it touches.
RaceFree ==
    \A v, w \in Workers :
        v # w /\ pc[v] = "execute" /\ pc[w] = "execute" =>
            RowsWritten(task[v]) \cap (RowsRead(task[w]) \cup RowsWritten(task[w])) = {}

\* A query that fetchNext has handed out is in the queue of the pool, in a worker's
\* batch or the task of a worker until its callback begins: none is lost, whichever
\* worker takes over what another has fetched.  Its promise is set once (a second
\* set_value throws), by the one worker that has it, and before the scheduler hears
\* that the query is finished.
ExecutedOnce ==
    /\ \A s \in Seqs :
          /\ owner[s] = "fetched" =>
                \/ s \in Range(localQueue)
                \/ \E w \in Workers : s \in Range(batch[w]) \/ task[w] = s
          /\ Finished(s) => result[s] # <<>>
    /\ \A w \in Workers : pc[w] \in {"lock", "execute"} => result[task[w]] = <<>>
    /\ \A v, w \in Workers : v # w /\ task[v] # 0 => task[v] # task[w]

\* Every submitted query gets its result and the process ends: no query is left in
\* the scheduler for ever, and no worker waits for ever on a table lock or on mu.
ProcessEnds == readyToFetch ~> \A w \in Workers : pc[w] = "exit"
=============================================================================
