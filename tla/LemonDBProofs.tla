---------------------------- MODULE LemonDBProofs ----------------------------
(***************************************************************************)
(* The thread pool, the locks and the data of module LemonDB, for every    *)
(* number of workers, every program and every file: the types; that no two *)
(* workers race for the rows of a table, since the one lock a query takes  *)
(* covers the rows it touches; that every query handed out is executed     *)
(* once; and that the scheduler keeps its promise under the workers.       *)
(*                                                                         *)
(* For every orderly program (Orderly): that its output, and the tables    *)
(* and files in the end, are those of the single-threaded mode.  The       *)
(* scheduler hands out the queries of a table in the order of the program, *)
(* each when the one before it is over (OrderInv), so a query finds its    *)
(* tables and its file as the single-threaded mode leaves them for it      *)
(* (SerialInv).                                                            *)
(***************************************************************************)
EXTENDS LemonDB, TaskQueueOrder, Induction, SequenceTheorems

-----------------------------------------------------------------------------
(* The pool and the scheduler.                                             *)

Places == {"work", "fetch", "fetching", "push", "lock", "execute", "complete",
           "completing", "retire", "unlock", "exit"}

\* A worker in one of these holds the lock of its task.
Guarded == {"execute", "complete", "completing", "retire", "unlock"}

\* The pool is well typed, and a worker that has left fetching has a task.
PoolInv ==
    /\ pc \in [Workers -> Places]
    /\ batch \in [Workers -> Seq(Seqs)]
    /\ localQueue \in Seq(Seqs)
    /\ task \in [Workers -> 0 .. MaxQueries]
    /\ \A w \in Workers : pc[w] \in Guarded \cup {"lock"} => task[w] \in Seqs

\* A worker's step is a step of the scheduler, or leaves it alone.
LEMMA DBStepsQueue == PoolInv /\ [DBNext]_dbVars => [Next]_vars
<1> SUFFICES ASSUME PoolInv, [DBNext]_dbVars PROVE [Next]_vars
  OBVIOUS
<1>1. CASE Submit
  BY <1>1 DEF Submit, Next
<1>2. CASE StartExecution
  BY <1>2 DEF StartExecution, Next
<1>3. CASE StopPool \/ Terminated \/ UNCHANGED dbVars
  BY <1>3 DEF StopPool, Terminated, dbVars
<1>4. ASSUME NEW w \in Workers, FetchNext(w) PROVE [Next]_vars
  BY <1>4 DEF FetchNext, Next
<1>5. ASSUME NEW w \in Workers, Complete(w) PROVE [Next]_vars
  <2>1. task[w] \in Seqs
    BY <1>5 DEF Complete, PoolInv, Guarded
  <2>2. CompletionStep
    BY <1>5, <2>1 DEF Complete, CompletionStep
  <2> QED
    BY <2>2 DEF Next
<1>6. ASSUME NEW w \in Workers,
             Work(w) \/ Push(w) \/ Acquire(w) \/ Execute(w) \/ Release(w) \/ Exit(w)
      PROVE  [Next]_vars
  BY <1>6 DEF Work, Push, TakeFrom, Acquire, Execute, Release, Exit
<1> QED
  BY <1>1, <1>2, <1>3, <1>4, <1>5, <1>6 DEF DBNext, WorkerStep

\* Under local_mutex_ a worker takes a task of the queue it sees, or none.
LEMMA TakeFromPool ==
    ASSUME PoolInv, NEW w \in Workers, NEW q \in Seq(Seqs),
           NEW otherwise \in {"fetch", "work"}, TakeFrom(w, q, otherwise)
    PROVE  PoolInv'
<1> USE DEF PoolInv, TakeFrom, Goto, Places, Guarded
<1>1. CASE q = <<>>
  <2>1. localQueue' \in Seq(Seqs) /\ batch' \in [Workers -> Seq(Seqs)]
    BY <1>1
  <2>2. pc' = [pc EXCEPT ![w] = otherwise] /\ task' = [task EXCEPT ![w] = 0]
    BY <1>1
  <2>3. 0 \in 0 .. MaxQueries
    BY ConstantTypes
  <2> QED
    BY <2>1, <2>2, <2>3
<1>2. CASE q # <<>>
  <2>1. Head(q) \in Seqs /\ Tail(q) \in Seq(Seqs)
    BY <1>2
  <2>2. Head(q) \in 0 .. MaxQueries
    BY <2>1, ConstantTypes DEF Seqs
  <2>3. localQueue' \in Seq(Seqs) /\ batch' \in [Workers -> Seq(Seqs)]
    BY <1>2, <2>1
  <2>4. pc' = [pc EXCEPT ![w] = "lock"] /\ task' = [task EXCEPT ![w] = Head(q)]
    BY <1>2
  <2> QED
    BY <2>1, <2>2, <2>3, <2>4
<1> QED
  BY <1>1, <1>2

\* The pool keeps its types.
LEMMA NextPool == PoolInv /\ [DBNext]_dbVars => PoolInv'
<1> SUFFICES ASSUME PoolInv, [DBNext]_dbVars PROVE PoolInv'
  OBVIOUS
<1>1. CASE UNCHANGED <<pc, batch, localQueue, task>>
  BY <1>1 DEF PoolInv
<1>2. ASSUME NEW w \in Workers, Work(w) PROVE PoolInv'
  BY <1>2, TakeFromPool DEF Work, PoolInv
<1>3. ASSUME NEW w \in Workers, Push(w) PROVE PoolInv'
  <2>1. localQueue \o batch[w] \in Seq(Seqs)
    BY DEF PoolInv
  <2> QED
    BY <1>3, <2>1, TakeFromPool DEF Push
<1>4. ASSUME NEW w \in Workers, FetchNext(w) PROVE PoolInv'
  <2> DEFINE got == {s \in Seqs : owner[s] # "fetched" /\ owner'[s] = "fetched"}
  <2>1. batch' \in [Workers -> Seq(Seqs)]
    <3>1. got # {} => (CHOOSE s \in got : TRUE) \in Seqs
      OBVIOUS
    <3>2. batch[w] \in Seq(Seqs)
      BY DEF PoolInv
    <3>3. batch' = [batch EXCEPT ![w] = IF got = {} THEN @
                                        ELSE Append(@, CHOOSE s \in got : TRUE)]
      BY <1>4 DEF FetchNext
    <3>4. got # {} => Append(batch[w], CHOOSE s \in got : TRUE) \in Seq(Seqs)
      BY <3>1, <3>2
    <3> HIDE DEF got
    <3> QED
      BY <3>2, <3>3, <3>4 DEF PoolInv
  <2>2. \E l \in {"fetching", "push", "fetch"} : pc' = [pc EXCEPT ![w] = l]
    BY <1>4 DEF FetchNext, Goto
  <2>3. localQueue' = localQueue /\ task' = task
    BY <1>4 DEF FetchNext
  <2> QED
    BY <2>1, <2>2, <2>3 DEF PoolInv, Places, Guarded
<1>5. ASSUME NEW w \in Workers, Acquire(w) \/ Execute(w) PROVE PoolInv'
  <2>1. \E l \in {"execute", "complete"} : pc' = [pc EXCEPT ![w] = l]
    BY <1>5 DEF Acquire, Execute, Goto
  <2>2. task[w] \in Seqs
    BY <1>5 DEF Acquire, Execute, PoolInv, Guarded
  <2>3. UNCHANGED <<batch, localQueue, task>>
    BY <1>5 DEF Acquire, Execute
  <2> QED
    BY <2>1, <2>2, <2>3 DEF PoolInv, Places, Guarded
<1>6. ASSUME NEW w \in Workers, Complete(w) PROVE PoolInv'
  <2>1. \/ pc' = pc
        \/ \E l \in {"completing", "retire", "unlock"} : pc' = [pc EXCEPT ![w] = l]
    BY <1>6 DEF Complete, Goto
  <2>2. task[w] \in Seqs
    BY <1>6 DEF Complete, PoolInv, Guarded
  <2>3. UNCHANGED <<batch, localQueue, task>>
    BY <1>6 DEF Complete
  <2> QED
    BY <2>1, <2>2, <2>3 DEF PoolInv, Places, Guarded
<1>7. ASSUME NEW w \in Workers, Release(w) PROVE PoolInv'
  <2>1. /\ pc' = [pc EXCEPT ![w] = "work"] /\ task' = [task EXCEPT ![w] = 0]
        /\ UNCHANGED <<batch, localQueue>>
    BY <1>7 DEF Release, Goto
  <2>2. 0 \in 0 .. MaxQueries
    BY ConstantTypes
  <2> QED
    BY <2>1, <2>2 DEF PoolInv, Places, Guarded
<1>8. ASSUME NEW w \in Workers, Exit(w) PROVE PoolInv'
  <2>1. pc' = [pc EXCEPT ![w] = "exit"] /\ UNCHANGED <<batch, localQueue, task>>
    BY <1>8 DEF Exit, Goto
  <2> QED
    BY <2>1 DEF PoolInv, Places, Guarded
<1>9. CASE Submit \/ StartExecution \/ StopPool \/ Terminated \/ UNCHANGED dbVars
  BY <1>1, <1>9 DEF Submit, StartExecution, StopPool, Terminated, dbVars, workerVars
<1> QED
  BY <1>2, <1>3, <1>4, <1>5, <1>6, <1>7, <1>8, <1>9 DEF DBNext, WorkerStep

\* The scheduler under the workers is module TaskQueue.
LEMMA PoolInvariant == DBSpec => [](TypeOK /\ PoolInv)
<1>1. DBInit => TypeOK /\ PoolInv
  <2> SUFFICES ASSUME DBInit PROVE TypeOK /\ PoolInv
    OBVIOUS
  <2>1. 0 \in 0 .. MaxQueries
    BY ConstantTypes
  <2> QED
    BY <2>1, InitType DEF DBInit, PoolInv, Places, Guarded
<1>2. TypeOK /\ PoolInv /\ [DBNext]_dbVars => (TypeOK /\ PoolInv)'
  BY DBStepsQueue, NextType, NextPool
<1> QED
  BY <1>1, <1>2, PTL DEF DBSpec

-----------------------------------------------------------------------------
(* The locks.                                                              *)

\* The queries that work on the table they name.
NamesTable(s) == query[s].type \notin NullTypes \cup {"List", "Load"}

\* The table that executeTask locks, noted at registration, is the one the query names.
TargetInv == \A s \in Seqs : NamesTable(s) => item[s].target = query[s].table

\* A table has one writer, or readers.
Exclusive ==
    \A t \in TableIds : \/ writers[t] = {}
                        \/ readers[t] = {} /\ \E w \in Workers : writers[t] = {w}

\* Worker w holds the lock its task needs.
Holds(w) ==
    /\ query[task[w]].type \in WriteTypes => w \in writers[item[task[w]].target]
    /\ query[task[w]].type \in ReadTypes => w \in readers[item[task[w]].target]

\* Only workers that are past Acquire and before Release are sure of a lock; what a
\* query locks cannot change any more, since registration is over.
GuardInv ==
    /\ Locks!LockTypeOK
    /\ Exclusive
    /\ \A w \in Workers : /\ pc[w] \notin {"work", "exit"} => readyToFetch
                          /\ pc[w] \in Guarded => Holds(w)

\* Registration notes the table of the query.
LEMMA RegistersTarget ==
    ASSUME TypeOK, TargetInv, NEW q \in Commands,
           \/ RegisterBarrier(q) \/ RegisterLoad(q) \/ RegisterDump(q)
           \/ RegisterDrop(q) \/ RegisterCopy(q) \/ RegisterOther(q)
    PROVE  TargetInv'
<1>1. PICK it, place :
         /\ RegisterItem(q, it, place)
         /\ q.type \in BarrierTypes \cup {"Load"} \/ it.target = q.table
  <2>1. CASE RegisterBarrier(q) \/ RegisterLoad(q)
    BY <2>1 DEF RegisterBarrier, RegisterLoad
  <2>2. NewItem(q.table).target = q.table
    BY DEF NewItem
  <2>3. ASSUME NEW it, Enqueue(q, it), it.target = q.table
        PROVE  RegisterItem(q, it, "queue")
    BY <2>3 DEF Enqueue
  <2>4. CASE RegisterDump(q)
    <3>1. PICK d, e : Enqueue(q, [NewItem(q.table) EXCEPT !.fileDep = d, !.tableDep = e])
      BY <2>4 DEF RegisterDump
    <3>2. [NewItem(q.table) EXCEPT !.fileDep = d, !.tableDep = e].target = q.table
      BY DEF NewItem
    <3> QED
      BY <2>3, <3>1, <3>2
  <2>5. CASE RegisterDrop(q)
    BY <2>2, <2>3, <2>5 DEF RegisterDrop, NewItem
  <2>6. CASE RegisterCopy(q)
    <3>1. PICK d, e : Enqueue(q, [NewItem(q.table) EXCEPT !.tableDep = d, !.dstDep = e])
      BY <2>6 DEF RegisterCopy
    <3>2. [NewItem(q.table) EXCEPT !.tableDep = d, !.dstDep = e].target = q.table
      BY DEF NewItem
    <3> QED
      BY <2>3, <3>1, <3>2
  <2>7. CASE RegisterOther(q)
    BY <2>2, <2>3, <2>7 DEF RegisterOther
  <2> QED
    BY <2>1, <2>4, <2>5, <2>6, <2>7
<1>2. submitted + 1 \in Seqs
  BY <1>1, ConstantTypes DEF RegisterItem, TypeOK, ClientTypeOK, Seqs
<1>3. /\ query' = [query EXCEPT ![submitted + 1] = q]
      /\ item' = [item EXCEPT ![submitted + 1] = it]
  BY <1>1 DEF RegisterItem
<1> QED
  BY <1>1, <1>2, <1>3
  DEF TargetInv, NamesTable, NullTypes, BarrierTypes, TypeOK, ClientTypeOK, ItemTypeOK

\* fetchNext changes neither the queries nor the items.
LEMMA FetchLeavesTargets ==
    FetchStep => query' = query /\ item' = item /\ readyToFetch' = readyToFetch
BY DEF FetchStep, FetchNothing, FetchBarrier, LoadWaits, FetchLoad, LoadWins,
       TableWaits, FetchTable, TableWins, FetchUnchanged, clientVars, itemVars, Launch

\* The callback changes the items it drops or releases, never what they lock.
LEMMA CompletionLeavesTargets ==
    ASSUME TypeOK, CompletionStep
    PROVE  /\ query' = query /\ readyToFetch' = readyToFetch
           /\ \A s \in Seqs : item'[s].target = item[s].target
<1> USE DEF TypeOK, ItemTypeOK
<1> SUFFICES ASSUME NEW s \in Seqs,
                    \/ BeginCompletion(s)
                    \/ UpdateReadyFiles(s)
                    \/ \E t \in TableIds : UpdateReadyTables(t, s)
                    \/ FinishCompletion(s)
                    \/ Retire(s)
             PROVE  /\ query' = query /\ readyToFetch' = readyToFetch
                    /\ \A q \in Seqs : item'[q].target = item[q].target
  BY DEF CompletionStep
<1>1. query' = query /\ readyToFetch' = readyToFetch
  BY DEF BeginCompletion, UpdateReadyFiles, UpdateReadyTables, ReadyUnchanged,
         FinishCompletion, Retire, clientVars
<1>2. CASE BeginCompletion(s)
  <2>1. item' = [q \in Seqs |-> IF q \in Stale(s) THEN [item[q] EXCEPT !.dropped = TRUE]
                                ELSE item[q]]
    BY <1>2 DEF BeginCompletion
  <2>2. \A q \in Seqs : item[q] \in Item
    OBVIOUS
  <2>3. \A q \in Seqs : [item[q] EXCEPT !.dropped = TRUE].target = item[q].target
    BY <2>2 DEF Item
  <2> QED
    BY <1>1, <2>1, <2>3
<1>3. CASE UpdateReadyFiles(s)
  <2>1. \/ item' = item
        \/ item' = [item EXCEPT ![s].tableId = fileTableName[query[s].file]]
    BY <1>3 DEF UpdateReadyFiles, ToTableWait, ToTableQueue
  <2>2. \A q \in Seqs : item[q] \in Item
    OBVIOUS
  <2> QED
    BY <1>1, <2>1, <2>2 DEF Item
<1>4. CASE \E t \in TableIds : UpdateReadyTables(t, s)
  BY <1>1, <1>4 DEF UpdateReadyTables, ToTableWait, ToTableQueue
<1>5. CASE FinishCompletion(s) \/ Retire(s)
  BY <1>1, <1>5 DEF FinishCompletion, Retire
<1> QED
  BY <1>2, <1>3, <1>4, <1>5

\* What the scheduler's steps do to the targets.
LEMMA NextTargets ==
    ASSUME TypeOK, TargetInv, [Next]_vars
    PROVE  /\ TargetInv'
           /\ readyToFetch => /\ readyToFetch' /\ query' = query
                              /\ \A s \in Seqs : item'[s].target = item[s].target
<1>1. CASE SubmitQuery
  <2>1. PICK q \in Commands :
           \/ RegisterBarrier(q) \/ RegisterLoad(q) \/ RegisterDump(q)
           \/ RegisterDrop(q) \/ RegisterCopy(q) \/ RegisterOther(q)
    BY <1>1 DEF SubmitQuery
  <2>2. TargetInv'
    BY <2>1, RegistersTarget
  <2>3. ~readyToFetch
    BY <2>1 DEF RegisterBarrier, RegisterLoad, RegisterDump, RegisterDrop, RegisterCopy,
                RegisterOther, Enqueue, RegisterItem
  <2> QED
    BY <2>2, <2>3
<1>2. CASE SetReady \/ UNCHANGED vars
  <2>1. query' = query /\ item' = item /\ (readyToFetch => readyToFetch')
    BY <1>2 DEF SetReady, vars, clientVars, itemVars
  <2> QED
    BY <2>1 DEF TargetInv, NamesTable
<1>3. CASE FetchStep
  BY <1>3, FetchLeavesTargets DEF TargetInv, NamesTable
<1>4. CASE CompletionStep
  BY <1>4, CompletionLeavesTargets DEF TargetInv, NamesTable
<1> QED
  BY <1>1, <1>2, <1>3, <1>4 DEF Next

\* A query is one a client may send, or not yet submitted.
QueriesKnown == \A s \in Seqs : query[s] \in Commands \cup {NoCommand}

LEMMA QueriesInvariant == DBSpec => []QueriesKnown
<1>1. DBInit => QueriesKnown
  BY DEF DBInit, Init, QueriesKnown
<1>2. TypeOK /\ QueriesKnown /\ [Next]_vars => QueriesKnown'
  <2> SUFFICES ASSUME TypeOK, QueriesKnown, [Next]_vars PROVE QueriesKnown'
    OBVIOUS
  <2>1. CASE SubmitQuery
    <3>1. PICK q \in Commands : query' = [query EXCEPT ![submitted + 1] = q]
      BY <2>1 DEF SubmitQuery, RegisterBarrier, RegisterLoad, RegisterDump, RegisterDrop,
                  RegisterCopy, RegisterOther, Enqueue, RegisterItem
    <3> QED
      BY <3>1 DEF QueriesKnown, TypeOK, ClientTypeOK
  <2>2. CASE ~SubmitQuery
    <3>1. query' = query
      BY <2>2, FetchLeavesTargets, CompletionLeavesTargets
      DEF Next, SetReady, vars, clientVars
    <3> QED
      BY <3>1 DEF QueriesKnown
  <2> QED
    BY <2>1, <2>2
<1> QED
  BY <1>1, <1>2, DBStepsQueue, PoolInvariant, PTL DEF DBSpec

\* The lock mode of a query, without the detour over getQueryKind.
LEMMA Kinds ==
    ASSUME NEW type
    PROVE  /\ getQueryKind(type) = "Write" <=> type \in WriteTypes
           /\ getQueryKind(type) = "Read" <=> type \in ReadTypes
<1>1. \A x \in ReadTypes : x \notin WriteTypes
  BY DEF ReadTypes, WriteTypes
<1>2. CASE type \in ReadTypes
  BY <1>1, <1>2 DEF getQueryKind
<1>3. CASE type \in WriteTypes
  BY <1>1, <1>3 DEF getQueryKind
<1>4. CASE type \notin ReadTypes \cup WriteTypes
  BY <1>4 DEF getQueryKind
<1> QED
  BY <1>2, <1>3, <1>4

\* Acquire takes one lock, in the query's mode, and Release gives it back.
LEMMA AcquireLocks ==
    ASSUME NEW w \in Workers, Acquire(w)
    PROVE  LET s == task[w]
           IN  \/ query[s].type \in WriteTypes /\ Locks!lockX(w, item[s].target)
               \/ query[s].type \in ReadTypes /\ Locks!lockS(w, item[s].target)
               \/ /\ query[s].type \notin WriteTypes \cup ReadTypes
                  /\ readers' = readers /\ writers' = writers
<1> DEFINE s == task[w]
<1>1. CASE getQueryKind(query[s].type) = "Write"
  BY <1>1, Kinds DEF Acquire
<1>2. CASE getQueryKind(query[s].type) = "Read"
  BY <1>2, Kinds DEF Acquire
<1>3. CASE getQueryKind(query[s].type) \notin {"Read", "Write"}
  BY <1>3, Kinds DEF Acquire
<1> QED
  BY <1>1, <1>2, <1>3

LEMMA ReleaseUnlocks ==
    ASSUME NEW w \in Workers, Release(w)
    PROVE  LET s == task[w]
           IN  \/ Locks!unlockX(w, item[s].target)
               \/ Locks!unlockS(w, item[s].target)
               \/ readers' = readers /\ writers' = writers
<1> DEFINE s == task[w]
<1>1. CASE getQueryKind(query[s].type) = "Write"
  BY <1>1 DEF Release
<1>2. CASE getQueryKind(query[s].type) = "Read"
  BY <1>2 DEF Release
<1>3. CASE getQueryKind(query[s].type) \notin {"Read", "Write"}
  BY <1>3 DEF Release
<1> QED
  BY <1>1, <1>2, <1>3

\* lockX and lockS keep the locks typed and exclusive, and so do the unlocks; nobody
\* else's lock is touched.
LEMMA LocksExclude ==
    ASSUME Locks!LockTypeOK, Exclusive, NEW w \in Workers, NEW i,
           \/ Locks!lockX(w, i) \/ Locks!lockS(w, i)
           \/ Locks!unlockX(w, i) \/ Locks!unlockS(w, i)
           \/ readers' = readers /\ writers' = writers
    PROVE  /\ Locks!LockTypeOK' /\ Exclusive'
           /\ \A v \in Workers \ {w}, t \in TableIds :
                 /\ v \in writers[t] => v \in writers'[t]
                 /\ v \in readers[t] => v \in readers'[t]
<1> USE DEF Locks!LockTypeOK, Exclusive
<1>1. CASE Locks!lockX(w, i)
  BY <1>1 DEF Locks!lockX
<1>2. CASE Locks!lockS(w, i)
  BY <1>2 DEF Locks!lockS
<1>3. CASE Locks!unlockX(w, i)
  BY <1>3 DEF Locks!unlockX
<1>4. CASE Locks!unlockS(w, i)
  BY <1>4 DEF Locks!unlockS
<1>5. CASE readers' = readers /\ writers' = writers
  BY <1>5
<1> QED
  BY <1>1, <1>2, <1>3, <1>4, <1>5

\* The locks of the workers past Acquire stay theirs.
LEMMA NextGuard ==
    TypeOK /\ PoolInv /\ TargetInv /\ GuardInv /\ [DBNext]_dbVars => GuardInv'
<1> SUFFICES ASSUME TypeOK, PoolInv, TargetInv, GuardInv, [DBNext]_dbVars
             PROVE  GuardInv'
  OBVIOUS
<1>1. readyToFetch => /\ readyToFetch' /\ query' = query
                      /\ \A s \in Seqs : item'[s].target = item[s].target
  BY DBStepsQueue, NextTargets
\* What a step of worker w must show.
<1>2. ASSUME NEW w \in Workers, readyToFetch,
             pc' = [pc EXCEPT ![w] = pc'[w]], task' = [task EXCEPT ![w] = task'[w]],
             Locks!LockTypeOK', Exclusive',
             \A v \in Workers \ {w}, t \in TableIds :
                /\ v \in writers[t] => v \in writers'[t]
                /\ v \in readers[t] => v \in readers'[t],
             pc'[w] \in Guarded => Holds(w)'
      PROVE  GuardInv'
  <2>1. ASSUME NEW v \in Workers, pc'[v] \in Guarded PROVE Holds(v)'
    <3>1. CASE v = w
      BY <1>2, <2>1, <3>1
    <3>2. CASE v # w
      <4>1. pc[v] \in Guarded /\ task'[v] = task[v] /\ task[v] \in Seqs
        BY <1>2, <2>1, <3>2 DEF PoolInv
      <4>2. item[task[v]].target \in TableIds
        BY <4>1 DEF TypeOK, ItemTypeOK, Item
      <4> QED
        BY <1>1, <1>2, <3>2, <4>1, <4>2 DEF GuardInv, Holds
    <3> QED
      BY <3>1, <3>2
  <2> QED
    BY <1>1, <1>2, <2>1 DEF GuardInv
<1>3. ASSUME NEW w \in Workers, Acquire(w) PROVE GuardInv'
  <2> DEFINE s == task[w]
  <2>1. /\ readyToFetch /\ s \in Seqs /\ item[s].target \in TableIds
        /\ pc' = [pc EXCEPT ![w] = "execute"] /\ task' = task
        /\ query' = query /\ item' = item
    BY <1>3 DEF Acquire, Goto, GuardInv, PoolInv, TypeOK, ItemTypeOK, Item, vars,
                clientVars, itemVars
  <2>2. \/ query[s].type \in WriteTypes /\ Locks!lockX(w, item[s].target)
        \/ query[s].type \in ReadTypes /\ Locks!lockS(w, item[s].target)
        \/ /\ query[s].type \notin WriteTypes \cup ReadTypes
           /\ readers' = readers /\ writers' = writers
    BY <1>3, AcquireLocks
  <2>3. /\ Locks!LockTypeOK' /\ Exclusive'
        /\ \A v \in Workers \ {w}, t \in TableIds :
              /\ v \in writers[t] => v \in writers'[t]
              /\ v \in readers[t] => v \in readers'[t]
    BY <2>2, LocksExclude DEF GuardInv
  <2>4. Holds(w)'
    <3>1. \A x \in ReadTypes : x \notin WriteTypes
      BY DEF ReadTypes, WriteTypes
    <3> QED
      BY <2>1, <2>2, <3>1 DEF Holds, Locks!lockX, Locks!lockS, GuardInv,
                              Locks!LockTypeOK
  <2> QED
    BY <1>2, <2>1, <2>3, <2>4 DEF PoolInv
<1>4. ASSUME NEW w \in Workers, Release(w) PROVE GuardInv'
  <2>1. /\ readyToFetch /\ pc' = [pc EXCEPT ![w] = "work"]
        /\ task' = [task EXCEPT ![w] = 0]
    BY <1>4 DEF Release, Goto, GuardInv
  <2>2. /\ Locks!LockTypeOK' /\ Exclusive'
        /\ \A v \in Workers \ {w}, t \in TableIds :
              /\ v \in writers[t] => v \in writers'[t]
              /\ v \in readers[t] => v \in readers'[t]
    BY <1>4, ReleaseUnlocks, LocksExclude DEF GuardInv
  <2> QED
    BY <1>2, <2>1, <2>2 DEF PoolInv, Guarded
<1>5. ASSUME NEW w \in Workers, Execute(w) \/ Complete(w) PROVE GuardInv'
  <2>1. /\ readyToFetch /\ pc[w] \in Guarded /\ task' = task
        /\ readers' = readers /\ writers' = writers
        /\ pc' = pc \/ \E l \in Guarded : pc' = [pc EXCEPT ![w] = l]
    BY <1>5 DEF Execute, Complete, Goto, GuardInv, Guarded
  <2>2. task[w] \in Seqs
    BY <2>1 DEF PoolInv
  <2>3. Holds(w)'
    BY <1>1, <2>1, <2>2 DEF GuardInv, Holds
  <2>4. Locks!LockTypeOK' /\ Exclusive'
    BY <2>1, LocksExclude DEF GuardInv
  <2> QED
    BY <1>2, <2>1, <2>3, <2>4 DEF PoolInv
<1>6. ASSUME NEW w \in Workers, Work(w) \/ Push(w) \/ FetchNext(w) PROVE GuardInv'
  <2>1. readyToFetch
    BY <1>6 DEF Work, Push, FetchNext, GuardInv
  <2>2. /\ readers' = readers /\ writers' = writers
        /\ task' = [task EXCEPT ![w] = task'[w]]
        /\ \E l \in {"lock", "fetch", "fetching", "push", "work"} :
              pc' = [pc EXCEPT ![w] = l]
    BY <1>6 DEF Work, Push, FetchNext, TakeFrom, Goto, PoolInv
  <2>3. Locks!LockTypeOK' /\ Exclusive'
    BY <2>2, LocksExclude DEF GuardInv
  <2> QED
    BY <1>2, <2>1, <2>2, <2>3 DEF PoolInv, Guarded
<1>7. ASSUME NEW w \in Workers, Exit(w) PROVE GuardInv'
  <2>1. /\ pc' = [pc EXCEPT ![w] = "exit"] /\ task' = task
        /\ readers' = readers /\ writers' = writers
        /\ query' = query /\ item' = item /\ readyToFetch' = readyToFetch
    BY <1>7 DEF Exit, Goto, vars, clientVars, itemVars
  <2> QED
    BY <2>1 DEF GuardInv, Exclusive, Locks!LockTypeOK, Holds, Guarded, PoolInv
<1>8. CASE Submit \/ StartExecution \/ StopPool \/ Terminated \/ UNCHANGED dbVars
  <2>1. /\ pc' = pc /\ task' = task /\ readers' = readers /\ writers' = writers
        /\ readyToFetch => readyToFetch'
    BY <1>1, <1>8 DEF Submit, StartExecution, StopPool, Terminated, dbVars, workerVars
  <2>2. Locks!LockTypeOK' /\ Exclusive'
    BY <2>1 DEF GuardInv, Exclusive, Locks!LockTypeOK
  <2>3. ASSUME NEW w \in Workers, pc[w] \in Guarded PROVE Holds(w)'
    <3>1. readyToFetch /\ task[w] \in Seqs /\ Holds(w)
      BY <2>3 DEF GuardInv, PoolInv, Guarded
    <3> QED
      BY <1>1, <2>1, <3>1 DEF Holds
  <2> QED
    BY <2>1, <2>2, <2>3 DEF GuardInv
<1> QED
  BY <1>3, <1>4, <1>5, <1>6, <1>7, <1>8 DEF DBNext, WorkerStep

LEMMA GuardInvariant == DBSpec => [](TargetInv /\ GuardInv)
<1>1. DBInit => TargetInv /\ GuardInv
  <2> SUFFICES ASSUME DBInit PROVE TargetInv /\ GuardInv
    OBVIOUS
  <2>1. \A s \in Seqs : ~NamesTable(s)
    BY DEF DBInit, Init, NamesTable, NoCommand, NullTypes
  <2> QED
    BY <2>1 DEF DBInit, TargetInv, GuardInv, Exclusive, Locks!LockInit,
                Locks!LockTypeOK, Guarded
<1>2. TypeOK /\ PoolInv /\ TargetInv /\ GuardInv /\ [DBNext]_dbVars
        => (TargetInv /\ GuardInv)'
  BY DBStepsQueue, NextTargets, NextGuard
<1> QED
  BY <1>1, <1>2, PoolInvariant, PTL DEF DBSpec

\* Two workers that execute at the same time do not touch the same rows when one of
\* them changes them.  LIST is the exception: it reads every table and locks none
\* (Database::printAllTable).
THEOREM RowsNeverRacedFor ==
    ASSUME \A c \in Commands : c.type # "List"
    PROVE  DBSpec => []RaceFree
<1>1. TypeOK /\ PoolInv /\ TargetInv /\ GuardInv /\ QueriesKnown => RaceFree
  <2> SUFFICES ASSUME TypeOK, PoolInv, TargetInv, GuardInv, QueriesKnown,
                      NEW v \in Workers, NEW w \in Workers, v # w,
                      pc[v] = "execute", pc[w] = "execute",
                      NEW t, t \in RowsWritten(task[v]),
                      t \in RowsRead(task[w]) \cup RowsWritten(task[w])
               PROVE  FALSE
    BY DEF RaceFree
  <2>1. /\ task[v] \in Seqs /\ task[w] \in Seqs
        /\ Holds(v) /\ Holds(w)
    BY DEF PoolInv, GuardInv, Guarded
  <2>2. /\ query[task[v]].type \in WriteTypes \ {"Load", "CopyTable"}
        /\ t = query[task[v]].table
    BY DEF RowsWritten
  <2>3. t = item[task[v]].target
    BY <2>1, <2>2 DEF TargetInv, NamesTable, WriteTypes, NullTypes
  <2>4. v \in writers[t]
    BY <2>1, <2>2, <2>3 DEF Holds
  <2>5. query[task[w]].type # "List"
    BY <2>1 DEF QueriesKnown, NoCommand
  <2>6. /\ query[task[w]].type \in (ReadTypes \cup WriteTypes) \ {"List", "Load"}
        /\ t = query[task[w]].table
    BY <2>5 DEF RowsRead, RowsWritten, ReadTypes, WriteTypes
  <2>7. t = item[task[w]].target
    BY <2>1, <2>6 DEF TargetInv, NamesTable, ReadTypes, WriteTypes, NullTypes
  <2>8. w \in writers[t] \cup readers[t]
    BY <2>1, <2>6, <2>7 DEF Holds
  <2>9. t \in TableIds
    BY <2>1, <2>7 DEF TypeOK, ItemTypeOK, Item
  <2> QED
    BY <2>4, <2>8, <2>9 DEF GuardInv, Exclusive
<1> QED
  BY <1>1, PoolInvariant, GuardInvariant, QueriesInvariant, PTL

-----------------------------------------------------------------------------
(* The data.                                                               *)

Content == [table : TableIds, rows : Seq(Seqs)]

DatabaseOK(tables) ==
    DOMAIN tables \subseteq Tables /\ \A t \in DOMAIN tables : tables[t] \in Seq(Seqs)

DataInv ==
    /\ DatabaseOK(db)
    /\ disk \in [FileIds -> Content]
    /\ result = [s \in Seqs |-> result[s]]
    /\ \A s \in Seqs : result[s] = <<>> \/ \E out : result[s] = <<out>>
    /\ stop \in BOOLEAN

\* Giving a table its rows, new or not, keeps the database typed.
LEMMA PutType ==
    ASSUME NEW tables, DatabaseOK(tables), NEW t \in Tables, NEW rows \in Seq(Seqs)
    PROVE  DatabaseOK(Put(tables, t, rows))
BY DEF DatabaseOK, Put

\* A query, or its override, leaves typed tables and files, whatever it finds.
LEMMA EffectType ==
    ASSUME NEW q \in Commands \cup {NoCommand}, NEW s \in Seqs,
           NEW tables, DatabaseOK(tables), NEW files \in [FileIds -> Content]
    PROVE  /\ DatabaseOK(Effect(q, s, tables, files).db)
           /\ Effect(q, s, tables, files).disk \in [FileIds -> Content]
<1> DEFINE OK(o) == DatabaseOK(o.db) /\ o.disk \in [FileIds -> Content]
<1> DEFINE r == Effect(q, s, tables, files)
<1>1. q \in Command
  BY ConstantTypes
<1>2. q.file \in FileIds /\ q.table \in TableIds
  BY <1>1 DEF Command
<1>3. /\ NoContent \in Content /\ files[q.file] \in Content
      /\ \A t \in DOMAIN tables : [table |-> t, rows |-> tables[t]] \in Content
  BY <1>2, ConstantTypes DEF NoContent, Content, DatabaseOK, TableIds
<1>4. \A out : OK(Outcome(tables, files, out))
  BY DEF Outcome
<1>5. \A t \in Tables, rows \in Seq(Seqs) :
        \A out : OK(Outcome(Put(tables, t, rows), files, out))
  BY PutType DEF Outcome
<1>6. OK(LoadTable(q, tables, files))
  <2>1. files[q.file].table # Control => files[q.file].table \in Tables
    BY <1>3 DEF Content, TableIds
  <2>2. files[q.file].rows \in Seq(Seqs)
    BY <1>3 DEF Content
  <2> HIDE DEF OK
  <2> QED
    BY <1>4, <1>5, <2>1, <2>2 DEF LoadTable
<1>7. OK(DumpTable(q, tables, files))
  <2> DEFINE c == IF q.table \in DOMAIN tables
                  THEN [table |-> q.table, rows |-> tables[q.table]] ELSE NoContent
  <2>1. c \in Content
    BY <1>3
  <2> HIDE DEF c
  <2>2. [files EXCEPT ![q.file] = c] \in [FileIds -> Content]
    BY <2>1
  <2>3. DumpTable(q, tables, files) = Outcome(tables, [files EXCEPT ![q.file] = c], Silent)
    BY DEF DumpTable, c
  <2> QED
    BY <2>2, <2>3 DEF Outcome
<1>8. OK(DropTable(q, tables, files))
  BY DEF DropTable, Outcome, Restrict, DatabaseOK
<1>9. ASSUME q.type = "CopyTable" PROVE OK(CopyTable(q, tables, files))
  <2>1. q.newTable \in Tables
    BY <1>9, CommandsAssumption DEF NoCommand
  <2>2. q.table \in DOMAIN tables => tables[q.table] \in Seq(Seqs)
    BY DEF DatabaseOK
  <2> HIDE DEF OK
  <2> QED
    BY <1>4, <1>5, <2>1, <2>2 DEF CopyTable
<1>10. OK(TruncateTable(q, tables, files))
  <2>1. q.table \in DOMAIN tables => q.table \in Tables
    BY DEF DatabaseOK
  <2>2. <<>> \in Seq(Seqs)
    OBVIOUS
  <2> HIDE DEF OK
  <2> QED
    BY <1>4, <1>5, <2>1, <2>2 DEF TruncateTable
<1>11. OK(WriteRows(q, s, tables, files))
  <2>1. q.table \in DOMAIN tables =>
           q.table \in Tables /\ Append(tables[q.table], s) \in Seq(Seqs)
    BY DEF DatabaseOK
  <2> HIDE DEF OK
  <2> QED
    BY <1>4, <1>5, <2>1 DEF WriteRows
<1>12. OK(ReadRows(q, tables, files)) /\ OK(ListTables(tables, files))
  BY <1>4 DEF ReadRows, ListTables
<1>13. OK(r)
  <2>1. CASE q.type = "Load"
    <3>1. r = LoadTable(q, tables, files)
      BY <2>1 DEF Effect, NullTypes, WriteTypes
    <3> QED
      BY <1>6, <3>1
  <2>2. CASE q.type = "Dump"
    <3>1. r = DumpTable(q, tables, files)
      BY <2>2 DEF Effect, NullTypes, WriteTypes
    <3> QED
      BY <1>7, <3>1
  <2>3. CASE q.type = "Drop"
    <3>1. r = DropTable(q, tables, files)
      BY <2>3 DEF Effect, NullTypes, WriteTypes
    <3> QED
      BY <1>8, <3>1
  <2>4. CASE q.type = "CopyTable"
    <3>1. r = CopyTable(q, tables, files)
      BY <2>4 DEF Effect, NullTypes, WriteTypes
    <3> QED
      BY <1>9, <2>4, <3>1
  <2>5. CASE q.type = "Truncate"
    <3>1. r = TruncateTable(q, tables, files)
      BY <2>5 DEF Effect, NullTypes, WriteTypes
    <3> QED
      BY <1>10, <3>1
  <2>6. CASE q.type = "List"
    <3>1. r = ListTables(tables, files)
      BY <2>6 DEF Effect, NullTypes, WriteTypes
    <3> QED
      BY <1>12, <3>1
  <2>7. CASE q.type \in NullTypes
    <3>1. r = Outcome(tables, files, Silent)
      BY <2>7 DEF Effect, NullTypes, WriteTypes
    <3> QED
      BY <1>4, <3>1
  <2>8. CASE q.type \in WriteTypes \ {"Load", "Drop", "CopyTable", "Truncate"}
    <3>1. r = WriteRows(q, s, tables, files)
      BY <2>8 DEF Effect, NullTypes, WriteTypes
    <3> QED
      BY <1>11, <3>1
  <2>9. CASE q.type \in ReadTypes \ {"Dump", "List"}
    <3>1. r = ReadRows(q, tables, files)
      BY <2>9 DEF Effect, NullTypes, WriteTypes, ReadTypes
    <3> QED
      BY <1>12, <3>1
  <2>10. q.type \in ReadTypes \cup WriteTypes \cup NullTypes
    BY <1>1 DEF Command, QueryTypes
  <2> HIDE DEF OK, r
  <2> QED
    BY <2>1, <2>2, <2>3, <2>4, <2>5, <2>6, <2>7, <2>8, <2>9, <2>10
<1> QED
  BY <1>13

\* Only Execute changes tables and files; a promise is set to one value.
LEMMA NextData == PoolInv /\ QueriesKnown /\ DataInv /\ [DBNext]_dbVars => DataInv'
<1> SUFFICES ASSUME PoolInv, QueriesKnown, DataInv, [DBNext]_dbVars PROVE DataInv'
  OBVIOUS
<1>1. CASE UNCHANGED <<db, disk, result>> /\ stop' \in BOOLEAN
  BY <1>1 DEF DataInv
<1>2. ASSUME NEW w \in Workers, Execute(w) PROVE DataInv'
  <2> DEFINE s == task[w]
             r == IF item[s].dropped THEN Outcome(db, disk, Silent)
                  ELSE Effect(query[s], s, db, disk)
  <2>1. s \in Seqs /\ query[s] \in Commands \cup {NoCommand}
    BY <1>2 DEF Execute, PoolInv, Guarded, QueriesKnown
  <2>2. DatabaseOK(db) /\ disk \in [FileIds -> Content]
    BY DEF DataInv
  <2>3. DatabaseOK(r.db) /\ r.disk \in [FileIds -> Content]
    <3>1. CASE item[s].dropped
      BY <2>2, <3>1 DEF Outcome
    <3>2. CASE ~item[s].dropped
      BY <2>1, <2>2, <3>2, EffectType
    <3> QED
      BY <3>1, <3>2
  <2>4. /\ db' = r.db /\ disk' = r.disk /\ stop' = stop
        /\ result' = [result EXCEPT ![s] = <<r.out>>]
    BY <1>2 DEF Execute
  <2> HIDE DEF r
  <2> QED
    BY <2>3, <2>4 DEF DataInv
<1>3. ASSUME NEW w \in Workers, FetchNext(w) PROVE DataInv'
  <2>1. /\ UNCHANGED <<db, disk, stop>>
        /\ result' = [s \in Seqs |-> IF owner[s] # "broken" /\ owner'[s] = "broken"
                                     THEN <<Silent>> ELSE result[s]]
    BY <1>3 DEF FetchNext
  <2> QED
    BY <2>1 DEF DataInv
<1>4. ASSUME NEW w \in Workers,
             Work(w) \/ Push(w) \/ Acquire(w) \/ Complete(w) \/ Release(w) \/ Exit(w)
      PROVE  DataInv'
  <2>1. UNCHANGED <<db, disk, result, stop>>
    BY <1>4 DEF Work, Push, TakeFrom, Acquire, Complete, Release, Exit, dataVars
  <2> QED
    BY <1>1, <2>1 DEF DataInv
<1>5. CASE Submit \/ StartExecution \/ StopPool \/ Terminated \/ UNCHANGED dbVars
  <2>1. UNCHANGED <<db, disk, result>> /\ (stop' = stop \/ stop' = TRUE)
    BY <1>5 DEF Submit, StartExecution, StopPool, Terminated, dbVars, dataVars
  <2> QED
    BY <1>1, <2>1 DEF DataInv
<1> QED
  BY <1>2, <1>3, <1>4, <1>5 DEF DBNext, WorkerStep

LEMMA DataInvariant == DBSpec => []DataInv
<1>1. DBInit => DataInv
  <2> SUFFICES ASSUME DBInit PROVE DataInv
    OBVIOUS
  <2>1. DatabaseOK(db)
    BY DEF DBInit, NoTables, DatabaseOK
  <2>2. disk \in [FileIds -> Content]
    BY HeaderAssumption DEF DBInit, InitialDisk, Content
  <2>3. /\ result = [s \in Seqs |-> result[s]] /\ stop \in BOOLEAN
        /\ \A s \in Seqs : result[s] = <<>>
    BY DEF DBInit
  <2> QED
    BY <2>1, <2>2, <2>3 DEF DataInv
<1> QED
  BY <1>1, NextData, PoolInvariant, QueriesInvariant, PTL DEF DBSpec

\* The pool, the locks, the tables and the files keep their types: whatever file LOAD
\* reads, and whatever the workers do, a table that exists is one of Tables, and a
\* worker that executes has a task.
THEOREM DBTypeCorrect == DBSpec => []DBTypeOK
<1>1. TypeOK /\ PoolInv /\ GuardInv /\ DataInv => DBTypeOK
  <2> SUFFICES ASSUME TypeOK, PoolInv, GuardInv, DataInv PROVE DBTypeOK
    OBVIOUS
  <2>1. \A s \in Seqs : Len(result[s]) <= 1
    <3> SUFFICES ASSUME NEW s \in Seqs PROVE Len(result[s]) <= 1
      OBVIOUS
    <3>1. CASE result[s] = <<>>
      BY <3>1
    <3>2. ASSUME NEW out, result[s] = <<out>> PROVE Len(result[s]) <= 1
      BY <3>2
    <3> QED
      BY <3>1, <3>2 DEF DataInv
  <2> QED
    BY <2>1 DEF DBTypeOK, PoolInv, GuardInv, DataInv, DatabaseOK, Places, Content
<1> QED
  BY <1>1, PoolInvariant, GuardInvariant, DataInvariant, PTL

-----------------------------------------------------------------------------
(* Who has a query that was handed out.                                    *)

\* The query is still in the hands of the scheduler.
Early == QueuedPlaces \cup {"client"}

\* Seen from the pool the step leaves the query where it is.
StageKept(s) == \/ owner'[s] = owner[s]
                \/ owner[s] \in Early /\ owner'[s] \in Early

\* No other query has its callback than the current one, before a step and after it.
LEMMA CallbackKept ==
    ASSUME TypeOK, Ownership, Ownership', Moves({}),
           mu' = "completing" => mu = "completing" /\ current' = current
    PROVE  \A s \in Seqs : StageKept(s)
<1> SUFFICES ASSUME NEW s \in Seqs PROVE StageKept(s)
  OBVIOUS
<1>1. SameStage(s)
  BY DEF Moves
<1>2. CASE owner[s] = "fetched" /\ owner'[s] = "completing"
  <2>1. s \in Owned("completing")'
    BY <1>2 DEF Owned
  <2>2. mu' = "completing" /\ s = current'
    BY <2>1 DEF Ownership, CallbackOwned
  <2>3. s \in Owned("completing")
    BY <2>2 DEF Ownership, CallbackOwned
  <2> QED
    BY <1>2, <2>3 DEF Owned
<1> QED
  BY <1>1, <1>2 DEF SameStage, StageKept, Early

\* Registration and the opening of the queue.
LEMMA ClientKeepsStages ==
    ASSUME TypeOK, Ownership, SubmitQuery \/ SetReady \/ UNCHANGED vars
    PROVE  \A s \in Seqs : StageKept(s)
<1>1. CASE SubmitQuery
  BY <1>1, SubmitShape DEF StageKept, Early, QueuedPlaces
<1>2. CASE SetReady \/ UNCHANGED vars
  <2>1. owner' = owner
    BY <1>2 DEF SetReady, vars, itemVars
  <2> QED
    BY <2>1 DEF StageKept
<1> QED
  BY <1>1, <1>2

\* fetchNext hands out one query at most, and breaks loads of the load queue.
LEMMA FetchStages ==
    ASSUME TypeOK, Ownership, FetchStep
    PROVE  \E lost, handed \in SUBSET Seqs :
              /\ lost \cap handed = {}
              /\ \A s \in lost : owner[s] \in Early /\ owner'[s] = "broken"
              /\ \A s \in handed : owner[s] \in Early /\ owner'[s] = "fetched"
              /\ \A s \in Seqs \ (lost \cup handed) : StageKept(s)
              /\ \A s, r \in handed : s = r
<1>1. PICK lost \in SUBSET Seqs : Moves(lost) \/ \E x \in Seqs : HandsOut(x, lost)
  BY FetchShape
<1>2. \A s \in lost : owner[s] \in Early /\ owner'[s] = "broken"
  BY <1>1 DEF Moves, HandsOut, Breaks, Early, QueuedPlaces
<1>3. ASSUME NEW x \in Seqs, HandsOut(x, lost)
      PROVE  /\ {x} \in SUBSET Seqs /\ lost \cap {x} = {}
             /\ \A s \in {x} : owner[s] \in Early /\ owner'[s] = "fetched"
             /\ \A s \in Seqs \ (lost \cup {x}) : StageKept(s)
  BY <1>3 DEF HandsOut, Early, QueuedPlaces, StageKept
<1>4. ASSUME Moves(lost)
      PROVE  \A s \in Seqs \ lost : StageKept(s)
  <2>1. mu' # "completing"
    BY DEF FetchStep, FetchNothing, FetchBarrier, LoadWaits, FetchLoad, TableWaits,
           FetchTable, Launch
  <2>2. \A s \in Seqs : owner'[s] # "completing"
    <3>1. Ownership'
      BY FetchOwned
    <3> QED
      BY <2>1, <3>1 DEF Ownership, CallbackOwned, Owned
  <2>3. \A s \in Seqs \ lost : SameStage(s)
    BY <1>4 DEF Moves
  <2> QED
    BY <2>2, <2>3 DEF SameStage, StageKept, Early
<1>5. CASE Moves(lost)
  <2>1. {} \in SUBSET Seqs /\ lost \cap {} = {}
    OBVIOUS
  <2> QED
    BY <1>2, <1>4, <1>5, <2>1
<1>6. CASE \E x \in Seqs : HandsOut(x, lost)
  BY <1>2, <1>3, <1>6
<1> QED
  BY <1>1, <1>5, <1>6

\* The callback of s takes s from its worker and moves nothing else in the pool's
\* sight ...
LEMMA BeginStages ==
    ASSUME TypeOK, Ownership, NEW s \in Seqs, BeginCompletion(s)
    PROVE  /\ owner[s] = "fetched" /\ owner'[s] = "completing"
           /\ \A q \in Seqs \ {s} : StageKept(q)
<1>1. owner[s] = "fetched" /\ mu' = "completing" /\ current' = s
  BY DEF BeginCompletion
<1>2. Moves({}) /\ owner'[s] = "completing"
  BY BeginShape
<1>3. Owned("completing")' = {s}
  <2>1. Ownership'
    BY CompletionOwned DEF CompletionStep
  <2> QED
    BY <1>1, <2>1 DEF Ownership, CallbackOwned
<1>4. ASSUME NEW q \in Seqs \ {s} PROVE StageKept(q)
  <2>1. SameStage(q)
    BY <1>2 DEF Moves
  <2>2. owner'[q] # "completing"
    BY <1>3 DEF Owned
  <2> QED
    BY <2>1, <2>2 DEF SameStage, StageKept, Early
<1> QED
  BY <1>1, <1>2, <1>4

\* ... nor does the release of the items that waited for s ...
LEMMA ReleaseStages ==
    ASSUME TypeOK, Ownership, NEW r \in Seqs,
           UpdateReadyFiles(r) \/ \E t \in TableIds : UpdateReadyTables(t, r)
    PROVE  \A s \in Seqs : StageKept(s)
<1>1. /\ mu = "completing" /\ mu' = mu /\ current' = current /\ running' = running
  BY DEF UpdateReadyFiles, UpdateReadyTables, ReadyUnchanged, countVars
<1>2. CompletionStep
  BY DEF CompletionStep
<1>3. Ownership'
  BY <1>2, CompletionOwned
<1>4. ASSUME NEW s \in Seqs, Advances(s, "completing", "notified", 0) PROVE FALSE
  <2>1. s = current
    BY <1>1, <1>4 DEF Advances, Ownership, CallbackOwned, Owned
  <2>2. owner'[s] = "completing"
    BY <1>1, <1>3, <2>1 DEF Ownership, CallbackOwned, Owned
  <2> QED
    BY <1>4, <2>2 DEF Advances
<1>5. ASSUME NEW s \in Seqs, Advances(s, "notified", "completed", -1) PROVE FALSE
  <2>1. running \in Int
    BY DEF TypeOK, CountTypeOK
  <2> QED
    BY <1>1, <1>5, <2>1 DEF Advances
<1>6. Moves({})
  BY <1>2, <1>4, <1>5, CompletionShape
<1> QED
  BY <1>1, <1>3, <1>6, CallbackKept

\* ... and the end of the callback and the counters concern s alone.
LEMMA EndStages ==
    ASSUME TypeOK, Ownership, NEW s \in Seqs, FinishCompletion(s) \/ Retire(s)
    PROVE  /\ FinishCompletion(s) => owner'[s] = "notified"
           /\ Retire(s) => owner'[s] = "completed"
           /\ \A q \in Seqs \ {s} : StageKept(q)
BY DEF FinishCompletion, Retire, StageKept, TypeOK, ItemTypeOK

\* What the queue of the pool, a batch and a task hold, they hold alone.
Apart ==
    /\ IsInjective(localQueue)
    /\ \A w \in Workers : /\ IsInjective(batch[w])
                          /\ Range(batch[w]) \cap Range(localQueue) = {}
                          /\ task[w] \notin Range(localQueue)
    /\ \A v, w \in Workers : /\ v # w => Range(batch[v]) \cap Range(batch[w]) = {}
                             /\ v # w /\ task[v] # 0 => task[v] # task[w]
                             /\ task[v] \notin Range(batch[w])

\* A worker has a batch only while it fetches, and a task only afterwards.
Busy ==
    \A w \in Workers :
        /\ batch[w] # <<>> => pc[w] \in {"fetch", "fetching", "push"}
        /\ task[w] # 0 <=> pc[w] \in Guarded \cup {"lock"}

\* Where the scheduler has the task of a worker.
OwnerAt(place) == CASE place = "completing" -> "completing"
                    [] place = "retire"     -> "notified"
                    [] place = "unlock"     -> "completed"
                    [] OTHER                -> "fetched"

Untouched(s) == owner[s] = "fetched" /\ result[s] = <<>>

HasIt(s) ==
    \/ s \in Range(localQueue)
    \/ \E w \in Workers : s \in Range(batch[w]) \/ task[w] = s

\* The promises follow the scheduler.
Promised ==
    /\ \A s \in Range(localQueue) : Untouched(s)
    /\ \A w \in Workers : \A s \in Range(batch[w]) : Untouched(s)
    /\ \A w \in Workers :
          task[w] # 0 => /\ owner[task[w]] = OwnerAt(pc[w])
                         /\ result[task[w]] = <<>> <=> pc[w] \in {"lock", "execute"}
    /\ \A s \in Seqs :
          /\ owner[s] = "fetched" => HasIt(s)
          /\ owner[s] \in {"completing", "notified", "completed", "broken"} =>
                result[s] # <<>>
          /\ owner[s] \in Early => result[s] = <<>>

HoldInv == Apart /\ Busy /\ Promised

LEMMA HoldImplies == TypeOK /\ PoolInv /\ HoldInv => ExecutedOnce
<1> SUFFICES ASSUME TypeOK, PoolInv, HoldInv PROVE ExecutedOnce
  OBVIOUS
<1>1. \A s \in Seqs : owner[s] = "fetched" => HasIt(s)
  BY DEF HoldInv, Promised
<1>2. \A s \in Seqs : Finished(s) => result[s] # <<>>
  BY DEF HoldInv, Promised, Finished
<1>3. \A w \in Workers : pc[w] \in {"lock", "execute"} => result[task[w]] = <<>>
  BY DEF HoldInv, Promised, Busy, Guarded
<1>4. \A v, w \in Workers : v # w /\ task[v] # 0 => task[v] # task[w]
  BY DEF HoldInv, Apart
<1> QED
  BY <1>1, <1>2, <1>3, <1>4 DEF ExecutedOnce, HasIt

-----------------------------------------------------------------------------
(* The steps of a worker.                                                  *)

\* Seen from the scheduler.
StagesKept == \A s \in Seqs : StageKept(s)

LEMMA StageFacts ==
    ASSUME NEW s \in Seqs, StageKept(s)
    PROVE  /\ owner'[s] \in Early <=> owner[s] \in Early
           /\ \A o \in {"fetched", "completing", "notified", "completed", "broken"} :
                 owner'[s] = o <=> owner[s] = o
BY DEF StageKept, Early, QueuedPlaces

\* What a worker does with the task it has leaves the other queries alone.
LEMMA TaskStep ==
    ASSUME PoolInv, HoldInv, NEW w \in Workers, NEW place \in Guarded,
           pc[w] \in Guarded \cup {"lock"},
           pc' = [pc EXCEPT ![w] = place], UNCHANGED <<localQueue, batch, task>>,
           \A s \in Seqs \ {task[w]} : StageKept(s) /\ result'[s] = result[s],
           owner'[task[w]] = OwnerAt(place),
           result'[task[w]] = <<>> <=> place = "execute"
    PROVE  HoldInv'
<1> DEFINE x == task[w]
<1>1. x \in Seqs /\ x # 0
  BY ConstantTypes DEF PoolInv, Seqs
<1>2. Apart'
  BY DEF HoldInv, Apart
<1>3. Busy'
  BY DEF HoldInv, Busy, PoolInv, Guarded
<1>4. \A v \in Workers \ {w} : task[v] # x /\ pc'[v] = pc[v]
  BY <1>1 DEF HoldInv, Apart, PoolInv
<1>5. pc'[w] = place
  BY DEF PoolInv
<1>6. x \notin Range(localQueue) /\ \A v \in Workers : x \notin Range(batch[v])
  BY DEF HoldInv, Apart
<1>7. /\ Range(localQueue) \subseteq Seqs
      /\ \A v \in Workers : Range(batch[v]) \subseteq Seqs
  BY DEF PoolInv, Range
<1>8. ASSUME NEW s \in Seqs \ {x}
      PROVE  /\ result'[s] = result[s]
             /\ owner'[s] \in Early <=> owner[s] \in Early
             /\ \A o \in {"fetched", "completing", "notified", "completed", "broken"} :
                   owner'[s] = o <=> owner[s] = o
  BY <1>8, StageFacts
<1>9. \A s \in Seqs : HasIt(s)' <=> HasIt(s)
  BY DEF HasIt
<1>10. OwnerAt(place) \in {"fetched", "completing", "notified", "completed"}
       /\ (place = "execute" => OwnerAt(place) = "fetched")
       /\ OwnerAt(place) \notin Early /\ OwnerAt(place) # "broken"
  BY DEF OwnerAt, Guarded, Early, QueuedPlaces
<1>11. (\A s \in Range(localQueue) : Untouched(s))'
  BY <1>6, <1>7, <1>8 DEF HoldInv, Promised, Untouched
<1>12. (\A v \in Workers : \A s \in Range(batch[v]) : Untouched(s))'
  BY <1>6, <1>7, <1>8 DEF HoldInv, Promised, Untouched
<1>13. ASSUME NEW v \in Workers, task[v] # 0
       PROVE  /\ owner'[task[v]] = OwnerAt(pc'[v])
              /\ result'[task[v]] = <<>> <=> pc'[v] \in {"lock", "execute"}
  <2>1. CASE v = w
    BY <1>5, <2>1 DEF Guarded
  <2>2. CASE v # w
    <3>1. task[v] \in Seqs \ {x} /\ pc'[v] = pc[v]
      BY <1>4, <1>13, <2>2 DEF PoolInv, HoldInv, Busy
    <3>2. OwnerAt(pc[v]) \in {"fetched", "completing", "notified", "completed"}
      BY DEF OwnerAt
    <3>3. /\ owner[task[v]] = OwnerAt(pc[v])
          /\ result[task[v]] = <<>> <=> pc[v] \in {"lock", "execute"}
      BY <1>13 DEF HoldInv, Promised
    <3> QED
      BY <1>8, <3>1, <3>2, <3>3
  <2> QED
    BY <2>1, <2>2
<1>14. ASSUME NEW s \in Seqs
       PROVE  /\ owner'[s] = "fetched" => HasIt(s)
              /\ owner'[s] \in {"completing", "notified", "completed", "broken"} =>
                    result'[s] # <<>>
              /\ owner'[s] \in Early => result'[s] = <<>>
  <2>1. CASE s = x
    <3>1. HasIt(s)
      BY <2>1 DEF HasIt
    <3> QED
      BY <1>10, <2>1, <3>1
  <2>2. CASE s # x
    BY <1>8, <2>2 DEF HoldInv, Promised
  <2> QED
    BY <2>1, <2>2
<1> QED
  BY <1>2, <1>3, <1>9, <1>11, <1>12, <1>13, <1>14 DEF HoldInv, Promised

\* A step that no worker's queue, batch or task notices.
LEMMA QuietStep ==
    ASSUME PoolInv, HoldInv, UNCHANGED <<localQueue, batch, task, result>>, StagesKept,
           \A w \in Workers : pc'[w] = pc[w] \/ (pc[w] = "work" /\ pc'[w] = "exit")
    PROVE  HoldInv'
<1>1. Apart'
  BY DEF HoldInv, Apart
<1>2. Busy'
  BY DEF HoldInv, Busy, Guarded
<1>3. /\ Range(localQueue) \subseteq Seqs
      /\ \A v \in Workers : Range(batch[v]) \subseteq Seqs
      /\ \A v \in Workers : task[v] # 0 => task[v] \in Seqs
  BY DEF PoolInv, Range, HoldInv, Busy
<1>4. ASSUME NEW s \in Seqs
      PROVE  /\ owner'[s] \in Early <=> owner[s] \in Early
             /\ \A o \in {"fetched", "completing", "notified", "completed", "broken"} :
                   owner'[s] = o <=> owner[s] = o
  BY StageFacts DEF StagesKept
<1>5. \A s \in Seqs : HasIt(s)' <=> HasIt(s)
  BY DEF HasIt
<1>6. (\A s \in Range(localQueue) : Untouched(s))'
  BY <1>3, <1>4 DEF HoldInv, Promised, Untouched
<1>7. (\A v \in Workers : \A s \in Range(batch[v]) : Untouched(s))'
  BY <1>3, <1>4 DEF HoldInv, Promised, Untouched
<1>8. ASSUME NEW v \in Workers, task[v] # 0
      PROVE  /\ owner'[task[v]] = OwnerAt(pc'[v])
             /\ result'[task[v]] = <<>> <=> pc'[v] \in {"lock", "execute"}
  <2>1. /\ owner[task[v]] = OwnerAt(pc[v])
        /\ result[task[v]] = <<>> <=> pc[v] \in {"lock", "execute"}
    BY <1>8 DEF HoldInv, Promised
  <2>2. pc'[v] = pc[v]
    BY <1>8 DEF HoldInv, Busy, Guarded
  <2>3. OwnerAt(pc[v]) \in {"fetched", "completing", "notified", "completed"}
    BY DEF OwnerAt
  <2> QED
    BY <1>3, <1>4, <1>8, <2>1, <2>2, <2>3
<1>9. ASSUME NEW s \in Seqs
      PROVE  /\ owner'[s] = "fetched" => HasIt(s)
             /\ owner'[s] \in {"completing", "notified", "completed", "broken"} =>
                   result'[s] # <<>>
             /\ owner'[s] \in Early => result'[s] = <<>>
  BY <1>4 DEF HoldInv, Promised
<1> QED
  BY <1>1, <1>2, <1>5, <1>6, <1>7, <1>8, <1>9 DEF HoldInv, Promised

\* After Release the worker has no task, and the scheduler has counted the task.
LEMMA ReleaseStep ==
    ASSUME PoolInv, HoldInv, NEW w \in Workers, Release(w)
    PROVE  HoldInv'
<1>1. /\ pc[w] = "unlock" /\ pc' = [pc EXCEPT ![w] = "work"]
      /\ task' = [task EXCEPT ![w] = 0]
      /\ UNCHANGED <<localQueue, batch, result>> /\ owner' = owner
  BY DEF Release, Goto, vars, itemVars, dataVars
<1>2. task[w] \in Seqs /\ owner[task[w]] = "completed"
  <2>1. task[w] # 0 /\ task[w] \in Seqs
    BY <1>1 DEF HoldInv, Busy, Guarded, PoolInv
  <2> QED
    BY <1>1, <2>1 DEF HoldInv, Promised, OwnerAt
<1>3. /\ 0 \notin Range(localQueue)
      /\ \A v \in Workers : 0 \notin Range(batch[v])
  <2>1. 0 \notin Seqs
    BY DEF Seqs
  <2> QED
    BY <2>1 DEF PoolInv, Range
<1>4. Apart'
  BY <1>1, <1>3 DEF HoldInv, Apart, PoolInv
<1>5. Busy'
  BY <1>1 DEF HoldInv, Busy, PoolInv, Guarded
<1>6. \A v \in Workers : task'[v] # 0 =>
         task'[v] = task[v] /\ pc'[v] = pc[v]
  BY <1>1 DEF PoolInv
<1>7. ASSUME NEW s \in Seqs, owner[s] = "fetched" PROVE HasIt(s)'
  <2>1. HasIt(s) /\ s # task[w]
    BY <1>2, <1>7 DEF HoldInv, Promised
  <2> QED
    BY <1>1, <2>1 DEF HasIt, PoolInv
<1> QED
  BY <1>1, <1>4, <1>5, <1>6, <1>7 DEF HoldInv, Promised, Untouched

\* One sequence behind another.
LEMMA ListsConcat ==
    ASSUME NEW A, NEW p \in Seq(A), NEW q \in Seq(A), IsInjective(p), IsInjective(q),
           Range(p) \cap Range(q) = {}
    PROVE  Lists(p \o q, Range(p) \cup Range(q))
<1> DEFINE r == p \o q
<1>1. /\ DOMAIN p = 1 .. Len(p) /\ Len(p) \in Nat
      /\ DOMAIN q = 1 .. Len(q) /\ Len(q) \in Nat
      /\ DOMAIN r = 1 .. Len(p) + Len(q)
      /\ \A i \in 1 .. Len(p) : r[i] = p[i]
      /\ \A i \in Len(p) + 1 .. Len(p) + Len(q) : r[i] = q[i - Len(p)]
  OBVIOUS
<1> HIDE DEF r
<1>2. ASSUME NEW i \in DOMAIN r
      PROVE  \/ i \in DOMAIN p /\ r[i] = p[i]
             \/ i > Len(p) /\ i - Len(p) \in DOMAIN q /\ r[i] = q[i - Len(p)]
  BY <1>1
<1>3. \A i \in DOMAIN p, j \in DOMAIN q : p[i] # q[j]
  BY DEF Range
<1>4. IsInjective(r)
  <2> SUFFICES ASSUME NEW i \in DOMAIN r, NEW j \in DOMAIN r, r[i] = r[j] PROVE i = j
    BY DEF IsInjective
  <2>1. i \in Int /\ j \in Int
    BY <1>1
  <2>2. CASE i \in DOMAIN p /\ r[i] = p[i]
    <3>1. j \in DOMAIN p /\ r[j] = p[j]
      BY <1>2, <1>3, <2>2
    <3> QED
      BY <2>2, <3>1 DEF IsInjective
  <2>3. CASE i > Len(p) /\ i - Len(p) \in DOMAIN q /\ r[i] = q[i - Len(p)]
    <3>1. j > Len(p) /\ j - Len(p) \in DOMAIN q /\ r[j] = q[j - Len(p)]
      BY <1>2, <1>3, <2>3
    <3>2. i - Len(p) = j - Len(p)
      BY <2>3, <3>1 DEF IsInjective
    <3> QED
      BY <1>1, <2>1, <3>2
  <2> QED
    BY <1>2, <2>2, <2>3
<1>5. Range(r) \subseteq Range(p) \cup Range(q)
  BY <1>2 DEF Range
<1>6. Range(p) \subseteq Range(r)
  BY <1>1 DEF Range
<1>7. Range(q) \subseteq Range(r)
  <2> SUFFICES ASSUME NEW j \in DOMAIN q PROVE q[j] \in Range(r)
    BY DEF Range
  <2>1. j + Len(p) \in Len(p) + 1 .. Len(p) + Len(q) /\ (j + Len(p)) - Len(p) = j
    BY <1>1
  <2>2. j + Len(p) \in DOMAIN r /\ r[j + Len(p)] = q[j]
    BY <1>1, <2>1
  <2> QED
    BY <2>2 DEF Range
<1> QED
  BY <1>4, <1>5, <1>6, <1>7 DEF Lists, r

\* A worker takes the front of the queue it sees, its own batch included.
LEMMA TakeStep ==
    ASSUME PoolInv, HoldInv, NEW w \in Workers, NEW q \in Seq(Seqs),
           pc[w] \in {"work", "push"}, NEW otherwise \in {"fetch", "work"},
           Lists(q, Range(localQueue) \cup Range(batch[w])),
           TakeFrom(w, q, otherwise)
    PROVE  HoldInv'
<1> DEFINE seen == Range(localQueue) \cup Range(batch[w])
<1>1. /\ batch' = [batch EXCEPT ![w] = <<>>]
      /\ result' = result /\ owner' = owner
  BY DEF TakeFrom, vars, itemVars, dataVars
<1>2. task[w] = 0 /\ \A s \in seen : Untouched(s)
  BY DEF HoldInv, Busy, Guarded, Promised
<1>3. /\ IsInjective(<<>>) /\ Range(<<>>) = {}
  BY DEF IsInjective, Range
<1>4. batch'[w] = <<>> /\ \A v \in Workers \ {w} : batch'[v] = batch[v]
  BY <1>1 DEF PoolInv
<1>5. /\ \A v \in Workers \ {w} : Range(batch[v]) \cap seen = {} /\ task[v] \notin seen
      /\ seen \subseteq Seqs
      /\ 0 \notin Seqs /\ \A v \in Workers : Range(batch[v]) \subseteq Seqs
  <2>1. \A v \in Workers : Range(batch[v]) \subseteq Seqs
    BY DEF PoolInv, Range
  <2>2. Range(localQueue) \subseteq Seqs
    BY DEF PoolInv, Range
  <2>3. 0 \notin Seqs
    BY DEF Seqs
  <2> QED
    BY <2>1, <2>2, <2>3 DEF HoldInv, Apart
<1>6. CASE q = <<>>
  <2>1. /\ localQueue' = <<>> /\ task' = [task EXCEPT ![w] = 0]
        /\ pc' = [pc EXCEPT ![w] = otherwise] /\ seen = {}
    BY <1>3, <1>6 DEF TakeFrom, Goto, Lists
  <2>2. task' = task
    BY <1>2, <2>1 DEF PoolInv
  <2>3. /\ IsInjective(localQueue') /\ Range(localQueue') = {}
        /\ IsInjective(batch'[w]) /\ Range(batch'[w]) = {}
    BY <1>3, <1>4, <2>1
  <2>4. Apart'
    BY <1>4, <2>2, <2>3 DEF HoldInv, Apart
  <2>5. Busy'
    BY <1>2, <1>4, <2>1, <2>2 DEF HoldInv, Busy, PoolInv, Guarded
  <2>6. \A v \in Workers : task[v] # 0 => pc'[v] = pc[v]
    BY <1>2, <2>1 DEF PoolInv
  <2>7. ASSUME NEW s \in Seqs, HasIt(s) PROVE HasIt(s)'
    BY <1>4, <2>1, <2>2, <2>7 DEF HasIt
  <2> QED
    BY <1>1, <1>4, <2>2, <2>3, <2>4, <2>5, <2>6, <2>7 DEF HoldInv, Promised, Untouched
<1>7. CASE q # <<>>
  <2> DEFINE x == Head(q)
  <2>1. /\ localQueue' = Tail(q) /\ task' = [task EXCEPT ![w] = x]
        /\ pc' = [pc EXCEPT ![w] = "lock"]
    BY <1>7 DEF TakeFrom, Goto
  <2>2. x \in seen /\ Lists(Tail(q), seen \ {x})
    BY <1>7, ListsTail
  <2>3. /\ task'[w] = x /\ pc'[w] = "lock"
        /\ \A v \in Workers \ {w} : task'[v] = task[v] /\ pc'[v] = pc[v]
    BY <2>1 DEF PoolInv
  <2> HIDE DEF x, seen
  <2>4. /\ IsInjective(localQueue') /\ Range(localQueue') = seen \ {x}
        /\ IsInjective(batch'[w]) /\ Range(batch'[w]) = {}
    BY <1>3, <1>4, <2>1, <2>2 DEF Lists
  <2>5. x \in Seqs /\ x # 0
    BY <1>5, <2>2
  <2>6. Apart'
    <3>1. \A v \in Workers : /\ IsInjective(batch'[v])
                             /\ Range(batch'[v]) \cap Range(localQueue') = {}
                             /\ task'[v] \notin Range(localQueue')
      BY <1>4, <1>5, <2>3, <2>4 DEF HoldInv, Apart
    <3>2. \A u, v \in Workers : u # v => Range(batch'[u]) \cap Range(batch'[v]) = {}
      BY <1>4, <2>4 DEF HoldInv, Apart
    <3>3. \A u, v \in Workers : task'[u] \notin Range(batch'[v])
      BY <1>4, <1>5, <2>2, <2>3, <2>4 DEF HoldInv, Apart
    <3>4. \A u, v \in Workers : u # v /\ task'[u] # 0 => task'[u] # task'[v]
      BY <1>5, <2>2, <2>3 DEF HoldInv, Apart
    <3> QED
      BY <2>4, <3>1, <3>2, <3>3, <3>4 DEF Apart
  <2>7. Busy'
    <3>1. ASSUME NEW v \in Workers
          PROVE  /\ batch'[v] # <<>> => pc'[v] \in {"fetch", "fetching", "push"}
                 /\ task'[v] # 0 <=> pc'[v] \in Guarded \cup {"lock"}
      BY <1>4, <2>3, <2>5 DEF HoldInv, Busy
    <3> QED
      BY <3>1 DEF Busy
  <2>8. Untouched(x) /\ \A s \in seen \ {x} : Untouched(s)
    BY <1>2, <2>2
  <2>9. ASSUME NEW s \in Seqs, HasIt(s) PROVE HasIt(s)'
    <3>1. CASE s \in seen
      BY <2>3, <2>4, <3>1 DEF HasIt
    <3>2. CASE s \notin seen
      <4>1. PICK v \in Workers \ {w} : s \in Range(batch[v]) \/ task[v] = s
        <5>1. s # task[w]
          BY <1>2, <1>5
        <5> QED
          BY <2>9, <3>2, <5>1 DEF HasIt, seen
      <4> QED
        BY <1>4, <2>3, <4>1 DEF HasIt
    <3> QED
      BY <3>1, <3>2
  <2>10. ASSUME NEW v \in Workers, task'[v] # 0
         PROVE  /\ owner[task'[v]] = OwnerAt(pc'[v])
                /\ result[task'[v]] = <<>> <=> pc'[v] \in {"lock", "execute"}
    <3>1. CASE v = w
      BY <2>3, <2>8, <3>1 DEF Untouched, OwnerAt
    <3>2. CASE v # w
      BY <2>3, <2>10, <3>2 DEF HoldInv, Promised
    <3> QED
      BY <3>1, <3>2
  <2>11. \A v \in Workers : \A s \in Range(batch'[v]) : Untouched(s)
    BY <1>4, <2>4 DEF HoldInv, Promised
  <2>12. \A s \in Seqs : Untouched(s)' <=> Untouched(s)
    BY <1>1 DEF Untouched
  <2>13. Promised'
    <3>1. \A s \in Range(localQueue') : Untouched(s)'
      BY <1>1, <2>4, <2>8 DEF Untouched
    <3>2. \A v \in Workers : \A s \in Range(batch'[v]) : Untouched(s)'
      BY <1>1, <2>11 DEF Untouched
    <3> QED
      BY <1>1, <2>9, <2>10, <3>1, <3>2 DEF HoldInv, Promised
  <2> QED
    BY <2>6, <2>7, <2>13 DEF HoldInv
<1> QED
  BY <1>6, <1>7

\* fetchNext appends what it hands out to the batch of the worker that called it.
LEMMA FetchHolds ==
    ASSUME TypeOK, Ownership, PoolInv, HoldInv, NEW w \in Workers, FetchNext(w)
    PROVE  HoldInv'
<1> DEFINE got == {s \in Seqs : owner[s] # "fetched" /\ owner'[s] = "fetched"}
<1>1. PICK lost, handed \in SUBSET Seqs :
         /\ lost \cap handed = {}
         /\ \A s \in lost : owner[s] \in Early /\ owner'[s] = "broken"
         /\ \A s \in handed : owner[s] \in Early /\ owner'[s] = "fetched"
         /\ \A s \in Seqs \ (lost \cup handed) : StageKept(s)
         /\ \A s, r \in handed : s = r
  BY FetchStages DEF FetchNext
<1>2. "fetched" \notin Early /\ "broken" \notin Early /\ "fetched" # "broken"
  BY DEF Early, QueuedPlaces
<1>3. ASSUME NEW s \in Seqs \ (lost \cup handed)
      PROVE  /\ owner'[s] \in Early <=> owner[s] \in Early
             /\ \A o \in {"fetched", "completing", "notified", "completed", "broken"} :
                   owner'[s] = o <=> owner[s] = o
  BY <1>1, <1>3, StageFacts
<1>4. got = handed
  BY <1>1, <1>2, <1>3
<1>5. /\ result' = [s \in Seqs |-> IF owner[s] # "broken" /\ owner'[s] = "broken"
                                   THEN <<Silent>> ELSE result[s]]
      /\ localQueue' = localQueue /\ task' = task
  BY DEF FetchNext
<1>6. /\ \A s \in lost : result'[s] # <<>>
      /\ \A s \in Seqs \ lost : result'[s] = result[s]
  <2>1. \A s \in Seqs \ lost : ~(owner[s] # "broken" /\ owner'[s] = "broken")
    BY <1>1, <1>2, <1>3
  <2>2. \A s \in lost : owner[s] # "broken" /\ owner'[s] = "broken"
    BY <1>1, <1>2
  <2> QED
    BY <1>5, <2>1, <2>2
<1>7. /\ pc[w] \in {"fetch", "fetching"} /\ task[w] = 0
      /\ \E l \in {"fetching", "push", "fetch"} : pc' = [pc EXCEPT ![w] = l]
  <2>1. pc[w] \in {"fetch", "fetching"}
    BY DEF FetchNext
  <2> QED
    BY <2>1 DEF FetchNext, Goto, HoldInv, Busy, Guarded
<1>8. /\ Range(localQueue) \subseteq Seqs
      /\ \A v \in Workers : Range(batch[v]) \subseteq Seqs
      /\ \A v \in Workers : task[v] # 0 => task[v] \in Seqs
  BY DEF PoolInv, Range, HoldInv, Busy
\* What was handed out before is neither lost nor handed out again.
<1>9. ASSUME NEW s \in Seqs, owner[s] \notin Early
      PROVE  s \notin lost \cup handed /\ result'[s] = result[s]
  BY <1>1, <1>6, <1>9
<1>10. /\ IsInjective(batch'[w]) /\ Range(batch'[w]) = Range(batch[w]) \cup handed
       /\ \A v \in Workers \ {w} : batch'[v] = batch[v]
  <2>1. batch' = [batch EXCEPT ![w] = IF got = {} THEN @
                                      ELSE Append(@, CHOOSE s \in got : TRUE)]
    BY DEF FetchNext
  <2>2. batch[w] \in Seq(Seqs) /\ Lists(batch[w], Range(batch[w]))
    BY DEF PoolInv, HoldInv, Apart, Lists
  <2>3. CASE handed = {}
    BY <1>4, <2>1, <2>2, <2>3 DEF PoolInv, Lists
  <2>4. CASE handed # {}
    <3> DEFINE x == CHOOSE s \in got : TRUE
    <3>1. x \in got
      BY <1>4, <2>4
    <3>2. handed = {x} /\ x \in Seqs /\ owner[x] # "fetched"
      BY <1>1, <1>4, <3>1
    <3>3. x \notin Range(batch[w])
      BY <3>2 DEF HoldInv, Promised, Untouched
    <3>4. batch' = [batch EXCEPT ![w] = Append(@, x)]
      BY <1>4, <2>1, <2>4
    <3> HIDE DEF x
    <3>5. Lists(Append(batch[w], x), Range(batch[w]) \cup {x})
      BY <2>2, <3>2, <3>3, ListsAppend
    <3> QED
      BY <3>2, <3>4, <3>5 DEF PoolInv, Lists
  <2> QED
    BY <2>3, <2>4
<1> HIDE DEF got
<1>11. \A s \in handed : /\ s \notin Range(localQueue)
                         /\ \A v \in Workers : s \notin Range(batch[v]) /\ task[v] # s
  <2>1. \A s \in handed : owner[s] \in Early /\ s # 0
    BY <1>1 DEF Seqs
  <2>2. \A v \in Workers : task[v] # 0 => owner[task[v]] \notin Early
    BY DEF HoldInv, Promised, OwnerAt, Early, QueuedPlaces
  <2> QED
    BY <1>2, <2>1, <2>2 DEF HoldInv, Promised, Untouched
<1>12. Apart'
  <2>1. \A v \in Workers : /\ IsInjective(batch'[v])
                           /\ Range(batch'[v]) \cap Range(localQueue) = {}
                           /\ task[v] \notin Range(localQueue)
    BY <1>10, <1>11 DEF HoldInv, Apart
  <2>2. \A u, v \in Workers : u # v => Range(batch'[u]) \cap Range(batch'[v]) = {}
    BY <1>10, <1>11 DEF HoldInv, Apart
  <2>3. \A u, v \in Workers : task[u] \notin Range(batch'[v])
    BY <1>10, <1>11 DEF HoldInv, Apart
  <2> QED
    BY <1>5, <2>1, <2>2, <2>3 DEF HoldInv, Apart
<1>13. Busy'
  <2>1. \A v \in Workers \ {w} : pc'[v] = pc[v] /\ batch'[v] = batch[v]
    BY <1>7, <1>10 DEF PoolInv
  <2>2. pc'[w] \in {"fetching", "push", "fetch"}
    BY <1>7 DEF PoolInv
  <2> QED
    BY <1>5, <1>7, <2>1, <2>2 DEF HoldInv, Busy, Guarded
<1>14. ASSUME NEW s \in Seqs, Untouched(s) PROVE Untouched(s)'
  BY <1>2, <1>3, <1>9, <1>14 DEF Untouched
<1>15. \A s \in handed : Untouched(s)'
  BY <1>1, <1>6 DEF Untouched, HoldInv, Promised
<1>16. \A v \in Workers : \A s \in Range(batch'[v]) : Untouched(s)'
  BY <1>8, <1>10, <1>14, <1>15 DEF HoldInv, Promised
<1>17. ASSUME NEW v \in Workers, task[v] # 0
       PROVE  /\ owner'[task[v]] = OwnerAt(pc'[v])
              /\ result'[task[v]] = <<>> <=> pc'[v] \in {"lock", "execute"}
  <2>1. /\ owner[task[v]] = OwnerAt(pc[v])
        /\ result[task[v]] = <<>> <=> pc[v] \in {"lock", "execute"}
    BY <1>17 DEF HoldInv, Promised
  <2>2. pc'[v] = pc[v] /\ task[v] \in Seqs
    BY <1>7, <1>8, <1>17 DEF PoolInv
  <2>3. /\ OwnerAt(pc[v]) \in {"fetched", "completing", "notified", "completed"}
        /\ OwnerAt(pc[v]) \notin Early
    BY DEF OwnerAt, Early, QueuedPlaces
  <2> QED
    BY <1>3, <1>9, <2>1, <2>2, <2>3
<1>18. ASSUME NEW s \in Seqs
       PROVE  /\ owner'[s] = "fetched" => HasIt(s)'
              /\ owner'[s] \in {"completing", "notified", "completed", "broken"} =>
                    result'[s] # <<>>
              /\ owner'[s] \in Early => result'[s] = <<>>
  <2>1. CASE s \in lost
    BY <1>1, <1>2, <1>6, <2>1
  <2>2. CASE s \in handed
    BY <1>1, <1>2, <1>10, <2>2 DEF HasIt
  <2>3. CASE s \notin lost \cup handed
    <3>1. result'[s] = result[s]
      BY <1>6, <2>3
    <3>2. HasIt(s) => HasIt(s)'
      BY <1>5, <1>10 DEF HasIt
    <3> QED
      BY <1>3, <2>3, <3>1, <3>2 DEF HoldInv, Promised
  <2> QED
    BY <2>1, <2>2, <2>3
<1>19. Promised'
  <2>1. \A s \in Range(localQueue') : Untouched(s)'
    BY <1>5, <1>8, <1>14 DEF HoldInv, Promised
  <2> QED
    BY <1>5, <1>16, <1>17, <1>18, <2>1 DEF Promised
<1> QED
  BY <1>12, <1>13, <1>19 DEF HoldInv

\* The callback, step by step.
LEMMA CompleteHolds ==
    ASSUME TypeOK, Ownership, PoolInv, HoldInv, NEW w \in Workers, Complete(w)
    PROVE  HoldInv'
<1>1. /\ pc[w] \in Guarded
      /\ UNCHANGED <<localQueue, batch, task>> /\ result' = result
  BY DEF Complete, dataVars, Guarded
<1>2. task[w] \in Seqs /\ task[w] # 0
  BY <1>1 DEF PoolInv, Seqs, HoldInv, Busy
<1>3. result[task[w]] # <<>> <=> pc[w] # "execute"
  BY <1>1, <1>2 DEF HoldInv, Promised, Guarded
<1>4. ASSUME NEW place \in {"completing", "retire", "unlock"},
             pc[w] # "execute", pc' = [pc EXCEPT ![w] = place],
             owner'[task[w]] = OwnerAt(place),
             \A q \in Seqs \ {task[w]} : StageKept(q)
      PROVE  HoldInv'
  <2>1. place \in Guarded /\ place # "execute"
    BY <1>4 DEF Guarded
  <2>2. result'[task[w]] = <<>> <=> place = "execute"
    BY <1>1, <1>3, <1>4, <2>1
  <2> QED
    BY <1>1, <1>4, <2>1, <2>2, TaskStep
<1>5. CASE pc[w] = "complete" /\ BeginCompletion(task[w]) /\ Goto(w, "completing")
  BY <1>2, <1>4, <1>5, BeginStages DEF Goto, OwnerAt
<1>6. CASE /\ pc[w] = "completing" /\ pc' = pc
           /\ \E r \in Seqs : \/ UpdateReadyFiles(r)
                              \/ \E t \in TableIds : UpdateReadyTables(t, r)
  <2>1. StagesKept
    BY <1>6, ReleaseStages DEF StagesKept
  <2> QED
    BY <1>1, <1>6, <2>1, QuietStep
<1>7. CASE pc[w] = "completing" /\ FinishCompletion(task[w]) /\ Goto(w, "retire")
  BY <1>2, <1>4, <1>7, EndStages DEF Goto, OwnerAt
<1>8. CASE pc[w] = "retire" /\ Retire(task[w]) /\ Goto(w, "unlock")
  BY <1>2, <1>4, <1>8, EndStages DEF Goto, OwnerAt
<1> QED
  BY <1>5, <1>6, <1>7, <1>8 DEF Complete

LEMMA NextHoldings ==
    TypeOK /\ Ownership /\ PoolInv /\ HoldInv /\ DataInv /\ [DBNext]_dbVars => HoldInv'
<1> SUFFICES ASSUME TypeOK, Ownership, PoolInv, HoldInv, DataInv, [DBNext]_dbVars
             PROVE  HoldInv'
  OBVIOUS
<1>1. ASSUME NEW w \in Workers, Work(w) PROVE HoldInv'
  <2>1. pc[w] = "work" /\ batch[w] = <<>> /\ TakeFrom(w, localQueue, "fetch")
    BY <1>1 DEF Work, HoldInv, Busy
  <2>2. localQueue \in Seq(Seqs) /\ IsInjective(localQueue) /\ Range(batch[w]) = {}
    BY <2>1 DEF PoolInv, HoldInv, Apart, Range
  <2>3. Lists(localQueue, Range(localQueue) \cup Range(batch[w]))
    BY <2>2 DEF Lists
  <2> QED
    BY <2>1, <2>2, <2>3, TakeStep
<1>2. ASSUME NEW w \in Workers, Push(w) PROVE HoldInv'
  <2> DEFINE q == localQueue \o batch[w]
  <2>1. /\ localQueue \in Seq(Seqs) /\ batch[w] \in Seq(Seqs)
        /\ IsInjective(localQueue) /\ IsInjective(batch[w])
        /\ Range(localQueue) \cap Range(batch[w]) = {}
    BY DEF PoolInv, HoldInv, Apart
  <2>2. q \in Seq(Seqs) /\ Lists(q, Range(localQueue) \cup Range(batch[w]))
    BY <2>1, ListsConcat
  <2>3. pc[w] = "push" /\ TakeFrom(w, q, "work")
    BY <1>2 DEF Push
  <2> HIDE DEF q
  <2> QED
    BY <2>2, <2>3, TakeStep
<1>3. ASSUME NEW w \in Workers, FetchNext(w) PROVE HoldInv'
  BY <1>3, FetchHolds
<1>4. ASSUME NEW w \in Workers, Acquire(w) PROVE HoldInv'
  <2>1. /\ pc[w] = "lock" /\ pc' = [pc EXCEPT ![w] = "execute"]
        /\ UNCHANGED <<localQueue, batch, task>> /\ result' = result /\ owner' = owner
    BY <1>4 DEF Acquire, Goto, vars, itemVars, dataVars
  <2>2. /\ owner[task[w]] = "fetched" /\ result[task[w]] = <<>>
    BY <2>1, ConstantTypes DEF HoldInv, Promised, Busy, OwnerAt
  <2>3. /\ "execute" \in Guarded /\ OwnerAt("execute") = "fetched"
        /\ \A s \in Seqs : StageKept(s)
    BY <2>1 DEF Guarded, OwnerAt, StageKept
  <2> QED
    BY <2>1, <2>2, <2>3, TaskStep
<1>5. ASSUME NEW w \in Workers, Execute(w) PROVE HoldInv'
  <2> DEFINE s == task[w]
             r == IF item[s].dropped THEN Outcome(db, disk, Silent)
                  ELSE Effect(query[s], s, db, disk)
  <2>1. /\ pc[w] = "execute" /\ pc' = [pc EXCEPT ![w] = "complete"]
        /\ UNCHANGED <<localQueue, batch, task>> /\ owner' = owner
        /\ result' = [result EXCEPT ![s] = <<r.out>>]
    BY <1>5 DEF Execute, Goto, vars, itemVars
  <2> HIDE DEF r
  <2>2. s \in Seqs /\ owner[s] = "fetched"
    BY <2>1 DEF HoldInv, Promised, Busy, OwnerAt, Guarded, PoolInv
  <2>3. /\ "complete" \in Guarded /\ OwnerAt("complete") = "fetched"
        /\ \A q \in Seqs : StageKept(q)
    BY <2>1 DEF Guarded, OwnerAt, StageKept
  <2>4. /\ \A q \in Seqs \ {s} : result'[q] = result[q]
        /\ result'[s] # <<>>
    BY <2>1, <2>2 DEF DataInv
  <2> QED
    BY <2>1, <2>2, <2>3, <2>4, TaskStep DEF Guarded
<1>6. ASSUME NEW w \in Workers, Complete(w) PROVE HoldInv'
  BY <1>6, CompleteHolds
<1>7. ASSUME NEW w \in Workers, Release(w) PROVE HoldInv'
  BY <1>7, ReleaseStep
<1>8. ASSUME NEW w \in Workers, Exit(w) PROVE HoldInv'
  <2>1. /\ pc[w] = "work" /\ pc' = [pc EXCEPT ![w] = "exit"]
        /\ UNCHANGED <<localQueue, batch, task>> /\ result' = result /\ owner' = owner
    BY <1>8 DEF Exit, Goto, vars, itemVars, dataVars
  <2>2. StagesKept
    BY <2>1 DEF StagesKept, StageKept
  <2>3. \A v \in Workers : pc'[v] = pc[v] \/ (pc[v] = "work" /\ pc'[v] = "exit")
    BY <2>1 DEF PoolInv
  <2> QED
    BY <2>1, <2>2, <2>3, QuietStep
<1>9. CASE Submit \/ StartExecution \/ StopPool \/ Terminated \/ UNCHANGED dbVars
  <2>1. /\ pc' = pc /\ UNCHANGED <<localQueue, batch, task>> /\ result' = result
        /\ SubmitQuery \/ SetReady \/ UNCHANGED vars
    BY <1>9 DEF Submit, StartExecution, StopPool, Terminated, dbVars, workerVars, dataVars
  <2>2. StagesKept
    BY <2>1, ClientKeepsStages DEF StagesKept
  <2> QED
    BY <2>1, <2>2, QuietStep
<1> QED
  BY <1>1, <1>2, <1>3, <1>4, <1>5, <1>6, <1>7, <1>8, <1>9 DEF DBNext, WorkerStep

\* The workers are clients of the scheduler and nothing more: whatever the scheduler
\* keeps (module TaskQueue and its theorems) it keeps under the thread pool.
THEOREM WorkersUseScheduler == DBSpec => Spec
<1>1. DBInit => Init
  BY DEF DBInit
<1> QED
  BY <1>1, DBStepsQueue, PoolInvariant, PTL DEF DBSpec, Spec

\* The pool keeps the promise of the scheduler: with any number of workers a query is
\* handed out once, behind the barriers and the operations on its file before it.
THEOREM PoolKeepsPromise == DBSpec => KeepsPromise
BY WorkersUseScheduler, SchedulerKeepsPromise, PTL

\* The pool, the promises and the scheduler agree in every state.
LEMMA HoldInvariant == DBSpec => []HoldInv
<1>1. DBInit => HoldInv
  <2> SUFFICES ASSUME DBInit PROVE HoldInv
    OBVIOUS
  <2>1. /\ localQueue = <<>> /\ batch = [w \in Workers |-> <<>>]
        /\ task = [w \in Workers |-> 0] /\ pc = [w \in Workers |-> "work"]
        /\ result = [s \in Seqs |-> <<>>] /\ owner = [s \in Seqs |-> "client"]
    BY DEF DBInit, Init
  <2>2. IsInjective(<<>>) /\ Range(<<>>) = {}
    BY DEF IsInjective, Range
  <2>3. Apart
    BY <2>1, <2>2 DEF Apart
  <2>4. Busy
    BY <2>1 DEF Busy, Guarded
  <2>5. Promised
    BY <2>1, <2>2 DEF Promised
  <2> QED
    BY <2>3, <2>4, <2>5 DEF HoldInv
<1>2. DBSpec => [](TypeOK /\ Ownership)
  BY WorkersUseScheduler, OwnershipInvariant, PTL
<1> QED
  BY <1>1, <1>2, NextHoldings, PoolInvariant, DataInvariant, PTL DEF DBSpec

\* Every query that is handed out is executed by one worker, once: none is lost between
\* fetchNext, the batches and the queue of the pool, no promise is set twice, and it is
\* set before the scheduler hears of it.
THEOREM EveryQueryExecutedOnce == DBSpec => []ExecutedOnce
BY HoldImplies, HoldInvariant, PoolInvariant, PTL

-----------------------------------------------------------------------------
(* Orderly programs: what is registered.                                   *)

\* The program that has been submitted, as Orderly describes it.
ProgInv ==
    /\ \A s \in Seqs : query[s] \in IF s <= submitted THEN Commands ELSE {NoCommand}
    /\ \A s \in Seqs : query[s].type # "List"
    /\ \A r, s \in Seqs : r < s =>
          /\ query[s].type = "Load" =>
                query[r].type = "Load" \/ classifyPriority(query[r].type) # 1
          /\ \A t \in Tables : Creates(query[s], t) => ~Names(query[r], t)

\* What the types of the queries say of the tables and the file they name.
LEMMA CommandShape ==
    ASSUME NEW q \in Commands \cup {NoCommand}
    PROVE  /\ q \in Command
           /\ q.table \in Tables => q.type \notin BarrierTypes \cup {"Load"}
           /\ q.newTable \in Tables => q.type = "CopyTable"
           /\ q.file # NoFile => q.type \in {"Load", "Dump"}
           /\ q.type \in {"Load", "Dump"} => q.file \in Files
           /\ q.type \in BarrierTypes \cup {"Load"} => q.table = Control
           /\ q \in Commands /\ q.type \notin BarrierTypes \cup {"Load"} => q.table \in Tables
<1>1. NoCommand \in Command /\ Control \notin Tables /\ NoFile \notin Files
  BY ConstantTypes, NamesAssumption
<1>2. CASE q \in Commands
  BY <1>1, <1>2, CommandsAssumption DEF Command, TableIds, FileIds
<1>3. CASE q = NoCommand /\ q \notin Commands
  BY <1>1, <1>3 DEF NoCommand, BarrierTypes
<1> QED
  BY <1>2, <1>3

\* The priority of LOAD is that of DUMP, DROP, TRUNCATE and COPYTABLE; a query in the
\* queue of a table has this one or a lower one.
LEMMA Priorities ==
    /\ \A type \in {"Load", "Dump", "Drop", "Truncate", "CopyTable"} :
          classifyPriority(type) = 1
    /\ \A type : type \notin {"Quit", "List"} => classifyPriority(type) \in {1, 2}
BY DEF classifyPriority

\* Registration keeps the program orderly.
LEMMA SubmitProgram ==
    ASSUME \A p : Workload(p) => Orderly(p), TypeOK, ProgInv, SubmitQuery
    PROVE  ProgInv'
<1> DEFINE n == submitted + 1
           old == SubSeq(query, 1, submitted)
<1>1. PICK q \in Commands :
         /\ submitted < MaxQueries /\ submitted' = n
         /\ query' = [query EXCEPT ![n] = q]
         /\ Workload(Append(old, q))
  BY DEF SubmitQuery, RegisterBarrier, RegisterLoad, RegisterDump, RegisterDrop,
         RegisterCopy, RegisterOther, Enqueue, RegisterItem
<1>2. /\ submitted \in Nat /\ n \in Seqs /\ Seqs \subseteq Int /\ query \in [Seqs -> Command]
      /\ \A s \in Seqs : s >= 1
      /\ \A i \in 1 .. submitted : i \in Seqs
  BY <1>1, ConstantTypes DEF TypeOK, ClientTypeOK, Seqs
<1>3. /\ old \in Seq(Command) /\ Len(old) = submitted
      /\ \A i \in 1 .. submitted : old[i] = query[i]
  <2>1. \A i \in 1 .. submitted : query[i] \in Command
    BY <1>2
  <2>2. 1 \in Int /\ submitted \in Int
    BY <1>2
  <2>3. /\ old \in Seq(Command)
        /\ Len(old) = IF 1 <= submitted THEN submitted - 1 + 1 ELSE 0
        /\ \A i \in 1 .. submitted - 1 + 1 : old[i] = query[1 + i - 1]
    BY <2>1, <2>2, SubSeqProperties
  <2> HIDE DEF old
  <2> QED
    BY <1>2, <2>3
<1>4. q \in Command
  BY ConstantTypes
<1> DEFINE p == Append(old, q)
<1>5. /\ Len(p) = n /\ DOMAIN p = 1 .. n
      /\ p[n] = q /\ \A i \in 1 .. submitted : p[i] = query[i]
  <2> HIDE DEF old
  <2>1. /\ Len(p) = Len(old) + 1 /\ p \in Seq(Command)
        /\ \A i \in 1 .. Len(old) : p[i] = old[i]
        /\ p[Len(old) + 1] = q
    BY <1>3, <1>4, AppendProperties
  <2> HIDE DEF p
  <2> QED
    BY <1>3, <2>1
<1>6. Orderly(p)
  BY <1>1
<1> HIDE DEF p, old
<1>7. ASSUME NEW s \in Seqs
      PROVE  \/ s <= submitted /\ s \in DOMAIN p /\ query'[s] = query[s] /\ p[s] = query[s]
             \/ s = n /\ s \in DOMAIN p /\ query'[s] = q /\ p[s] = q
             \/ s > n /\ query'[s] = NoCommand
  <2>1. s < n \/ s = n \/ s > n
    BY <1>2
  <2>2. s < n => s <= submitted /\ s \in 1 .. submitted
    BY <1>2
  <2>3. s > n => query[s] = NoCommand
    BY <1>2 DEF ProgInv
  <2>4. s <= n => s \in 1 .. n
    BY <1>2
  <2> QED
    BY <1>1, <1>2, <1>5, <2>1, <2>2, <2>3, <2>4
<1>8. ASSUME NEW s \in Seqs
      PROVE  query'[s] \in IF s <= submitted' THEN Commands ELSE {NoCommand}
  BY <1>1, <1>2, <1>7 DEF ProgInv
<1>9. ASSUME NEW s \in Seqs PROVE query'[s].type # "List"
  <2>1. NoCommand.type # "List"
    BY DEF NoCommand
  <2> QED
    BY <1>6, <1>7, <2>1 DEF Orderly
<1>10. ASSUME NEW r \in Seqs, NEW s \in Seqs, r < s
       PROVE  /\ query'[s].type = "Load" =>
                    query'[r].type = "Load" \/ classifyPriority(query'[r].type) # 1
              /\ \A t \in Tables : Creates(query'[s], t) => ~Names(query'[r], t)
  <2>1. CASE s > n
    <3>1. query'[s] = NoCommand
      BY <1>2, <1>7, <2>1
    <3> QED
      BY <3>1, NamesAssumption DEF NoCommand, Creates
  <2>2. CASE ~(s > n)
    <3>1. /\ s \in DOMAIN p /\ query'[s] = p[s]
          /\ r \in DOMAIN p /\ query'[r] = p[r]
      BY <1>2, <1>7, <1>10, <2>2
    <3>2. classifyPriority("Load") = 1
      BY DEF classifyPriority
    <3> QED
      BY <1>6, <1>10, <3>1, <3>2 DEF Orderly
  <2> QED
    BY <2>1, <2>2
<1> QED
  BY <1>8, <1>9, <1>10 DEF ProgInv

\* The other steps leave it.
LEMMA NextProgram ==
    ASSUME \A p : Workload(p) => Orderly(p), TypeOK, ProgInv, [Next]_vars
    PROVE  ProgInv'
<1>1. CASE SubmitQuery
  BY <1>1, SubmitProgram
<1>2. CASE ~SubmitQuery
  <2>1. query' = query
    BY <1>2, FetchLeavesTargets, CompletionLeavesTargets DEF Next, SetReady, vars, clientVars
  <2>2. submitted' = submitted
    BY <1>2 DEF Next, SetReady, vars, clientVars, FetchStep, FetchNothing, FetchBarrier,
         LoadWaits, FetchLoad, LoadWins, TableWaits, FetchTable, TableWins, FetchUnchanged,
         CompletionStep, BeginCompletion, UpdateReadyFiles, UpdateReadyTables,
         ReadyUnchanged, FinishCompletion, Retire
  <2> QED
    BY <2>1, <2>2 DEF ProgInv
<1> QED
  BY <1>1, <1>2

\* An item goes the way of the table its query names, a LOAD the way of the table its
\* file holds; it takes over no table, and is dropped only where it would fail.
RoutedAs(q, it) ==
    /\ it.tableId = IF q.type = "Load" THEN Header[q.file] ELSE q.table
    /\ it.pendingTable = {}
    /\ it.dropped => q.type = "Load" /\ Header[q.file] = Control

Routed == \A s \in Seqs : RoutedAs(query[s], item[s])

\* Before the first DUMP the parser finds every file with the table it holds, and the
\* dependency manager has seen LOADs alone.
FilesUnmarked ==
    /\ (\A s \in Seqs : query[s].type # "Dump") =>
          fileTableName = Header /\ \A f \in FileIds : lastScheduledFile[f].tag = "Load"
    /\ \A f \in FileIds :
          lastScheduledFile[f].seq > 0 => \E r \in Seqs : On(r, f) /\ r <= submitted

\* What a LOAD finds when it is registered.
LEMMA LoadRoutes ==
    ASSUME TypeOK, ProgInv, ProgInv', FilesUnmarked, NEW q \in Commands, RegisterLoad(q)
    PROVE  RoutedAs(q, item'[submitted + 1]) /\ FilesUnmarked'
<1> DEFINE n == submitted + 1
           prev == lastScheduledFile[q.file]
           tab == fileTableName[q.file]
<1>1. /\ q.type = "Load" /\ submitted' = n /\ submitted < MaxQueries
      /\ query' = [query EXCEPT ![n] = q]
      /\ fileTableName' = fileTableName
      /\ lastScheduledFile' = MarkScheduled(lastScheduledFile, q.file, n, "Load")
  BY DEF RegisterLoad, RegisterItem
<1>2. /\ submitted \in Nat /\ n \in Seqs /\ Seqs \subseteq Int
      /\ query \in [Seqs -> Command] /\ item \in [Seqs -> Item]
      /\ lastScheduledFile \in [FileIds -> Mark]
      /\ q.file \in FileIds /\ q.file # NoFile
  BY <1>1, ConstantTypes, CommandShape, NamesAssumption
  DEF TypeOK, ClientTypeOK, ItemTypeOK, SchedTypeOK, Seqs, FileIds
<1>3. query'[n] = q /\ \A s \in Seqs : s # n => query'[s] = query[s]
  BY <1>1, <1>2
<1>4. \A s \in Seqs : query[s].type # "Dump"
  <2>1. ASSUME NEW s \in Seqs, s < n PROVE query[s].type # "Dump"
    BY <1>1, <1>2, <1>3, <2>1, Priorities DEF ProgInv
  <2>2. ASSUME NEW s \in Seqs, ~(s < n) PROVE query[s].type # "Dump"
    <3>1. ~(s <= submitted)
      BY <1>2, <2>2
    <3> QED
      BY <3>1 DEF ProgInv, NoCommand
  <2> QED
    BY <2>1, <2>2
<1>5. /\ fileTableName = Header
      /\ \A f \in FileIds : lastScheduledFile[f].tag = "Load"
      /\ tab = Header[q.file] /\ prev.tag = "Load"
  BY <1>2, <1>4 DEF FilesUnmarked
<1>6. PICK d, e :
         item' = [item EXCEPT ![n] =
                    [NewItem(tab) EXCEPT !.fileDep = prev.seq, !.tableDep = d,
                                         !.pendingTable = {},
                                         !.dropped = prev.seq > 0 /\ e]]
  <2> DEFINE pending == prev.tag = "Dump" /\ lastCompletedFile[q.file] < prev.seq
             pend == {t \in TableIds : pending /\ lastScheduledTable[t].tag = "Drop"}
             d == IF pending THEN 0 ELSE lastScheduledTable[tab].seq
             e == lastScheduledTable[tab].tag # "Drop"
  <2>1. item' = [item EXCEPT ![n] =
                    [NewItem(tab) EXCEPT !.fileDep = prev.seq, !.tableDep = d,
                                         !.pendingTable = pend,
                                         !.dropped = /\ prev.seq > 0
                                                     /\ prev.tag = "Load" /\ e]]
    BY DEF RegisterLoad, RegisterItem
  <2>2. pend = {}
    BY <1>5
  <2>3. (prev.seq > 0 /\ prev.tag = "Load" /\ e) <=> (prev.seq > 0 /\ e)
    BY <1>5
  <2> HIDE DEF prev, tab, d, e, pend
  <2>4. item' = [item EXCEPT ![n] =
                    [NewItem(tab) EXCEPT !.fileDep = prev.seq, !.tableDep = d,
                                         !.pendingTable = {},
                                         !.dropped = prev.seq > 0 /\ e]]
    BY <2>1, <2>2, <1>5 DEF prev
  <2> QED
    BY <2>4
<1>7. ASSUME prev.seq > 0 PROVE Header[q.file] = Control
  <2>1. PICK r \in Seqs : On(r, q.file) /\ r <= submitted
    BY <1>2, <1>7 DEF FilesUnmarked
  <2>2. query[r].file = q.file /\ query[r] \in Commands /\ r < n /\ r # n
    BY <1>2, <2>1 DEF On, ProgInv
  <2>3. query[r].type = "Load"
    BY <1>2, <1>4, <2>2, CommandShape
  <2>4. ASSUME NEW t \in Tables, Header[q.file] = t PROVE FALSE
    <3>1. Creates(query'[n], t) /\ Names(query'[r], t)
      BY <1>1, <1>3, <2>2, <2>3, <2>4 DEF Creates, Names
    <3> QED
      BY <1>2, <2>2, <3>1 DEF ProgInv
  <2>5. Header[q.file] \in TableIds
    BY <1>2, HeaderAssumption
  <2> QED
    BY <2>4, <2>5 DEF TableIds
<1>8. RoutedAs(q, item'[n])
  <2> HIDE DEF prev, tab
  <2>1. item'[n] = [NewItem(tab) EXCEPT !.fileDep = prev.seq, !.tableDep = d,
                                        !.pendingTable = {},
                                        !.dropped = prev.seq > 0 /\ e]
    BY <1>2, <1>6
  <2>2. /\ item'[n].tableId = tab /\ item'[n].pendingTable = {}
        /\ item'[n].dropped => prev.seq > 0
    BY <2>1 DEF NewItem
  <2> QED
    BY <1>1, <1>5, <1>7, <2>2 DEF RoutedAs
<1>9. FilesUnmarked'
  <2>1. ASSUME NEW f \in FileIds
        PROVE  /\ lastScheduledFile'[f].tag = "Load"
               /\ lastScheduledFile'[f] = lastScheduledFile[f] \/ f = q.file
    BY <1>1, <1>2, <1>5 DEF MarkScheduled, Mark
  <2>2. ASSUME NEW f \in FileIds, lastScheduledFile'[f].seq > 0
        PROVE  \E r \in Seqs : query'[r].file = f /\ f # NoFile /\ r <= submitted'
    <3>1. CASE f = q.file
      <4>1. query'[n].file = f /\ f # NoFile /\ n <= submitted'
        BY <1>1, <1>2, <1>3, <3>1 DEF On
      <4> QED
        BY <1>2, <4>1
    <3>2. CASE f # q.file
      <4>1. PICK r \in Seqs : On(r, f) /\ r <= submitted
        BY <2>1, <2>2, <3>2 DEF FilesUnmarked
      <4>2. query'[r].file = f /\ f # NoFile /\ r <= submitted'
        BY <1>1, <1>2, <1>3, <4>1 DEF On
      <4> QED
        BY <4>2
    <3> QED
      BY <3>1, <3>2
  <2> QED
    BY <1>1, <1>5, <2>1, <2>2 DEF FilesUnmarked, On
<1> QED
  BY <1>8, <1>9

\* What any query finds.
LEMMA SubmitRoutes ==
    ASSUME TypeOK, ProgInv, ProgInv', Routed, FilesUnmarked, SubmitQuery
    PROVE  /\ Routed' /\ FilesUnmarked'
           /\ query'[submitted + 1].table \in Tables \/ owner'[submitted + 1] # "queue"
<1> DEFINE n == submitted + 1
<1>1. PICK q \in Commands :
         \/ RegisterBarrier(q) \/ RegisterLoad(q) \/ RegisterDump(q)
         \/ RegisterDrop(q) \/ RegisterCopy(q) \/ RegisterOther(q)
  BY DEF SubmitQuery
<1>2. PICK it, place : RegisterItem(q, it, place)
  BY <1>1 DEF RegisterBarrier, RegisterLoad, RegisterDump, RegisterDrop, RegisterCopy,
              RegisterOther, Enqueue
<1>3. /\ submitted' = n /\ submitted < MaxQueries
      /\ query' = [query EXCEPT ![n] = q] /\ item' = [item EXCEPT ![n] = it]
      /\ owner' = [owner EXCEPT ![n] = place]
  BY <1>2 DEF RegisterItem
<1>4. /\ submitted \in Nat /\ n \in Seqs /\ Seqs \subseteq Int
      /\ query \in [Seqs -> Command] /\ item \in [Seqs -> Item]
      /\ owner \in [Seqs -> Owners]
      /\ lastScheduledFile \in [FileIds -> Mark]
  BY <1>3, ConstantTypes
  DEF TypeOK, ClientTypeOK, ItemTypeOK, SchedTypeOK, Seqs
<1>5. /\ query'[n] = q /\ item'[n] = it /\ owner'[n] = place
      /\ \A s \in Seqs : s # n => query'[s] = query[s] /\ item'[s] = item[s]
  BY <1>3, <1>4
<1>6. query[n].type # "Dump" /\ NoFile \notin Files
  BY <1>4, NamesAssumption DEF ProgInv, NoCommand
\* A query that is no LOAD and no DUMP leaves the files as they are.
<1>7. ASSUME q.type # "Dump", fileTableName' = fileTableName,
             lastScheduledFile' = lastScheduledFile
      PROVE  FilesUnmarked'
  <2>1. ASSUME NEW f \in FileIds, lastScheduledFile[f].seq > 0
        PROVE  \E r \in Seqs : query'[r].file = f /\ f # NoFile /\ r <= submitted'
    <3>1. PICK r \in Seqs : On(r, f) /\ r <= submitted
      BY <2>1 DEF FilesUnmarked
    <3>2. query'[r].file = f /\ f # NoFile /\ r <= submitted'
      BY <1>3, <1>4, <1>5, <3>1 DEF On
    <3> QED
      BY <3>2
  <2>2. (\A s \in Seqs : query'[s].type # "Dump") => \A s \in Seqs : query[s].type # "Dump"
    BY <1>5, <1>6
  <2> QED
    BY <1>7, <2>1, <2>2 DEF FilesUnmarked, On
<1>8. ASSUME NEW c, NEW d,
             \/ it = NewItem(q.table)
             \/ it = [NewItem(q.table) EXCEPT !.tableDep = c]
             \/ it = [NewItem(q.table) EXCEPT !.fileDep = c, !.tableDep = d]
             \/ it = [NewItem(q.table) EXCEPT !.tableDep = c, !.dstDep = d],
             q.type # "Load"
      PROVE  RoutedAs(q, it)
  <2>1. it.tableId = q.table /\ it.pendingTable = {} /\ it.dropped = FALSE
    <3>1. CASE it = NewItem(q.table)
      BY <3>1 DEF NewItem
    <3>2. CASE it = [NewItem(q.table) EXCEPT !.tableDep = c]
      BY <3>2 DEF NewItem
    <3>3. CASE it = [NewItem(q.table) EXCEPT !.fileDep = c, !.tableDep = d]
      BY <3>3 DEF NewItem
    <3>4. CASE it = [NewItem(q.table) EXCEPT !.tableDep = c, !.dstDep = d]
      BY <3>4 DEF NewItem
    <3> QED
      BY <1>8, <3>1, <3>2, <3>3, <3>4
  <2> QED
    BY <1>8, <2>1 DEF RoutedAs
<1>9. ASSUME NEW i, Enqueue(q, i), q.type \notin BarrierTypes \cup {"Load"}
       PROVE  it = i /\ q.table \in Tables
  <2>1. item' = [item EXCEPT ![n] = i]
    BY <1>9 DEF Enqueue, RegisterItem
  <2>2. it = i
    BY <1>4, <1>5, <2>1
  <2> QED
    BY <1>9, <2>2, CommandShape
<1>10. CASE RegisterBarrier(q)
  <2>1. /\ q.type \in BarrierTypes /\ item' = [item EXCEPT ![n] = NewItem(Control)]
        /\ owner' = [owner EXCEPT ![n] = "barriers"]
        /\ fileTableName' = fileTableName /\ lastScheduledFile' = lastScheduledFile
    BY <1>10 DEF RegisterBarrier, RegisterItem, schedVars
  <2>2. it = NewItem(Control) /\ place = "barriers"
    BY <1>4, <1>5, <2>1
  <2>3. q.table = Control /\ q.type # "Load" /\ q.type # "Dump"
    BY <2>1, CommandShape DEF BarrierTypes
  <2>4. RoutedAs(q, it)
    BY <1>8, <2>2, <2>3
  <2> QED
    BY <1>5, <1>7, <2>1, <2>2, <2>3, <2>4 DEF Routed
<1>11. CASE RegisterLoad(q)
  <2>1. RoutedAs(q, item'[n]) /\ FilesUnmarked'
    BY <1>11, LoadRoutes
  <2>2. owner' = [owner EXCEPT ![n] = "loadQueue"]
    BY <1>11 DEF RegisterLoad, RegisterItem
  <2>3. owner'[n] # "queue"
    BY <1>4, <2>2
  <2> QED
    BY <1>5, <2>1, <2>3 DEF Routed
<1>12. CASE RegisterDump(q)
  <2>1. q.type = "Dump" /\ q.file \in FileIds /\ q.file # NoFile
    BY <1>12, CommandShape, NamesAssumption DEF RegisterDump, FileIds
  <2>2. it = [NewItem(q.table) EXCEPT !.fileDep = lastScheduledFile[q.file].seq,
                                      !.tableDep = lastScheduledTable[q.table].seq]
        /\ q.table \in Tables
    BY <1>9, <1>12, <2>1 DEF RegisterDump, BarrierTypes
  <2>3. RoutedAs(q, it)
    BY <1>8, <2>1, <2>2
  <2>4. lastScheduledFile' = MarkScheduled(lastScheduledFile, q.file, n, "Dump")
    BY <1>12 DEF RegisterDump
  <2>5. ASSUME NEW f \in FileIds, lastScheduledFile'[f].seq > 0
        PROVE  \E r \in Seqs : query'[r].file = f /\ f # NoFile /\ r <= submitted'
    <3>1. CASE f = q.file
      <4>1. query'[n].file = f /\ f # NoFile /\ n <= submitted'
        BY <1>3, <1>4, <1>5, <2>1, <3>1 DEF On
      <4> QED
        BY <1>4, <4>1
    <3>2. CASE f # q.file
      <4>1. lastScheduledFile'[f] = lastScheduledFile[f]
        BY <1>4, <2>4, <3>2 DEF MarkScheduled
      <4>2. PICK r \in Seqs : On(r, f) /\ r <= submitted
        BY <2>5, <4>1 DEF FilesUnmarked
      <4>3. query'[r].file = f /\ f # NoFile /\ r <= submitted'
        BY <1>3, <1>4, <1>5, <4>2 DEF On
      <4> QED
        BY <4>3
    <3> QED
      BY <3>1, <3>2
  <2>6. FilesUnmarked'
    BY <1>4, <1>5, <2>1, <2>5 DEF FilesUnmarked, On
  <2> QED
    BY <1>5, <2>2, <2>3, <2>6 DEF Routed
<1>13. CASE RegisterDrop(q)
  <2>1. q.type = "Drop" /\ fileTableName' = fileTableName
        /\ lastScheduledFile' = lastScheduledFile
    BY <1>13 DEF RegisterDrop
  <2>2. it = [NewItem(q.table) EXCEPT !.tableDep = lastScheduledTable[q.table].seq]
        /\ q.table \in Tables
    BY <1>9, <1>13, <2>1 DEF RegisterDrop, BarrierTypes
  <2>3. RoutedAs(q, it)
    BY <1>8, <2>1, <2>2
  <2> QED
    BY <1>5, <1>7, <2>1, <2>2, <2>3 DEF Routed
<1>14. CASE RegisterCopy(q)
  <2>1. q.type = "CopyTable" /\ fileTableName' = fileTableName
        /\ lastScheduledFile' = lastScheduledFile
    BY <1>14 DEF RegisterCopy
  <2>2. PICK d : Enqueue(q, [NewItem(q.table) EXCEPT
                               !.tableDep = lastScheduledTable[q.table].seq, !.dstDep = d])
    BY <1>14 DEF RegisterCopy
  <2>3. it = [NewItem(q.table) EXCEPT
                !.tableDep = lastScheduledTable[q.table].seq, !.dstDep = d]
        /\ q.table \in Tables
    BY <1>9, <2>1, <2>2 DEF BarrierTypes
  <2>4. RoutedAs(q, it)
    BY <1>8, <2>1, <2>3
  <2> QED
    BY <1>5, <1>7, <2>1, <2>3, <2>4 DEF Routed
<1>15. CASE RegisterOther(q)
  <2>1. q.type \notin BarrierTypes \cup TrackedTypes /\ fileTableName' = fileTableName
        /\ lastScheduledFile' = lastScheduledFile
    BY <1>15 DEF RegisterOther, schedVars
  <2>2. it = NewItem(q.table) /\ q.table \in Tables /\ q.type # "Load" /\ q.type # "Dump"
    BY <1>9, <1>15, <2>1 DEF RegisterOther, TrackedTypes
  <2>3. RoutedAs(q, it)
    BY <1>8, <2>2
  <2> QED
    BY <1>5, <1>7, <2>1, <2>2, <2>3 DEF Routed
<1> QED
  BY <1>1, <1>10, <1>11, <1>12, <1>13, <1>14, <1>15

-----------------------------------------------------------------------------
(* Orderly programs: one query of a table at a time, in the order of the   *)
(* program.                                                                *)

\* The completion of the query has been noted.
OverPlaces == {"completing", "notified", "completed"}
Over(s) == owner[s] \in OverPlaces

\* The queries of table t that have left its queue and are not over.
OutPlaces == {"waitingFile", "waitingTable", "readyFile", "readyTable", "fetched"}
Out(t) == {s \in Seqs : query[s].table = t /\ owner[s] \in OutPlaces}

\* What creates table t is over.
Created(t) == \E s \in Seqs : Creates(query[s], t) /\ Over(s)

\* The next query of table t may be fetched, now or once a barrier has gone.
Token(t) == index[t] # 0 \/ t \in waitingTables

\* The numbers in q ascend.
Ascending(q) == \A i, j \in DOMAIN q : i < j => q[i] < q[j]

\* A barrier holds no table back that is on the index.
NotParked == \A t \in Tables : index[t] # 0 => t \notin waitingTables

\* The right to fetch a query of a table passes from the index to the query and back.
OneUser ==
    \A t \in Tables : /\ Token(t) => Out(t) = {}
                      /\ \A r, s \in Out(t) : r = s

\* The callback that returns it holds it alone.
CallbackAlone ==
    \A t \in Tables :
        mu = "completing" /\ item[current].tableId = t => t \notin waitingTables /\ Out(t) = {}

\* Nothing of a table is fetched before the table is created ...
CreatedFirst == \A t \in Tables : Token(t) \/ Out(t) # {} => Created(t)

\* ... and then its queries leave the queue in the order of the program, each when the
\* one before it is over.
InTurn ==
    \A s \in Seqs :
        query[s].table \in Tables /\ owner[s] \notin {"queue", "client"} =>
            /\ Created(query[s].table)
            /\ \A r \in Seqs : r < s /\ query[r].table = query[s].table => Over(r)

InOrder == \A t \in Tables : Ascending(queue[t])

TokenInv == /\ NotParked /\ OneUser /\ CallbackAlone /\ CreatedFirst /\ InTurn
            /\ InOrder

\* The queues of the tables hold queries that name a table.
QueuedTables == \A s \in Seqs : owner[s] = "queue" => query[s].table \in Tables

OrderInv == /\ ProgInv /\ Routed /\ FilesUnmarked /\ QueuedTables /\ TokenInv
            /\ EveryQueryCompletes

\* A step that gives no table back to the index, or one that is free and created.
LEMMA TokensKept ==
    ASSUME TokenInv, query' = query,
           \A s \in Seqs : Over(s) => Over(s)',
           \A s \in Seqs : query[s].table \in Tables =>
              /\ owner'[s] \in OutPlaces => owner[s] \in OutPlaces
              /\ owner[s] \in {"queue", "client"} => owner'[s] \in {"queue", "client"},
           NotParked', CallbackAlone', InOrder',
           \A t \in Tables : Token(t)' => Token(t) \/ (Created(t)' /\ Out(t)' = {})
    PROVE  TokenInv'
<1>1. \A t : Created(t) => Created(t)'
  BY DEF Created
<1>2. \A t \in Tables : Out(t)' \subseteq Out(t)
  BY DEF Out
<1>3. OneUser'
  BY <1>2 DEF TokenInv, OneUser
<1>4. CreatedFirst'
  BY <1>1, <1>2 DEF TokenInv, CreatedFirst
<1>5. InTurn'
  <2> SUFFICES ASSUME NEW s \in Seqs, query[s].table \in Tables,
                      owner'[s] \notin {"queue", "client"}
               PROVE  /\ Created(query[s].table)'
                      /\ \A r \in Seqs : r < s /\ query[r].table = query[s].table => Over(r)'
    BY DEF InTurn
  <2>1. /\ Created(query[s].table)
        /\ \A r \in Seqs : r < s /\ query[r].table = query[s].table => Over(r)
    BY DEF TokenInv, InTurn
  <2>2. Created(query[s].table)'
    BY <2>1 DEF Created
  <2> QED
    BY <2>1, <2>2
<1> QED
  BY <1>3, <1>4, <1>5 DEF TokenInv

\* Where a query of a table may be.
LEMMA TablePlaces ==
    ASSUME TypeOK, RightPlace, OrderInv, NEW s \in Seqs, query[s].table \in Tables
    PROVE  owner[s] \in {"client", "queue"} \cup OutPlaces \cup OverPlaces
<1>1. owner[s] \in Owners
  BY DEF TypeOK, ItemTypeOK
<1>2. query[s] \in Commands \cup {NoCommand}
  BY DEF OrderInv, ProgInv
<1>3. query[s].type \notin BarrierTypes \cup {"Load"}
  BY <1>2, CommandShape
<1>4. owner[s] \notin {"barriers", "loadQueue", "broken"}
  BY <1>3 DEF RightPlace, QueuedPlaces, OrderInv, EveryQueryCompletes
<1> QED
  BY <1>1, <1>4 DEF Owners, OutPlaces, OverPlaces

\* Numbers that ascend and a greater one at the end.
LEMMA AscendingAppend ==
    ASSUME NEW q \in Seq(Seqs), Ascending(q), NEW n \in Seqs, \A i \in DOMAIN q : q[i] < n
    PROVE  Ascending(Append(q, n))
<1> DEFINE p == Append(q, n)
<1>1. /\ DOMAIN q = 1 .. Len(q) /\ Len(q) \in Nat
      /\ DOMAIN p = 1 .. Len(q) + 1 /\ p[Len(q) + 1] = n
      /\ \A i \in DOMAIN q : p[i] = q[i]
  OBVIOUS
<1> HIDE DEF p
<1>2. ASSUME NEW i \in DOMAIN p, NEW j \in DOMAIN p, i < j PROVE p[i] < p[j]
  <2>1. i \in DOMAIN q
    BY <1>1, <1>2
  <2>2. j \in DOMAIN q \/ j = Len(q) + 1
    BY <1>1
  <2> QED
    BY <1>1, <1>2, <2>1, <2>2 DEF Ascending
<1>3. Ascending(p)
  BY <1>2 DEF Ascending
<1> QED
  BY <1>3 DEF p

\* The rest of the numbers ascends, and the first is the least.
LEMMA AscendingTail ==
    ASSUME NEW q \in Seq(Seqs), q # <<>>, Ascending(q)
    PROVE  /\ Ascending(Tail(q))
           /\ \A i \in DOMAIN q : q[i] = Head(q) \/ Head(q) < q[i]
<1> DEFINE p == Tail(q)
<1>1. /\ DOMAIN q = 1 .. Len(q) /\ Len(q) \in Nat /\ Len(q) >= 1 /\ Head(q) = q[1]
      /\ DOMAIN p = 1 .. Len(q) - 1
      /\ \A i \in 1 .. Len(q) - 1 : p[i] = q[i + 1]
  OBVIOUS
<1> HIDE DEF p
<1>2. ASSUME NEW i \in DOMAIN p, NEW j \in DOMAIN p, i < j PROVE p[i] < p[j]
  <2>1. i + 1 \in DOMAIN q /\ j + 1 \in DOMAIN q /\ i + 1 < j + 1
    BY <1>1, <1>2
  <2> QED
    BY <1>1, <2>1 DEF Ascending
<1>3. ASSUME NEW i \in DOMAIN q PROVE q[i] = Head(q) \/ Head(q) < q[i]
  <2>1. i = 1 \/ 1 < i
    BY <1>1
  <2>2. 1 \in DOMAIN q
    BY <1>1
  <2> QED
    BY <1>1, <2>1, <2>2 DEF Ascending
<1>4. Ascending(p)
  BY <1>2 DEF Ascending
<1> QED
  BY <1>3, <1>4 DEF p

\* A smaller number in front keeps them in order.
LEMMA AscendingCons ==
    ASSUME NEW q \in Seq(Seqs), Ascending(q), NEW n \in Seqs, \A i \in DOMAIN q : n < q[i]
    PROVE  Ascending(<<n>> \o q)
<1> DEFINE p == <<n>> \o q
<1>1. /\ DOMAIN q = 1 .. Len(q) /\ Len(q) \in Nat
      /\ DOMAIN p = 1 .. Len(q) + 1 /\ p[1] = n
      /\ \A i \in 2 .. Len(q) + 1 : p[i] = q[i - 1]
  OBVIOUS
<1> HIDE DEF p
<1>2. ASSUME NEW i \in DOMAIN p, NEW j \in DOMAIN p, i < j PROVE p[i] < p[j]
  <2>1. j - 1 \in DOMAIN q /\ p[j] = q[j - 1]
    BY <1>1, <1>2
  <2>2. i = 1 \/ (i - 1 \in DOMAIN q /\ p[i] = q[i - 1] /\ i - 1 < j - 1)
    BY <1>1, <1>2
  <2> QED
    BY <1>1, <2>1, <2>2 DEF Ascending
<1>3. Ascending(p)
  BY <1>2 DEF Ascending
<1> QED
  BY <1>3 DEF p

\* Registration puts a query behind those of its table.
LEMMA SubmitTokens ==
    ASSUME TypeOK, Ownership, OrderInv, SubmitQuery
    PROVE  TokenInv'
<1> DEFINE n == submitted + 1
<1>1. /\ n \in Seqs /\ submitted \in Nat /\ Seqs \subseteq Int
      /\ owner[n] = "client" /\ owner'[n] \in {"barriers", "loadQueue", "queue"}
      /\ \A s \in Seqs \ {n} : owner'[s] = owner[s]
  BY SubmitShape DEF TypeOK, ClientTypeOK, Seqs
<1>2. PICK q \in Commands :
         \/ RegisterBarrier(q) \/ RegisterLoad(q) \/ RegisterDump(q)
         \/ RegisterDrop(q) \/ RegisterCopy(q) \/ RegisterOther(q)
  BY DEF SubmitQuery
<1>3. PICK it :
         /\ query' = [query EXCEPT ![n] = q] /\ item' = [item EXCEPT ![n] = it]
         /\ index' = index /\ waitingTables' = waitingTables
         /\ mu' = mu /\ current' = current
  BY <1>2 DEF RegisterBarrier, RegisterLoad, RegisterDump, RegisterDrop, RegisterCopy,
              RegisterOther, Enqueue, RegisterItem, muVars
<1>4. /\ queue' = queue
         \/ /\ queue' = [queue EXCEPT ![q.table] = Append(@, n)]
            /\ q.type \notin BarrierTypes \cup {"Load"} /\ owner'[n] = "queue"
      /\ q.type \in BarrierTypes \cup {"Load"} \/ owner'[n] = "queue"
  <2>1. owner \in [Seqs -> Owners]
    BY DEF TypeOK, ItemTypeOK
  <2> QED
    BY <1>1, <1>2, <2>1 DEF RegisterBarrier, RegisterLoad, RegisterDump, RegisterDrop,
       RegisterCopy, RegisterOther, Enqueue, RegisterItem, BarrierTypes, TrackedTypes
<1>5. /\ query'[n] = q /\ query[n] = NoCommand
      /\ \A s \in Seqs \ {n} : query'[s] = query[s] /\ item'[s] = item[s]
  BY <1>1, <1>3 DEF TypeOK, ClientTypeOK, ItemTypeOK, OrderInv, ProgInv
<1>6. \A s \in Seqs : Over(s)' <=> Over(s)
  BY <1>1 DEF Over, OverPlaces
<1>7. \A t \in Tables : Created(t)' <=> Created(t)
  BY <1>1, <1>5, <1>6 DEF Created, Over, OverPlaces
<1>8. \A t \in Tables : Out(t)' = Out(t)
  <2>1. owner[n] \notin OutPlaces /\ owner'[n] \notin OutPlaces
    BY <1>1 DEF OutPlaces
  <2> QED
    BY <1>1, <1>5, <2>1 DEF Out
<1>9. \A t : Token(t)' <=> Token(t)
  BY <1>3 DEF Token
<1>10. NotParked' /\ OneUser' /\ CreatedFirst'
  BY <1>3, <1>7, <1>8, <1>9 DEF OrderInv, TokenInv, NotParked, OneUser, CreatedFirst
<1>11. CallbackAlone'
  <2>1. mu = "completing" => current \in Seqs /\ current # n
    BY <1>1 DEF TypeOK, MuTypeOK, Ownership, CallbackOwned, Owned
  <2> QED
    BY <1>3, <1>5, <1>8, <2>1 DEF OrderInv, TokenInv, CallbackAlone
<1>12. InTurn'
  <2> SUFFICES ASSUME NEW s \in Seqs, NEW t \in Tables, query'[s].table = t,
                      owner'[s] \notin {"queue", "client"}
               PROVE  /\ Created(t)'
                      /\ \A r \in Seqs : r < s /\ query'[r].table = t => Over(r)'
    BY DEF InTurn, Created, Creates, Over
  <2>1. s # n
    BY <1>1, <1>4, <1>5, CommandShape
  <2>2. query'[s] = query[s] /\ owner[s] \notin {"queue", "client"}
    BY <1>1, <1>5, <2>1
  <2>3. s <= submitted
    BY <1>1, <2>2 DEF Ownership, ClientOwned, Owned
  <2>4. /\ Created(t)
        /\ \A r \in Seqs : r < s /\ query[r].table = t => Over(r)
    BY <2>2 DEF OrderInv, TokenInv, InTurn
  <2>5. \A r \in Seqs : r < s => query'[r] = query[r]
    BY <1>1, <1>5, <2>3
  <2> QED
    BY <1>6, <1>7, <2>4, <2>5
<1>13. InOrder'
  <2> SUFFICES ASSUME NEW t \in Tables PROVE Ascending(queue'[t])
    BY DEF InOrder
  <2>1. Ascending(queue[t]) /\ queue[t] \in Seq(Seqs) /\ t \in TableIds
    BY DEF OrderInv, TokenInv, InOrder, TypeOK, TableTypeOK, TableIds
  <2>2. CASE queue' = queue
    BY <2>1, <2>2
  <2>3. CASE queue' = [queue EXCEPT ![q.table] = Append(@, n)]
    <3>1. ASSUME NEW i \in DOMAIN queue[t] PROVE queue[t][i] < n
      <4>1. queue[t][i] \in OwnedQueue(t)
        BY <2>1 DEF Ownership, QueuesOwned, Lists, Range
      <4>2. queue[t][i] \in Seqs /\ owner[queue[t][i]] # "client"
        BY <4>1 DEF OwnedQueue
      <4>3. ~(queue[t][i] > submitted)
        BY <4>2 DEF Ownership, ClientOwned, Owned
      <4>4. ASSUME NEW x \in Seqs, ~(x > submitted) PROVE x < n
        BY <1>1, <4>4
      <4> QED
        BY <4>2, <4>3, <4>4
    <3>2. queue'[t] = IF t = q.table THEN Append(queue[t], n) ELSE queue[t]
      BY <2>1, <2>3 DEF TypeOK, TableTypeOK
    <3> QED
      BY <1>1, <2>1, <3>1, <3>2, AscendingAppend
  <2> QED
    BY <1>4, <2>2, <2>3
<1> QED
  BY <1>10, <1>11, <1>12, <1>13 DEF TokenInv

\* No LOAD is lost to a table: one that is still queued has the priority of what is at
\* the head of the table or a higher one, and precedes it.
LEMMA NoLoadLost ==
    ASSUME TypeOK, Ownership, RightPlace, ProgInv, QueuedTables, NEW t \in Eligible,
           LoadCand # 0
    PROVE  PreferLoad(t)
<1> DEFINE h == Head(queue[t])
           l == LoadCand
<1>1. /\ l \in Seqs /\ loadQueue # <<>> /\ l = Head(loadQueue)
      /\ t \in TableIds /\ queue[t] # <<>> /\ h \in Seqs /\ Seqs \subseteq Int
  BY CandidateTypes DEF Seqs
<1>2. owner[h] = "queue"
  <2>1. h \in OwnedQueue(t)
    BY <1>1, ListsTail DEF Ownership, QueuesOwned, TypeOK, TableTypeOK
  <2> QED
    BY <2>1 DEF OwnedQueue
<1>3. owner[l] = "loadQueue"
  <2>1. l \in Owned("loadQueue")
    BY <1>1, ListsTail DEF Ownership, LoadsOwned, TypeOK, LineTypeOK
  <2> QED
    BY <2>1 DEF Owned
<1> HIDE DEF h, l
<1>4. query[l].type = "Load"
  BY <1>1, <1>3 DEF RightPlace
<1>5. query[h].type \notin BarrierTypes \cup {"Load"}
  <2>1. query[h].table \in Tables /\ query[h] \in Commands \cup {NoCommand}
    BY <1>1, <1>2 DEF QueuedTables, ProgInv
  <2> QED
    BY <2>1, CommandShape
<1>6. Priority(l) = 1 /\ Priority(h) \in {1, 2}
  BY <1>4, <1>5, Priorities DEF Priority, BarrierTypes
<1>7. Priority(h) = 1 => ~(h < l)
  BY <1>1, <1>4, <1>5 DEF ProgInv, Priority
<1>8. h # l
  BY <1>4, <1>5
<1>9. Priority(l) < Priority(h) \/ (Priority(l) = Priority(h) /\ l < h)
  BY <1>1, <1>6, <1>7, <1>8
<1> QED
  BY <1>9 DEF PreferLoad, h, l

\* What creates a table has the table to itself until its completion is noted.
LEMMA CreatorAlone ==
    ASSUME TypeOK, ProgInv, TokenInv, NEW s \in Seqs, ~Over(s),
           NEW t \in Tables, Creates(query[s], t)
    PROVE  ~Token(t) /\ Out(t) = {}
<1>1. Seqs \subseteq Int
  BY DEF Seqs
<1>2. ASSUME Created(t) PROVE FALSE
  <2>1. PICK r \in Seqs : Creates(query[r], t) /\ Over(r)
    BY <1>2 DEF Created
  <2>2. r # s /\ (r < s \/ s < r)
    BY <1>1, <2>1
  <2>3. Names(query[r], t) /\ Names(query[s], t)
    BY <2>1 DEF Names
  <2> QED
    BY <2>1, <2>2, <2>3 DEF ProgInv
<1> QED
  BY <1>2 DEF TokenInv, CreatedFirst

\* Barriers and LOADs are in no table's queue: their fetch gives no table away.
LEMMA OthersFetched ==
    ASSUME TypeOK, RightPlace, OrderInv, query' = query, queue' = queue,
           mu' # "completing", NotParked', \A t \in Tables : Token(t)' => Token(t),
           \A s \in Seqs : \/ owner'[s] = owner[s]
                           \/ owner[s] \in {"barriers", "loadQueue"}
    PROVE  TokenInv'
<1>1. ASSUME NEW s \in Seqs, query[s].table \in Tables PROVE owner'[s] = owner[s]
  <2>1. query[s] \in Commands \cup {NoCommand}
    BY DEF OrderInv, ProgInv
  <2>2. query[s].type \notin BarrierTypes \cup {"Load"}
    BY <1>1, <2>1, CommandShape
  <2> QED
    BY <2>2 DEF RightPlace, QueuedPlaces
<1>2. \A s \in Seqs : Over(s) => Over(s)'
  BY DEF Over, OverPlaces
<1>3. CallbackAlone' /\ InOrder'
  BY DEF OrderInv, TokenInv, CallbackAlone, InOrder
<1>4. TokenInv
  BY DEF OrderInv
<1> QED
  BY <1>1, <1>2, <1>3, <1>4, TokensKept

\* getFetched takes tables off the index, to itself or to the line behind the barrier.
LEMMA GetFetchedTokens ==
    ASSUME TypeOK, NotParked, NEW t, NEW passed \in SUBSET Blocked, GetFetched(t, passed)
    PROVE  /\ NotParked'
           /\ \A u \in Tables : Token(u)' => Token(u)
           /\ t \in Tables /\ t \in Eligible =>
                 index[t] # 0 /\ index'[t] = 0 /\ t \notin waitingTables'
<1>1. /\ \A u \in TableIds : index'[u] = IF u \in passed \cup {t} THEN 0 ELSE index[u]
      /\ waitingTables' = waitingTables \cup passed
      /\ Tables \subseteq TableIds
  BY DEF GetFetched, TableIds
<1>2. \A u \in passed : index[u] # 0 /\ u \in Blocked
  BY DEF Blocked, Indexed
<1>3. NotParked'
  BY <1>1, <1>2 DEF NotParked
<1>4. \A u \in Tables : Token(u)' => Token(u)
  BY <1>1, <1>2 DEF Token
<1>5. t \in Tables /\ t \in Eligible =>
         index[t] # 0 /\ index'[t] = 0 /\ t \notin waitingTables'
  BY <1>1, <1>2 DEF NotParked, Eligible, Indexed
<1> QED
  BY <1>3, <1>4, <1>5

\* The steps of fetchNext that take nothing out of the queue of a table.
LEMMA IdleTokens ==
    ASSUME TypeOK, Ownership, RightPlace, OrderInv,
           \/ FetchNothing \/ FetchBarrier
           \/ \E t \in Eligible \cup {NoTable}, passed \in SUBSET Blocked :
                 LoadWaits(t, passed) \/ FetchLoad(t, passed)
    PROVE  TokenInv'
<1>1. NotParked
  BY DEF OrderInv, TokenInv
<1>2. CASE FetchNothing
  <2>1. /\ query' = query /\ queue' = queue /\ mu' # "completing" /\ owner' = owner
        /\ GetFetched(NoTable, Blocked)
    BY <1>2 DEF FetchNothing, FetchUnchanged, clientVars, itemVars
  <2>2. NotParked' /\ \A t \in Tables : Token(t)' => Token(t)
    BY <1>1, <2>1, GetFetchedTokens
  <2> QED
    BY <2>1, <2>2, OthersFetched
<1>3. CASE FetchBarrier
  <2> DEFINE b == Head(barriers)
  <2>1. /\ query' = query /\ queue' = queue /\ mu' # "completing" /\ waitingTables' = {}
        /\ barriers # <<>> /\ owner' = [owner EXCEPT ![b] = "fetched"]
    BY <1>3 DEF FetchBarrier, BarrierMayGo, FetchUnchanged, clientVars, Launch, Unpark
  <2>2. b \in Owned("barriers")
    BY <2>1, ListsTail DEF Ownership, BarriersOwned, TypeOK, LineTypeOK
  <2>3. \A s \in Seqs : owner'[s] = owner[s] \/ owner[s] = "barriers"
    BY <2>1, <2>2 DEF Owned, TypeOK, ItemTypeOK
  <2>4. \A t \in TableIds : index'[t] = index[t] \/ t \in waitingTables \cup Blocked
    BY <1>3 DEF FetchBarrier
  <2>5. \A t \in Tables : Token(t)' => Token(t)
    BY <2>1, <2>4 DEF Token, Blocked, Indexed, TableIds
  <2>6. NotParked'
    BY <2>1 DEF NotParked
  <2> QED
    BY <2>1, <2>3, <2>5, <2>6, OthersFetched
<1>4. ASSUME NEW t \in Eligible \cup {NoTable}, NEW passed \in SUBSET Blocked,
             LoadWaits(t, passed) \/ FetchLoad(t, passed)
      PROVE  TokenInv'
  <2> DEFINE l == LoadCand
  <2>1. LoadWins(t, passed)
    BY <1>4 DEF LoadWaits, FetchLoad
  <2>2. /\ query' = query /\ queue' = queue /\ GetFetched(t, passed) /\ l # 0
    BY <2>1 DEF LoadWins, PreferLoad, FetchUnchanged, clientVars
  <2>3. mu' # "completing" /\ \E o \in Owners : owner' = [owner EXCEPT ![l] = o]
    <3>1. WaitOwner(l) \in Owners /\ "fetched" \in Owners
      BY DEF WaitOwner, Owners
    <3> QED
      BY <1>4, <3>1 DEF LoadWaits, FetchLoad, Launch
  <2>4. l \in Owned("loadQueue")
    <3>1. l = Head(loadQueue) /\ loadQueue # <<>>
      BY <2>2, CandidateTypes
    <3> QED
      BY <3>1, ListsTail DEF Ownership, LoadsOwned, TypeOK, LineTypeOK
  <2>5. \A s \in Seqs : owner'[s] = owner[s] \/ owner[s] = "loadQueue"
    BY <2>3, <2>4 DEF Owned, TypeOK, ItemTypeOK
  <2>6. NotParked' /\ \A u \in Tables : Token(u)' => Token(u)
    BY <1>1, <2>2, GetFetchedTokens
  <2> QED
    BY <2>2, <2>3, <2>5, <2>6, OthersFetched
<1> QED
  BY <1>2, <1>3, <1>4

\* Where the queries before the head of a table's queue are: a head that may be fetched
\* has them all behind it.
LEMMA HeadInTurn ==
    ASSUME TypeOK, Ownership, RightPlace, OrderInv, NEW t \in Tables, Out(t) = {},
           queue[t] # <<>>, NEW r \in Seqs, r < Head(queue[t]), query[r].table = t
    PROVE  Over(r)
<1> DEFINE x == Head(queue[t])
<1>1. t \in TableIds /\ queue[t] \in Seq(Seqs) /\ Ascending(queue[t])
  BY DEF TypeOK, TableTypeOK, TableIds, OrderInv, TokenInv, InOrder
<1>2. x \in OwnedQueue(t) /\ Range(queue[t]) = OwnedQueue(t)
  BY <1>1, ListsTail DEF Ownership, QueuesOwned, Lists
<1>3. x \in Seqs /\ owner[x] = "queue" /\ Seqs \subseteq Int /\ submitted \in Int
  BY <1>2 DEF OwnedQueue, Seqs, TypeOK, ClientTypeOK
<1>4. \A i \in DOMAIN queue[t] : queue[t][i] = x \/ x < queue[t][i]
  BY <1>1, AscendingTail
<1>5. ~(x > submitted) /\ (owner[r] = "client" => r > submitted)
  BY <1>3 DEF Ownership, ClientOwned, Owned
<1> HIDE DEF x
<1>6. r < x
  BY DEF x
<1>7. owner[r] # "client"
  BY <1>3, <1>5, <1>6
<1>8. owner[r] # "queue"
  <2> SUFFICES ASSUME owner[r] = "queue" PROVE FALSE
    OBVIOUS
  <2>1. query[r] \in Commands \cup {NoCommand}
    BY DEF OrderInv, ProgInv
  <2>2. item[r].tableId = t
    BY <2>1, CommandShape DEF OrderInv, Routed, RoutedAs
  <2>3. r \in Range(queue[t])
    BY <1>2, <2>2 DEF OwnedQueue
  <2>4. PICK i \in DOMAIN queue[t] : queue[t][i] = r
    BY <2>3 DEF Range
  <2>5. r = x \/ x < r
    BY <1>4, <2>4
  <2> QED
    BY <1>3, <1>6, <2>5
<1>9. owner[r] \notin OutPlaces
  BY DEF Out
<1> QED
  BY <1>7, <1>8, <1>9, TablePlaces DEF Over

\* The head of a table's queue leaves with the table's token; no LOAD is lost.
LEMMA TableTokens ==
    ASSUME TypeOK, Ownership, RightPlace, OrderInv, NEW t \in Eligible \cup {NoTable},
           NEW passed \in SUBSET Blocked, TableWaits(t, passed) \/ FetchTable(t, passed)
    PROVE  /\ TokenInv'
           /\ \A s \in Seqs : owner'[s] # "broken" /\ (owner'[s] = "queue" => owner[s] = "queue")
<1> DEFINE x == Head(queue[t])
<1>1. TableWins(t, passed) /\ t \in Eligible
  BY DEF TableWaits, FetchTable, TableWins
<1>2. t \in TableIds /\ queue[t] # <<>> /\ queue[t] \in Seq(Seqs)
  BY <1>1, CandidateTypes DEF TypeOK, TableTypeOK
<1>3. LoadCand = 0
  BY <1>1, NoLoadLost DEF TableWins, OrderInv
<1>4. /\ x \in Seqs /\ owner[x] = "queue" /\ item[x].tableId = t
  <2>1. x \in OwnedQueue(t)
    BY <1>2, ListsTail DEF Ownership, QueuesOwned
  <2> QED
    BY <2>1 DEF OwnedQueue
<1>5. query[x].table = t /\ t \in Tables
  <2>1. query[x].table \in Tables /\ query[x] \in Commands \cup {NoCommand}
    BY <1>4 DEF OrderInv, QueuedTables, ProgInv
  <2>2. query[x].type # "Load"
    BY <2>1, CommandShape
  <2> QED
    BY <1>4, <2>1, <2>2 DEF OrderInv, Routed, RoutedAs
<1>6. /\ query' = query /\ queue' = [queue EXCEPT ![t] = Tail(@)]
      /\ GetFetched(t, passed)
  BY <1>1 DEF TableWins, PopFront, FetchUnchanged, clientVars
<1>7. /\ owner'[x] \in {"fetched", "waitingFile", "waitingTable"} /\ mu' # "completing"
      /\ \A s \in Seqs : s # x => owner'[s] = owner[s]
  <2>1. \A s \in Seqs : s # 0
    BY DEF Seqs
  <2> QED
    BY <1>3, <1>4, <2>1 DEF TableWaits, FetchTable, Takes, WaitOwner, Launch
<1>8. /\ NotParked' /\ \A u \in Tables : Token(u)' => Token(u)
      /\ index[t] # 0 /\ index'[t] = 0 /\ t \notin waitingTables'
  <2>1. NotParked
    BY DEF OrderInv, TokenInv
  <2> QED
    BY <1>1, <1>5, <1>6, <2>1, GetFetchedTokens
<1>9. Token(t) /\ ~Token(t)' /\ Out(t) = {} /\ Created(t)
  <2>1. Token(t) /\ ~Token(t)'
    BY <1>8 DEF Token
  <2> QED
    BY <1>5, <2>1 DEF OrderInv, TokenInv, OneUser, CreatedFirst
<1>10. \A s \in Seqs : Over(s) => Over(s)'
  BY <1>4, <1>7 DEF Over, OverPlaces
<1>11. \A u : Created(u) => Created(u)'
  BY <1>6, <1>10 DEF Created
<1> HIDE DEF x
<1>12. Out(t)' = {x}
  BY <1>4, <1>5, <1>6, <1>7, <1>9 DEF Out, OutPlaces
<1>13. \A u \in Tables : u # t => Out(u)' = Out(u)
  BY <1>5, <1>6, <1>7 DEF Out
<1>14. OneUser'
  BY <1>8, <1>9, <1>12, <1>13 DEF OrderInv, TokenInv, OneUser
<1>15. CallbackAlone'
  BY <1>7 DEF CallbackAlone
<1>16. CreatedFirst'
  BY <1>8, <1>9, <1>11, <1>13 DEF OrderInv, TokenInv, CreatedFirst
<1>17. InTurn'
  <2> SUFFICES ASSUME NEW s \in Seqs, NEW u \in Tables, query[s].table = u,
                      owner'[s] \notin {"queue", "client"}
               PROVE  /\ Created(u)'
                      /\ \A r \in Seqs : r < s /\ query[r].table = u => Over(r)'
    BY <1>6 DEF InTurn, Created, Over
  <2>1. CASE s = x
    BY <1>2, <1>5, <1>9, <1>10, <1>11, <2>1, HeadInTurn DEF x
  <2>2. CASE s # x
    <3>1. owner[s] \notin {"queue", "client"}
      BY <1>7, <2>2
    <3> QED
      BY <1>10, <1>11, <3>1 DEF OrderInv, TokenInv, InTurn
  <2> QED
    BY <2>1, <2>2
<1>18. InOrder'
  <2> SUFFICES ASSUME NEW u \in Tables PROVE Ascending(queue'[u])
    BY DEF InOrder
  <2>1. Ascending(queue[u]) /\ u \in TableIds
    BY DEF OrderInv, TokenInv, InOrder, TableIds
  <2>2. queue'[u] = IF u = t THEN Tail(queue[t]) ELSE queue[u]
    BY <1>6, <2>1 DEF TypeOK, TableTypeOK
  <2> QED
    BY <1>2, <2>1, <2>2, AscendingTail
<1>19. \A s \in Seqs : owner'[s] # "broken" /\ (owner'[s] = "queue" => owner[s] = "queue")
  BY <1>7 DEF OrderInv, EveryQueryCompletes
<1> QED
  BY <1>8, <1>14, <1>15, <1>16, <1>17, <1>18, <1>19 DEF TokenInv

\* What is in the queue of a table is of that table.
LEMMA QueuedHere ==
    ASSUME TypeOK, Ownership, OrderInv, NEW t \in Tables, NEW i \in DOMAIN queue[t]
    PROVE  /\ queue[t][i] \in Seqs /\ owner[queue[t][i]] = "queue"
           /\ query[queue[t][i]].table = t
<1> DEFINE y == queue[t][i]
<1>1. y \in OwnedQueue(t)
  BY DEF Ownership, QueuesOwned, Lists, Range, TableIds
<1> HIDE DEF y
<1>2. y \in Seqs /\ owner[y] = "queue" /\ item[y].tableId = t
  BY <1>1 DEF OwnedQueue
<1>3. query[y].table \in Tables /\ query[y] \in Commands \cup {NoCommand}
  BY <1>2 DEF OrderInv, QueuedTables, ProgInv
<1>4. query[y].type # "Load"
  BY <1>3, CommandShape
<1>5. query[y].table = t
  BY <1>2, <1>4 DEF OrderInv, Routed, RoutedAs
<1> QED
  BY <1>2, <1>5 DEF y

\* A released query returns to the front of its table's queue, before all that follow it.
LEMMA ReturnTokens ==
    ASSUME TypeOK, Ownership, RightPlace, OrderInv, ReadyUnchanged, item' = item,
           NEW r \in Seqs, owner[r] \in {"readyFile", "readyTable"},
           \/ ToLoadQueue(r) /\ query[r].type = "Load"
           \/ ToTableQueue(r) /\ query[r].type # "Load"
           \/ \E t \in TableIds : ToTableWait(t, r)
    PROVE  TokenInv'
<1>1. /\ query' = query /\ waitingTables' = waitingTables /\ mu' = mu /\ current' = current
  BY DEF ReadyUnchanged, clientVars, barrierVars
<1>2. TokenInv /\ query[r] \in Commands \cup {NoCommand}
  BY DEF OrderInv, ProgInv
<1>3. /\ owner'[r] \in {"loadQueue", "queue", "waitingTable"}
      /\ \A s \in Seqs : s # r => owner'[s] = owner[s]
  BY DEF ToLoadQueue, ToTableQueue, ToTableWait, TypeOK, ItemTypeOK
<1>4. owner'[r] = "loadQueue" => query[r].table \notin Tables
  BY <1>2, CommandShape DEF ToLoadQueue, ToTableQueue, ToTableWait, TypeOK, ItemTypeOK
<1>5. \A s \in Seqs : Over(s) => Over(s)'
  BY <1>3 DEF Over, OverPlaces
<1>6. \A s \in Seqs : query[s].table \in Tables =>
         /\ owner'[s] \in OutPlaces => owner[s] \in OutPlaces
         /\ owner[s] \in {"queue", "client"} => owner'[s] \in {"queue", "client"}
  BY <1>3 DEF OutPlaces
<1>7. CallbackAlone'
  <2>1. \A t \in Tables : Out(t)' \subseteq Out(t)
    BY <1>1, <1>6 DEF Out
  <2> QED
    BY <1>1, <1>2, <2>1 DEF TokenInv, CallbackAlone
<1>8. CASE ToLoadQueue(r) \/ \E t \in TableIds : ToTableWait(t, r)
  <2>1. index' = index /\ queue' = queue
    BY <1>8 DEF ToLoadQueue, ToTableWait
  <2>2. NotParked' /\ InOrder' /\ \A t \in Tables : Token(t)' => Token(t)
    BY <1>1, <1>2, <2>1 DEF TokenInv, NotParked, InOrder, Token
  <2> QED
    BY <1>1, <1>2, <1>5, <1>6, <1>7, <2>2, TokensKept
<1>9. CASE ToTableQueue(r) /\ query[r].type # "Load"
  <2>1. query[r].table \in Tables
    <3>1. ~(r > submitted)
      BY DEF Ownership, ClientOwned, Owned
    <3>2. query[r] \in Commands
      <4>1. r <= submitted
        BY <3>1 DEF Seqs, TypeOK, ClientTypeOK
      <4> QED
        BY <4>1 DEF OrderInv, ProgInv
    <3>3. query[r].type \notin BarrierTypes
      BY DEF RightPlace, QueuedPlaces
    <3> QED
      BY <1>9, <3>2, <3>3, CommandShape
  <2>2. PICK u \in Tables : query[r].table = u /\ item[r].tableId = u /\ u \in TableIds
    BY <1>9, <2>1 DEF OrderInv, Routed, RoutedAs, TableIds
  <2>3. /\ queue' = [queue EXCEPT ![u] = <<r>> \o @] /\ index' = [index EXCEPT ![u] = r]
        /\ owner' = [owner EXCEPT ![r] = "queue"]
    BY <1>9, <2>2 DEF ToTableQueue
  <2>4. r \in Out(u)
    BY <2>2 DEF Out, OutPlaces
  <2>5. ~Token(u) /\ Out(u) = {r} /\ Created(u)
    BY <1>2, <2>2, <2>4 DEF TokenInv, OneUser, CreatedFirst
  <2>6. Out(u)' = {}
    BY <1>1, <1>6, <2>3, <2>5 DEF Out, TypeOK, ItemTypeOK, OutPlaces
  <2>7. Created(u)'
    BY <1>1, <1>5, <2>5 DEF Created
  <2>8. /\ \A t \in TableIds : t # u => index'[t] = index[t] /\ queue'[t] = queue[t]
        /\ queue'[u] = <<r>> \o queue[u]
    BY <2>2, <2>3 DEF TypeOK, TableTypeOK
  <2>9. \A t \in Tables : Token(t)' => Token(t) \/ (Created(t)' /\ Out(t)' = {})
    BY <1>1, <2>6, <2>7, <2>8 DEF Token, TableIds
  <2>10. NotParked'
    BY <1>1, <1>2, <2>5, <2>8 DEF TokenInv, NotParked, Token, TableIds
  <2>11. InOrder'
    <3>1. queue[u] \in Seq(Seqs) /\ Ascending(queue[u])
      BY <1>2, <2>2 DEF TypeOK, TableTypeOK, TokenInv, InOrder
    <3>2. ASSUME NEW i \in DOMAIN queue[u] PROVE r < queue[u][i]
      <4> DEFINE y == queue[u][i]
      <4>1. y \in Seqs /\ owner[y] = "queue" /\ query[y].table = u
        BY <2>2, <3>2, QueuedHere
      <4> HIDE DEF y
      <4>2. y # r /\ ~Over(y)
        BY <4>1 DEF Over, OverPlaces
      <4>3. ~(y < r)
        BY <1>2, <2>2, <2>4, <4>1, <4>2 DEF TokenInv, InTurn, Out, OutPlaces
      <4>4. r < y
        BY <4>1, <4>2, <4>3 DEF Seqs
      <4> QED
        BY <4>4 DEF y
    <3>3. Ascending(<<r>> \o queue[u])
      BY <3>1, <3>2, AscendingCons
    <3> QED
      BY <1>2, <2>8, <3>3 DEF TokenInv, InOrder, TableIds
  <2> QED
    BY <1>1, <1>2, <1>5, <1>6, <1>7, <2>9, <2>10, <2>11, TokensKept
<1> QED
  BY <1>8, <1>9

\* The items that a callback has released.
LEMMA ReleaseTokens ==
    ASSUME TypeOK, Ownership, RightPlace, OrderInv, NEW r \in Seqs,
           UpdateReadyFiles(r) \/ \E t \in TableIds : UpdateReadyTables(t, r)
    PROVE  TokenInv' /\ item' = item
<1>1. ReadyUnchanged
  BY DEF UpdateReadyFiles, UpdateReadyTables
<1>2. owner[r] \in {"readyFile", "readyTable"}
  BY DEF UpdateReadyFiles, UpdateReadyTables, Ownership, ReadyOwned, Owned, Spread
<1>3. item[r].pendingTable = {}
  BY DEF OrderInv, Routed, RoutedAs
<1>4. query[r].newTable \in TableIds /\ item[r].tableId \in TableIds
  BY DEF TypeOK, ClientTypeOK, ItemTypeOK, Command, Item
<1>5. /\ item' = item
      /\ \/ ToLoadQueue(r) /\ query[r].type = "Load"
         \/ ToTableQueue(r) /\ query[r].type # "Load"
         \/ \E t \in TableIds : ToTableWait(t, r)
  <2>1. CASE UpdateReadyFiles(r)
    BY <1>3, <1>4, <2>1 DEF UpdateReadyFiles, ToTableQueue, ToTableWait
  <2>2. CASE \E t \in TableIds : UpdateReadyTables(t, r)
    BY <1>4, <2>2 DEF UpdateReadyTables, ToTableQueue, ToTableWait
  <2> QED
    BY <2>1, <2>2
<1> QED
  BY <1>1, <1>2, <1>5, ReturnTokens

\* What the start of a callback does to the owners.
LEMMA BeginOwners ==
    ASSUME TypeOK, Ownership, NEW s \in Seqs, BeginCompletion(s)
    PROVE  /\ owner[s] = "fetched" /\ owner'[s] = "completing"
           /\ \A q \in Seqs : q # s =>
                 \/ owner'[q] = owner[q]
                 \/ /\ owner[q] \in {"waitingFile", "waitingTable"}
                    /\ owner'[q] \in {"readyFile", "readyTable"}
<1> DEFINE f     == query[s].file
           files == IF f = NoFile THEN {} ELSE ReleasedFile(f, s)
           freed == UNION {ReleasedTable(t, s) : t \in CompletedTables(s)}
<1>1. /\ f \in FileIds /\ query[s].newTable \in TableIds
      /\ item[s].tableId \in TableIds /\ item[s].pendingTable \subseteq TableIds
  BY DEF TypeOK, ClientTypeOK, ItemTypeOK, Command, Item
<1>2. CompletedTables(s) \subseteq TableIds
  BY <1>1 DEF CompletedTables
<1>3. \A q \in files : owner[q] = "waitingFile"
  BY <1>1 DEF ReleasedFile, Ownership, FilesOwned, OwnedWait
<1>4. \A q \in freed : q \in Seqs => owner[q] = "waitingTable"
  <2>1. \A q \in freed : \E t \in TableIds : q \in waitingTable[t]
    BY <1>2 DEF ReleasedTable
  <2> QED
    BY <2>1 DEF Ownership, WaitersOwned, Spread
<1>5. \A q \in Seqs : owner'[q] = IF q = s THEN "completing"
                                  ELSE IF q \in files THEN "readyFile"
                                  ELSE IF q \in freed THEN "readyTable"
                                  ELSE owner[q]
  BY DEF BeginCompletion
<1>6. owner[s] = "fetched"
  BY DEF BeginCompletion
<1> HIDE DEF files, freed
<1> QED
  BY <1>3, <1>4, <1>5, <1>6

\* A query that completes has its tables, those it creates among them, to itself.
LEMMA BeginTables ==
    ASSUME TypeOK, Ownership, OrderInv, NEW s \in Seqs, BeginCompletion(s),
           NEW t \in Tables, Creates(query[s], t) \/ query[s].table = t
    PROVE  ~Token(t) /\ Out(t)' = {} /\ Created(t)'
<1>1. /\ owner[s] = "fetched" /\ owner'[s] = "completing"
      /\ \A q \in Seqs : owner'[q] \in OutPlaces => owner[q] \in OutPlaces /\ q # s
      /\ \A q \in Seqs : Over(q) => Over(q)'
  BY BeginOwners DEF OutPlaces, Over, OverPlaces
<1>2. query' = query
  BY DEF BeginCompletion, clientVars
<1>3. TokenInv /\ ProgInv
  BY DEF OrderInv
<1>4. Out(t)' \subseteq Out(t) \ {s}
  BY <1>1, <1>2 DEF Out
<1>5. CASE Creates(query[s], t)
  <2>1. ~Over(s) /\ Over(s)'
    BY <1>1 DEF Over, OverPlaces
  <2>2. ~Token(t) /\ Out(t) = {}
    BY <1>3, <1>5, <2>1, CreatorAlone
  <2>3. Created(t)'
    BY <1>2, <1>5, <2>1 DEF Created
  <2> QED
    BY <1>4, <2>2, <2>3
<1>6. CASE query[s].table = t
  <2>1. s \in Out(t)
    BY <1>1, <1>6 DEF Out, OutPlaces
  <2>2. ~Token(t) /\ Out(t) \ {s} = {} /\ Created(t)
    BY <1>3, <2>1 DEF TokenInv, OneUser, CreatedFirst
  <2>3. Created(t)'
    BY <1>1, <1>2, <2>2 DEF Created
  <2> QED
    BY <1>4, <2>2, <2>3
<1> QED
  BY <1>5, <1>6

\* Registering a table drops no query, for none of the table is older.
LEMMA NothingStale ==
    ASSUME TypeOK, Ownership, OrderInv, NEW s \in Seqs, BeginCompletion(s)
    PROVE  /\ \A t \in Registers(s) : t \in Tables =>
                 Creates(query[s], t) \/ query[s].table = t
           /\ Stale(s) = {}
           /\ item' = item
<1>1. query[s] \in Commands \cup {NoCommand} /\ RoutedAs(query[s], item[s])
  BY DEF OrderInv, ProgInv, Routed
<1>2. ASSUME NEW t \in Registers(s), t \in Tables
      PROVE  Creates(query[s], t) \/ query[s].table = t
  BY <1>1, <1>2 DEF Registers, RoutedAs, Creates
<1>3. ASSUME NEW q \in Seqs, q < s, NEW t \in Registers(s), q \in Range(queue[t]) PROVE FALSE
  <2>1. t \in TableIds
    BY DEF Registers
  <2>2. q \in OwnedQueue(t)
    BY <1>3, <2>1 DEF Ownership, QueuesOwned, Lists
  <2>3. owner[q] = "queue" /\ item[q].tableId = t
    BY <2>2 DEF OwnedQueue
  <2>4. query[q].table \in Tables /\ query[q] \in Commands \cup {NoCommand}
    BY <2>3 DEF OrderInv, QueuedTables, ProgInv
  <2>5. query[q].table = t /\ t \in Tables
    <3>1. query[q].type # "Load"
      BY <2>4, CommandShape
    <3> QED
      BY <2>3, <2>4, <3>1 DEF OrderInv, Routed, RoutedAs
  <2>6. CASE Creates(query[s], t)
    BY <1>3, <2>5, <2>6 DEF OrderInv, ProgInv, Names
  <2>7. CASE query[s].table = t
    <3>1. owner[s] = "fetched"
      BY DEF BeginCompletion
    <3>2. Over(q)
      BY <1>3, <2>5, <2>7, <3>1 DEF OrderInv, TokenInv, InTurn
    <3> QED
      BY <2>3, <3>2 DEF Over, OverPlaces
  <2> QED
    BY <1>2, <2>5, <2>6, <2>7
<1>4. Stale(s) = {}
  BY <1>3 DEF Stale
<1>5. item' = item
  BY <1>4 DEF BeginCompletion, TypeOK, ItemTypeOK
<1> QED
  BY <1>2, <1>4, <1>5

\* The start of the callback gives the tables it registers to the index.
LEMMA BeginTokens ==
    ASSUME TypeOK, Ownership, OrderInv, NEW s \in Seqs, BeginCompletion(s)
    PROVE  TokenInv'
<1>1. /\ query' = query /\ queue' = queue /\ waitingTables' = waitingTables
      /\ current' = s
      /\ \A t \in TableIds : index'[t] = IF t \in Registers(s) /\ queue[t] # <<>>
                                         THEN Head(queue[t]) ELSE index[t]
  BY DEF BeginCompletion, clientVars, barrierVars
<1>2. TokenInv /\ Tables \subseteq TableIds
  BY DEF OrderInv, TableIds
<1>3. /\ \A q \in Seqs : owner'[q] \in OutPlaces => owner[q] \in OutPlaces
      /\ \A q \in Seqs : owner[q] \in {"queue", "client"} => owner'[q] \in {"queue", "client"}
      /\ \A q \in Seqs : Over(q) => Over(q)'
  BY BeginOwners DEF OutPlaces, Over, OverPlaces
<1>4. ASSUME NEW t \in Tables, t \in Registers(s)
      PROVE  ~Token(t) /\ Out(t)' = {} /\ Created(t)'
  BY <1>4, NothingStale, BeginTables
<1>5. NotParked'
  BY <1>1, <1>2, <1>4 DEF TokenInv, NotParked, Token
<1>6. CallbackAlone'
  <2> SUFFICES ASSUME NEW t \in Tables, item[s].tableId = t
               PROVE  t \notin waitingTables /\ Out(t)' = {}
    BY <1>1, NothingStale DEF CallbackAlone
  <2>1. Creates(query[s], t) \/ query[s].table = t
    BY DEF OrderInv, Routed, RoutedAs, Creates
  <2> QED
    BY <2>1, BeginTables DEF Token
<1>7. InOrder'
  BY <1>1, <1>2 DEF TokenInv, InOrder
<1>8. \A t \in Tables : Token(t)' => Token(t) \/ (Created(t)' /\ Out(t)' = {})
  BY <1>1, <1>2, <1>4 DEF Token
<1> QED
  BY <1>1, <1>2, <1>3, <1>5, <1>6, <1>7, <1>8, TokensKept

\* The end of the callback gives the table back to the index.
LEMMA FinishTokens ==
    ASSUME TypeOK, Ownership, OrderInv, NEW s \in Seqs, FinishCompletion(s)
    PROVE  TokenInv'
<1>1. /\ query' = query /\ queue' = queue /\ waitingTables' = waitingTables
      /\ s = current /\ mu = "completing" /\ mu' = "free"
      /\ owner' = [owner EXCEPT ![s] = "notified"]
  BY DEF FinishCompletion, clientVars, barrierVars, UnlockMu
<1>2. TokenInv /\ Tables \subseteq TableIds /\ owner[s] = "completing"
  BY <1>1 DEF OrderInv, TableIds, Ownership, CallbackOwned, Owned
<1>3. /\ owner'[s] = "notified" /\ \A q \in Seqs : q # s => owner'[q] = owner[q]
  BY <1>1 DEF TypeOK, ItemTypeOK
<1>4. /\ \A q \in Seqs : owner'[q] \in OutPlaces => owner[q] \in OutPlaces
      /\ \A q \in Seqs : owner[q] \in {"queue", "client"} => owner'[q] \in {"queue", "client"}
      /\ \A q \in Seqs : Over(q) => Over(q)'
  BY <1>2, <1>3 DEF OutPlaces, Over, OverPlaces
<1>5. \A t \in Tables : index'[t] = index[t] \/ t = item[s].tableId
  BY <1>2 DEF FinishCompletion, IndexNext, TypeOK, TableTypeOK
<1>6. ASSUME NEW t \in Tables, t = item[s].tableId
      PROVE  t \notin waitingTables /\ Out(t)' = {} /\ Created(t)'
  <2>1. t \notin waitingTables /\ Out(t) = {}
    BY <1>1, <1>2, <1>6 DEF TokenInv, CallbackAlone
  <2>2. Out(t)' = {}
    BY <1>1, <1>4, <2>1 DEF Out
  <2>3. Created(t)
    <3>1. Creates(query[s], t) \/ query[s].table = t
      BY <1>6 DEF OrderInv, Routed, RoutedAs, Creates
    <3>2. Over(s) /\ owner[s] \notin {"queue", "client"}
      BY <1>2 DEF Over, OverPlaces
    <3> QED
      BY <1>2, <3>1, <3>2 DEF Created, TokenInv, InTurn
  <2>4. Created(t)'
    BY <1>1, <1>4, <2>3 DEF Created
  <2> QED
    BY <2>1, <2>2, <2>4
<1>7. NotParked'
  BY <1>1, <1>2, <1>5, <1>6 DEF TokenInv, NotParked
<1>8. CallbackAlone' /\ InOrder'
  BY <1>1, <1>2 DEF TokenInv, InOrder, CallbackAlone
<1>9. \A t \in Tables : Token(t)' => Token(t) \/ (Created(t)' /\ Out(t)' = {})
  BY <1>1, <1>5, <1>6 DEF Token
<1> QED
  BY <1>1, <1>2, <1>4, <1>7, <1>8, <1>9, TokensKept

\* The steps that move nothing but the counters or the switch of the queue.
LEMMA QuietTokens ==
    ASSUME TypeOK, TokenInv, SetReady \/ UNCHANGED vars \/ \E s \in Seqs : Retire(s)
    PROVE  TokenInv'
<1>1. /\ query' = query /\ queue' = queue /\ waitingTables' = waitingTables
      /\ index' = index /\ mu' = mu /\ current' = current /\ item' = item
  BY DEF SetReady, Retire, vars, clientVars, itemVars, tableVars, barrierVars, muVars
<1>2. \A q \in Seqs : owner'[q] = owner[q] \/ (owner[q] = "notified" /\ owner'[q] = "completed")
  <2>1. CASE \E s \in Seqs : Retire(s)
    BY <2>1 DEF Retire, TypeOK, ItemTypeOK
  <2>2. CASE SetReady \/ UNCHANGED vars
    BY <2>2 DEF SetReady, vars, itemVars
  <2> QED
    BY <2>1, <2>2
<1>3. /\ \A q \in Seqs : owner'[q] \in OutPlaces => owner[q] \in OutPlaces
      /\ \A q \in Seqs : owner[q] \in {"queue", "client"} => owner'[q] \in {"queue", "client"}
      /\ \A q \in Seqs : Over(q) => Over(q)'
  BY <1>2 DEF OutPlaces, Over, OverPlaces
<1>4. \A t \in Tables : Out(t)' \subseteq Out(t)
  BY <1>1, <1>3 DEF Out
<1>5. NotParked' /\ CallbackAlone' /\ InOrder'
  BY <1>1, <1>4 DEF TokenInv, NotParked, CallbackAlone, InOrder
<1>6. \A t \in Tables : Token(t)' => Token(t)
  BY <1>1 DEF Token
<1> QED
  BY <1>1, <1>3, <1>5, <1>6, TokensKept

\* No step of fetchNext breaks a promise or puts a query into a queue.
LEMMA FetchTokens ==
    ASSUME TypeOK, Ownership, RightPlace, OrderInv, FetchStep
    PROVE  /\ TokenInv'
           /\ \A s \in Seqs : owner'[s] # "broken" /\ (owner'[s] = "queue" => owner[s] = "queue")
<1>1. ASSUME NEW t \in Eligible \cup {NoTable}, NEW passed \in SUBSET Blocked,
             TableWaits(t, passed) \/ FetchTable(t, passed)
      PROVE  /\ TokenInv'
             /\ \A s \in Seqs : /\ owner'[s] # "broken"
                                /\ owner'[s] = "queue" => owner[s] = "queue"
  BY <1>1, TableTokens
<1>2. ASSUME \/ FetchNothing \/ FetchBarrier
             \/ \E t \in Eligible \cup {NoTable}, passed \in SUBSET Blocked :
                   LoadWaits(t, passed) \/ FetchLoad(t, passed)
      PROVE  /\ TokenInv'
             /\ \A s \in Seqs : /\ owner'[s] # "broken"
                                /\ owner'[s] = "queue" => owner[s] = "queue"
  <2>1. \/ owner' = owner
        \/ \E z, o : /\ owner' = [owner EXCEPT ![z] = o]
                     /\ o \in {"fetched", "waitingFile", "waitingTable"}
    <3>1. WaitOwner(LoadCand) \in {"waitingFile", "waitingTable"}
      BY DEF WaitOwner
    <3> QED
      BY <1>2, <3>1 DEF FetchNothing, itemVars, FetchBarrier, LoadWaits, FetchLoad
  <2>2. \A s \in Seqs : owner'[s] = owner[s] \/ owner'[s] \in {"fetched", "waitingFile", "waitingTable"}
    BY <2>1 DEF TypeOK, ItemTypeOK
  <2>3. \A s \in Seqs : owner[s] # "broken"
    BY DEF OrderInv, EveryQueryCompletes
  <2> QED
    BY <1>2, <2>2, <2>3, IdleTokens
<1> QED
  BY <1>1, <1>2 DEF FetchStep

\* Nor does the callback; what it puts back into a queue is of that table.
LEMMA CompletionTokens ==
    ASSUME TypeOK, Ownership, RightPlace, OrderInv, CompletionStep
    PROVE  /\ TokenInv' /\ item' = item
           /\ \A s \in Seqs : /\ owner'[s] # "broken"
                              /\ owner'[s] = "queue" =>
                                    owner[s] = "queue" \/ query[s].table \in Tables
<1> SUFFICES ASSUME NEW s \in Seqs,
                    \/ BeginCompletion(s)
                    \/ UpdateReadyFiles(s)
                    \/ \E t \in TableIds : UpdateReadyTables(t, s)
                    \/ FinishCompletion(s)
                    \/ Retire(s)
             PROVE  /\ TokenInv' /\ item' = item
                    /\ \A r \in Seqs : /\ owner'[r] # "broken"
                                       /\ owner'[r] = "queue" =>
                                             owner[r] = "queue" \/ query[r].table \in Tables
  BY DEF CompletionStep
<1>1. /\ \A r \in Seqs : owner[r] # "broken"
      /\ TokenInv
  BY DEF OrderInv, EveryQueryCompletes
<1>2. CASE BeginCompletion(s)
  BY <1>1, <1>2, BeginTokens, BeginOwners, NothingStale
<1>3. CASE UpdateReadyFiles(s) \/ \E t \in TableIds : UpdateReadyTables(t, s)
  <2>1. TokenInv' /\ item' = item
    BY <1>3, ReleaseTokens
  <2>2. owner[s] \in {"readyFile", "readyTable"}
    BY <1>3 DEF UpdateReadyFiles, UpdateReadyTables, Ownership, ReadyOwned, Owned, Spread
  <2>3. /\ owner'[s] \in {"loadQueue", "queue", "waitingTable"}
        /\ \A r \in Seqs : r # s => owner'[r] = owner[r]
    BY <1>3 DEF UpdateReadyFiles, UpdateReadyTables, ToLoadQueue, ToTableQueue, ToTableWait,
                TypeOK, ItemTypeOK
  <2>4. owner'[s] = "queue" => query[s].type # "Load"
    BY <1>3 DEF UpdateReadyFiles, UpdateReadyTables, ToLoadQueue, ToTableQueue, ToTableWait,
                TypeOK, ItemTypeOK
  <2>5. query[s] \in Commands
    <3>1. ~(s > submitted)
      BY <2>2 DEF Ownership, ClientOwned, Owned
    <3>2. s <= submitted
      BY <3>1 DEF Seqs, TypeOK, ClientTypeOK
    <3> QED
      BY <3>2 DEF OrderInv, ProgInv
  <2>6. query[s].type \notin BarrierTypes
    BY <2>2 DEF RightPlace, QueuedPlaces
  <2>7. owner'[s] = "queue" => query[s].table \in Tables
    BY <2>4, <2>5, <2>6, CommandShape
  <2> QED
    BY <1>1, <2>1, <2>3, <2>7
<1>4. CASE FinishCompletion(s)
  <2>1. owner' = [owner EXCEPT ![s] = "notified"] /\ item' = item
    BY <1>4 DEF FinishCompletion
  <2> QED
    BY <1>1, <1>4, <2>1, FinishTokens DEF TypeOK, ItemTypeOK
<1>5. CASE Retire(s)
  <2>1. owner' = [owner EXCEPT ![s] = "completed"] /\ item' = item
    BY <1>5 DEF Retire
  <2> QED
    BY <1>1, <1>5, <2>1, QuietTokens DEF TypeOK, ItemTypeOK
<1> QED
  BY <1>2, <1>3, <1>4, <1>5

\* Every step keeps an orderly program in order.
LEMMA NextOrder ==
    ASSUME \A p : Workload(p) => Orderly(p), TypeOK, Ownership, RightPlace, OrderInv,
           [Next]_vars
    PROVE  OrderInv'
<1>1. ProgInv /\ ProgInv' /\ Routed /\ FilesUnmarked /\ QueuedTables /\ TokenInv
      /\ EveryQueryCompletes
  BY NextProgram DEF OrderInv
<1>2. CASE SubmitQuery
  <2>1. /\ Routed' /\ FilesUnmarked'
        /\ query'[submitted + 1].table \in Tables \/ owner'[submitted + 1] # "queue"
    BY <1>1, <1>2, SubmitRoutes
  <2>2. TokenInv'
    BY <1>2, SubmitTokens
  <2> DEFINE n == submitted + 1
  <2>3. /\ n \in Seqs /\ owner'[n] \in {"barriers", "loadQueue", "queue"}
        /\ \A s \in Seqs \ {n} : owner'[s] = owner[s]
    BY <1>2, SubmitShape
  <2>4. \A s \in Seqs \ {n} : query'[s] = query[s]
    <3>1. PICK q, i, place : RegisterItem(q, i, place)
      BY <1>2 DEF SubmitQuery, RegisterBarrier, RegisterLoad, RegisterDump, RegisterDrop,
         RegisterCopy, RegisterOther, Enqueue
    <3> QED
      BY <3>1 DEF RegisterItem, TypeOK, ClientTypeOK
  <2> HIDE DEF n
  <2>5. EveryQueryCompletes'
    BY <1>1, <2>3 DEF EveryQueryCompletes
  <2>6. QueuedTables'
    BY <1>1, <2>1, <2>3, <2>4 DEF QueuedTables, n
  <2> QED
    BY <1>1, <2>1, <2>2, <2>5, <2>6 DEF OrderInv
<1>3. CASE ~SubmitQuery
  <2>1. /\ query' = query /\ item' = item /\ TokenInv'
        /\ \A s \in Seqs : /\ owner'[s] # "broken"
                           /\ owner'[s] = "queue" =>
                                 owner[s] = "queue" \/ query[s].table \in Tables
    <3>1. CASE FetchStep
      BY <3>1, FetchTokens, FetchLeavesTargets
    <3>2. CASE CompletionStep
      BY <3>2, CompletionTokens, CompletionLeavesTargets
    <3>3. CASE SetReady \/ UNCHANGED vars
      <4>1. query' = query /\ item' = item /\ owner' = owner
        BY <3>3 DEF SetReady, vars, clientVars, itemVars
      <4> QED
        BY <1>1, <3>3, <4>1, QuietTokens DEF EveryQueryCompletes
    <3> QED
      BY <1>3, <3>1, <3>2, <3>3 DEF Next
  <2>2. /\ fileTableName' = fileTableName /\ lastScheduledFile' = lastScheduledFile
        /\ submitted' = submitted
    <3>1. CASE FetchStep \/ CompletionStep
      BY <3>1 DEF FetchStep, FetchNothing, FetchBarrier, LoadWaits, FetchLoad, LoadWins,
         TableWaits, FetchTable, TableWins, FetchUnchanged, clientVars, schedVars,
         CompletionStep, BeginCompletion, UpdateReadyFiles, UpdateReadyTables,
         ReadyUnchanged, FinishCompletion, Retire
    <3>2. CASE SetReady \/ UNCHANGED vars
      BY <3>2 DEF SetReady, vars, clientVars, schedVars
    <3> QED
      BY <1>3, <3>1, <3>2 DEF Next
  <2>3. Routed' /\ FilesUnmarked'
    BY <1>1, <2>1, <2>2 DEF Routed, FilesUnmarked, On
  <2>4. QueuedTables' /\ EveryQueryCompletes'
    BY <1>1, <2>1 DEF QueuedTables, EveryQueryCompletes
  <2> QED
    BY <1>1, <2>1, <2>3, <2>4 DEF OrderInv
<1> QED
  BY <1>2, <1>3

\* An empty program is in order.
LEMMA InitOrder == Init => OrderInv
<1> SUFFICES ASSUME Init PROVE OrderInv
  OBVIOUS
<1>1. /\ \A s \in Seqs : /\ query[s] = NoCommand /\ item[s] = NewItem(Control)
                         /\ owner[s] = "client"
      /\ submitted = 0 /\ \A s \in Seqs : ~(s <= submitted)
  BY ConstantTypes DEF Init, Seqs
<1>2. NoCommand.table = Control /\ NoCommand.newTable = Control /\ Control \notin Tables
      /\ NoCommand.type = "Nop"
  BY NamesAssumption DEF NoCommand
<1>3. ProgInv
  BY <1>1, <1>2 DEF ProgInv, Creates
<1>4. Routed
  BY <1>1, <1>2 DEF Routed, RoutedAs, NewItem
<1>5. FilesUnmarked
  BY DEF Init, FilesUnmarked
<1>6. QueuedTables /\ EveryQueryCompletes
  BY <1>1 DEF QueuedTables, EveryQueryCompletes
<1>7. \A t \in Tables : ~Token(t) /\ Out(t) = {}
  BY <1>1 DEF Init, Token, Out, OutPlaces, TableIds
<1>8. NotParked /\ OneUser /\ CreatedFirst
  BY <1>7 DEF NotParked, OneUser, CreatedFirst, Token
<1>9. CallbackAlone /\ InTurn
  BY <1>1 DEF Init, CallbackAlone, InTurn
<1>10. InOrder
  BY DEF Init, InOrder, Ascending, TableIds
<1> QED
  BY <1>3, <1>4, <1>5, <1>6, <1>8, <1>9, <1>10 DEF OrderInv, TokenInv

\* So a program that is orderly as far as it has been submitted stays in order.
LEMMA OrderInvariant ==
    ASSUME \A p : Workload(p) => Orderly(p)
    PROVE  Spec => []OrderInv
<1>1. TypeOK /\ Ownership /\ LineInv /\ OrderInv /\ [Next]_vars => OrderInv'
  BY NextOrder DEF LineInv
<1> QED
  BY <1>1, InitOrder, OwnershipInvariant, LineInvariant, PTL DEF Spec

\* The scheduler breaks no promise of an orderly program: a LOAD that competes with a
\* table is always the one that is fetched.
THEOREM OrderlyProgramsComplete ==
    ASSUME \A p : Workload(p) => Orderly(p)
    PROVE  Spec => []EveryQueryCompletes
<1>1. OrderInv => EveryQueryCompletes
  BY DEF OrderInv
<1> QED
  BY <1>1, OrderInvariant, PTL

\* The queries of one table of an orderly program run one at a time and in the order of
\* the program: a query is handed out only when every earlier one of its table has
\* executed, as the operations on one file are.
TableSerial ==
    \A r, s \in Seqs :
        r < s /\ query[r].table = query[s].table /\ query[s].table \in Tables
            /\ Launched(s) => Over(r)

THEOREM TableQueriesSerial ==
    ASSUME \A p : Workload(p) => Orderly(p)
    PROVE  Spec => []TableSerial
<1>1. OrderInv => TableSerial
  BY DEF OrderInv, TokenInv, InTurn, TableSerial, Launched
<1> QED
  BY <1>1, OrderInvariant, PTL


-----------------------------------------------------------------------------
(* The program executed query by query.                                    *)

\* What the single-threaded mode does with query k after the outcome o.
After(k, o) == Effect(query[k], k, o.db, o.disk)

\* Serial is a function that satisfies its equation.
LEMMA SerialSteps ==
    ASSUME submitted \in Nat
    PROVE  /\ Serial[0] = Outcome(NoTables, InitialDisk, Silent)
           /\ \A k \in 1 .. submitted : Serial[k] = After(k, Serial[k - 1])
<1> DEFINE start == Outcome(NoTables, InitialDisk, Silent)
           val(g, k) == IF k = 0 THEN start ELSE After(k, g[k - 1])
           Step(g) == [k \in 0 .. submitted |-> val(g, k)]
           Good == {n \in Nat : \E g : /\ g = [k \in 0 .. n |-> g[k]]
                                       /\ \A k \in 0 .. n : g[k] = val(g, k)}
<1> HIDE DEF start
<1>1. ASSUME NEW n \in Nat, \A m \in Nat : m < n => m \in Good
      PROVE  n \in Good
  <2>1. CASE n = 0
    <3> DEFINE g == [k \in 0 .. n |-> start]
    <3>1. g = [k \in 0 .. n |-> g[k]] /\ \A k \in 0 .. n : k = 0 /\ g[k] = val(g, k)
      BY <2>1
    <3> HIDE DEF g, val
    <3> QED
      BY <3>1
  <2>2. CASE n # 0
    <3>1. n - 1 \in Nat /\ n - 1 < n
      BY <2>2
    <3>2. n - 1 \in Good
      <4> HIDE DEF Good
      <4> QED
        BY <1>1, <3>1
    <3>3. PICK g : /\ g = [k \in 0 .. (n - 1) |-> g[k]]
                   /\ \A k \in 0 .. (n - 1) : g[k] = val(g, k)
      <4> HIDE DEF val
      <4> QED
        BY <3>2
    <3> DEFINE last == After(n, g[n - 1])
               h == [k \in 0 .. n |-> IF k = n THEN last ELSE g[k]]
    <3> HIDE DEF last
    <3>4. h = [k \in 0 .. n |-> h[k]]
      OBVIOUS
    <3>5. ASSUME NEW k \in 0 .. n PROVE h[k] = val(h, k)
      <4>1. CASE k = n
        <5>1. h[n] = last /\ h[n - 1] = g[n - 1] /\ n # 0
          BY <2>2, <3>1
        <5> HIDE DEF h
        <5> QED
          BY <4>1, <5>1 DEF last
      <4>2. CASE k # n
        <5>1. k \in 0 .. (n - 1) /\ h[k] = g[k]
          BY <4>2
        <5>2. k # 0 => h[k - 1] = g[k - 1]
          BY <5>1
        <5>3. g[k] = val(g, k)
          BY <3>3, <5>1
        <5> HIDE DEF h
        <5> QED
          BY <5>1, <5>2, <5>3
      <4> QED
        BY <4>1, <4>2
    <3> HIDE DEF h, val
    <3> QED
      BY <3>4, <3>5
  <2> QED
    BY <2>1, <2>2
<1> HIDE DEF Good
<1>2. submitted \in Good
  BY <1>1, StrongInduction
<1>3. PICK g : g = Step(g)
  <2>1. PICK g : /\ g = [k \in 0 .. submitted |-> g[k]]
                 /\ \A k \in 0 .. submitted : g[k] = val(g, k)
    <3> HIDE DEF val
    <3> QED
      BY <1>2 DEF Good
  <2>2. Step(g) = [k \in 0 .. submitted |-> g[k]]
    <3> HIDE DEF val
    <3> QED
      BY <2>1
  <2>3. g = Step(g)
    <3> HIDE DEF val, Step
    <3> QED
      BY <2>1, <2>2
  <2> HIDE DEF Step
  <2> QED
    BY <2>3
<1>4. Serial = CHOOSE f : f = Step(f)
  BY DEF Serial, start, After
<1>5. Serial = Step(Serial)
  <2> HIDE DEF Step
  <2> QED
    BY <1>3, <1>4
<1>6. \A k \in 0 .. submitted : Serial[k] = val(Serial, k)
  <2> HIDE DEF val
  <2> QED
    BY <1>5
<1>7. 0 \in 0 .. submitted /\ \A k \in 1 .. submitted : k \in 0 .. submitted /\ k # 0
  OBVIOUS
<1> QED
  BY <1>6, <1>7 DEF start

\* It does not change while the program stays what it is.
LEMMA SerialStays ==
    ASSUME query' = query, submitted' = submitted
    PROVE  Serial' = Serial
BY DEF Serial

-----------------------------------------------------------------------------
(* What a query reads and changes.                                         *)

\* The rows of table t, if it exists.
Rows(tables, t) == IF t \in DOMAIN tables THEN <<tables[t]>> ELSE <<>>

\* A database is a function, so its tables and their rows are all there is to it.
IsDatabase(tables) == DatabaseOK(tables) /\ tables = [t \in DOMAIN tables |-> tables[t]]

\* Two databases with the same rows in a table have it both or neither.
LEMMA SameRows ==
    ASSUME NEW a, NEW b, NEW t, Rows(a, t) = Rows(b, t)
    PROVE  /\ t \in DOMAIN a <=> t \in DOMAIN b
           /\ t \in DOMAIN a => a[t] = b[t]
<1>1. \A x : <<x>> # <<>>
  OBVIOUS
<1>2. \A x, y : <<x>> = <<y>> => x = y
  OBVIOUS
<1> QED
  BY <1>1, <1>2 DEF Rows

\* Two databases with the same rows in every table are equal.
LEMMA SameDatabase ==
    ASSUME NEW a, NEW b, IsDatabase(a), IsDatabase(b),
           \A t \in Tables : Rows(a, t) = Rows(b, t)
    PROVE  a = b
<1>1. \A t \in Tables : /\ t \in DOMAIN a <=> t \in DOMAIN b
                        /\ t \in DOMAIN a => a[t] = b[t]
  BY SameRows
<1>2. DOMAIN a = DOMAIN b
  BY <1>1 DEF IsDatabase, DatabaseOK
<1>3. \A t \in DOMAIN a : a[t] = b[t]
  BY <1>1 DEF IsDatabase, DatabaseOK
<1> QED
  BY <1>2, <1>3 DEF IsDatabase

\* A write gives one table its rows and leaves the others.
LEMMA PutRows ==
    ASSUME NEW tables, NEW t, NEW rows, NEW u
    PROVE  /\ Rows(Put(tables, t, rows), u) = IF u = t THEN <<rows>> ELSE Rows(tables, u)
           /\ Put(tables, t, rows) =
                 [v \in DOMAIN Put(tables, t, rows) |-> Put(tables, t, rows)[v]]
BY DEF Rows, Put

\* The cases of Effect.
LEMMA EffectCases ==
    ASSUME NEW q \in Command, q.type # "List", NEW s, NEW tables, NEW files
    PROVE  LET r == Effect(q, s, tables, files)
           IN  \/ q.type = "Load" /\ r = LoadTable(q, tables, files)
               \/ q.type = "Dump" /\ r = DumpTable(q, tables, files)
               \/ q.type = "Drop" /\ r = DropTable(q, tables, files)
               \/ q.type = "CopyTable" /\ r = CopyTable(q, tables, files)
               \/ q.type = "Truncate" /\ r = TruncateTable(q, tables, files)
               \/ q.type \in NullTypes /\ r = Outcome(tables, files, Silent)
               \/ /\ q.type \in WriteTypes \ {"Load", "Drop", "CopyTable", "Truncate"}
                  /\ r = WriteRows(q, s, tables, files)
               \/ q.type \in ReadTypes \ {"Dump", "List"} /\ r = ReadRows(q, tables, files)
<1> DEFINE r == Effect(q, s, tables, files)
<1>1. q.type \in ReadTypes \cup WriteTypes \cup NullTypes
  BY DEF Command, QueryTypes
<1>2. q.type = "Load" => r = LoadTable(q, tables, files)
  BY DEF Effect, NullTypes, WriteTypes
<1>3. q.type = "Dump" => r = DumpTable(q, tables, files)
  BY DEF Effect, NullTypes, WriteTypes
<1>4. q.type = "Drop" => r = DropTable(q, tables, files)
  BY DEF Effect, NullTypes, WriteTypes
<1>5. q.type = "CopyTable" => r = CopyTable(q, tables, files)
  BY DEF Effect, NullTypes, WriteTypes
<1>6. q.type = "Truncate" => r = TruncateTable(q, tables, files)
  BY DEF Effect, NullTypes, WriteTypes
<1>7. q.type \in NullTypes => r = Outcome(tables, files, Silent)
  BY DEF Effect, NullTypes, WriteTypes
<1>8. q.type \in WriteTypes \ {"Load", "Drop", "CopyTable", "Truncate"} =>
         r = WriteRows(q, s, tables, files)
  BY DEF Effect, NullTypes, WriteTypes
<1>9. q.type \in ReadTypes \ {"Dump", "List"} => r = ReadRows(q, tables, files)
  BY DEF Effect, NullTypes, WriteTypes, ReadTypes
<1> HIDE DEF r
<1>10. \/ q.type \in {"Load", "Dump", "Drop", "CopyTable", "Truncate"} \cup NullTypes
       \/ q.type \in WriteTypes \ {"Load", "Drop", "CopyTable", "Truncate"}
       \/ q.type \in ReadTypes \ {"Dump", "List"}
  BY <1>1
<1> QED
  BY <1>2, <1>3, <1>4, <1>5, <1>6, <1>7, <1>8, <1>9, <1>10 DEF r

\* A query changes nothing but the tables and the file it names; a LOAD creates the
\* table that the parser found in its file, as long as the file is what it was.
LEMMA EffectRest ==
    ASSUME NEW q \in Commands \cup {NoCommand}, q.type # "List", NEW s \in Seqs,
           NEW tables, IsDatabase(tables), NEW files \in [FileIds -> Content],
           q.type = "Load" => files[q.file] = InitialDisk[q.file]
    PROVE  LET r == Effect(q, s, tables, files)
           IN  /\ \A t \in Tables : ~Names(q, t) => Rows(r.db, t) = Rows(tables, t)
               /\ \A f \in FileIds : f # q.file \/ f = NoFile => r.disk[f] = files[f]
               /\ q.type # "Dump" => r.disk = files
               /\ IsDatabase(r.db) /\ r.disk \in [FileIds -> Content]
<1> DEFINE r == Effect(q, s, tables, files)
           Kept(o) == /\ \A t \in Tables : ~Names(q, t) => Rows(o.db, t) = Rows(tables, t)
                      /\ \A f \in FileIds \ {q.file} : o.disk[f] = files[f]
                      /\ q.type # "Dump" => o.disk = files
                      /\ o.db = [t \in DOMAIN o.db |-> o.db[t]]
<1>1. q \in Command /\ q.file \in FileIds
  BY CommandShape DEF Command
<1>2. DatabaseOK(r.db) /\ r.disk \in [FileIds -> Content]
  BY EffectType DEF IsDatabase
<1>3. \A out : Kept(Outcome(tables, files, out))
  BY DEF Outcome, IsDatabase
<1>4. ASSUME NEW t, q.table = t \/ Creates(q, t), NEW rows, NEW out
      PROVE  Kept(Outcome(Put(tables, t, rows), files, out))
  <2> DEFINE d == Put(tables, t, rows)
  <2>1. \A u \in Tables : ~Names(q, u) => Rows(d, u) = Rows(tables, u)
    BY <1>4, PutRows DEF Names
  <2>2. d = [v \in DOMAIN d |-> d[v]]
    BY PutRows
  <2> HIDE DEF d
  <2> QED
    BY <2>1, <2>2 DEF Outcome, d
<1> HIDE DEF Kept
<1>5. Kept(r)
  <2>1. CASE q.type = "Load" /\ r = LoadTable(q, tables, files)
    <3>1. files[q.file].table = Header[q.file]
      BY <1>1, <2>1 DEF InitialDisk
    <3>2. Creates(q, files[q.file].table)
      BY <2>1, <3>1 DEF Creates
    <3> HIDE DEF r
    <3> QED
      BY <1>3, <1>4, <2>1, <3>2 DEF LoadTable
  <2>2. CASE q.type = "Dump" /\ r = DumpTable(q, tables, files)
    <3> DEFINE c == IF q.table \in DOMAIN tables
                    THEN [table |-> q.table, rows |-> tables[q.table]] ELSE NoContent
    <3> HIDE DEF c
    <3>1. DumpTable(q, tables, files) = Outcome(tables, [files EXCEPT ![q.file] = c], Silent)
      BY DEF DumpTable, c
    <3>2. \A f \in FileIds \ {q.file} : [files EXCEPT ![q.file] = c][f] = files[f]
      OBVIOUS
    <3> HIDE DEF r
    <3> QED
      BY <2>2, <3>1, <3>2 DEF Outcome, Kept, IsDatabase
  <2>3. CASE q.type = "Drop" /\ r = DropTable(q, tables, files)
    <3> DEFINE d == Restrict(tables, DOMAIN tables \ {q.table})
    <3>1. d = Restrict(tables, DOMAIN tables \ {q.table}) /\ r = Outcome(d, files, Silent)
      BY <2>3 DEF DropTable
    <3> HIDE DEF d, r
    <3>2. /\ \A u : Rows(d, u) = IF u = q.table THEN <<>> ELSE Rows(tables, u)
          /\ d = [v \in DOMAIN d |-> d[v]]
      BY <3>1 DEF Restrict, Rows
    <3> QED
      BY <3>1, <3>2 DEF Outcome, Kept, Names
  <2>4. CASE q.type = "CopyTable" /\ r = CopyTable(q, tables, files)
    <3>1. Creates(q, q.newTable)
      BY DEF Creates
    <3> HIDE DEF r
    <3> QED
      BY <1>3, <1>4, <2>4, <3>1 DEF CopyTable
  <2>5. CASE q.type = "Truncate" /\ r = TruncateTable(q, tables, files)
    <3> HIDE DEF r
    <3> QED
      BY <1>3, <1>4, <2>5 DEF TruncateTable
  <2>6. CASE r = Outcome(tables, files, Silent)
    <3> HIDE DEF r
    <3> QED
      BY <1>3, <2>6
  <2>7. CASE r = WriteRows(q, s, tables, files)
    <3> HIDE DEF r
    <3> QED
      BY <1>3, <1>4, <2>7 DEF WriteRows
  <2>8. CASE r = ReadRows(q, tables, files)
    <3> HIDE DEF r
    <3> QED
      BY <1>3, <2>8 DEF ReadRows
  <2> HIDE DEF r
  <2> QED
    BY <1>1, <2>1, <2>2, <2>3, <2>4, <2>5, <2>6, <2>7, <2>8, EffectCases DEF r
<1> HIDE DEF r
<1> QED
  BY <1>2, <1>5, CommandShape, NamesAssumption DEF r, Kept, IsDatabase

\* What it shows, and what it makes of the tables and the file it names, depends on
\* these alone.
LEMMA EffectSame ==
    ASSUME NEW q \in Commands \cup {NoCommand}, q.type # "List", NEW s \in Seqs,
           NEW a, IsDatabase(a), NEW fa \in [FileIds -> Content],
           NEW b, IsDatabase(b), NEW fb \in [FileIds -> Content],
           \A t \in Tables : Names(q, t) => Rows(a, t) = Rows(b, t),
           q.file # NoFile => fa[q.file] = fb[q.file],
           q.type = "Load" => fa[q.file] = InitialDisk[q.file]
    PROVE  LET ra == Effect(q, s, a, fa)
               rb == Effect(q, s, b, fb)
           IN  /\ ra.out = rb.out
               /\ \A t \in Tables : Names(q, t) => Rows(ra.db, t) = Rows(rb.db, t)
               /\ q.file # NoFile => ra.disk[q.file] = rb.disk[q.file]
<1> DEFINE ra == Effect(q, s, a, fa)
           rb == Effect(q, s, b, fb)
           Alike(o, p) ==
               /\ o.out = p.out
               /\ \A t \in Tables : Names(q, t) => Rows(o.db, t) = Rows(p.db, t)
               /\ q.file # NoFile => o.disk[q.file] = p.disk[q.file]
<1>1. q \in Command /\ q.file \in FileIds
  BY CommandShape DEF Command
<1>2. DOMAIN a \subseteq Tables /\ DOMAIN b \subseteq Tables
  BY DEF IsDatabase, DatabaseOK
<1>3. \A t : Names(q, t) => /\ t \in DOMAIN a <=> t \in DOMAIN b
                            /\ t \in DOMAIN a => a[t] = b[t]
  BY <1>2, SameRows
<1>4. /\ q.table \in DOMAIN a <=> q.table \in DOMAIN b
      /\ q.table \in DOMAIN a => a[q.table] = b[q.table]
      /\ q.newTable \in DOMAIN a <=> q.newTable \in DOMAIN b
  BY <1>3 DEF Names, Creates
<1>5. \A out : Alike(Outcome(a, fa, out), Outcome(b, fb, out))
  BY DEF Outcome
<1>6. \A t, rows, out : Alike(Outcome(Put(a, t, rows), fa, out),
                              Outcome(Put(b, t, rows), fb, out))
  <2> TAKE t, rows, out
  <2>1. \A u \in Tables : Names(q, u) =>
           Rows(Put(a, t, rows), u) = Rows(Put(b, t, rows), u)
    BY PutRows
  <2> QED
    BY <2>1 DEF Outcome
<1> HIDE DEF Alike
<1>7. Alike(ra, rb)
  <2> HIDE DEF ra, rb
  <2>1. CASE q.type = "Load" /\ ra = LoadTable(q, a, fa) /\ rb = LoadTable(q, b, fb)
    <3>1. q.file # NoFile
      BY <1>1, <2>1, CommandShape, NamesAssumption
    <3>2. fb[q.file] = fa[q.file] /\ fa[q.file].table = Header[q.file]
      BY <1>1, <2>1, <3>1 DEF InitialDisk
    <3>3. fa[q.file].table \in DOMAIN a <=> fa[q.file].table \in DOMAIN b
      BY <1>3, <2>1, <3>2 DEF Names, Creates
    <3> QED
      BY <1>5, <1>6, <2>1, <3>2, <3>3 DEF LoadTable
  <2>2. CASE q.type = "Dump" /\ ra = DumpTable(q, a, fa) /\ rb = DumpTable(q, b, fb)
    <3> DEFINE c == IF q.table \in DOMAIN a
                    THEN [table |-> q.table, rows |-> a[q.table]] ELSE NoContent
    <3>1. /\ ra = Outcome(a, [fa EXCEPT ![q.file] = c], Silent)
          /\ rb = Outcome(b, [fb EXCEPT ![q.file] = c], Silent)
      BY <1>4, <2>2 DEF DumpTable
    <3> HIDE DEF c
    <3>2. [fa EXCEPT ![q.file] = c][q.file] = [fb EXCEPT ![q.file] = c][q.file]
      BY <1>1
    <3> QED
      BY <3>1, <3>2 DEF Outcome, Alike
  <2>3. CASE q.type = "Drop" /\ ra = DropTable(q, a, fa) /\ rb = DropTable(q, b, fb)
    <3> DEFINE withoutA == Restrict(a, DOMAIN a \ {q.table})
               withoutB == Restrict(b, DOMAIN b \ {q.table})
    <3>1. /\ withoutA = Restrict(a, DOMAIN a \ {q.table}) /\ ra = Outcome(withoutA, fa, Silent)
          /\ withoutB = Restrict(b, DOMAIN b \ {q.table}) /\ rb = Outcome(withoutB, fb, Silent)
      BY <2>3 DEF DropTable
    <3> HIDE DEF withoutA, withoutB
    <3>2. /\ \A u : Rows(withoutA, u) = IF u = q.table THEN <<>> ELSE Rows(a, u)
          /\ \A u : Rows(withoutB, u) = IF u = q.table THEN <<>> ELSE Rows(b, u)
      BY <3>1 DEF Restrict, Rows
    <3> QED
      BY <3>1, <3>2 DEF Outcome, Alike
  <2>4. CASE q.type = "CopyTable" /\ ra = CopyTable(q, a, fa) /\ rb = CopyTable(q, b, fb)
    BY <1>4, <1>5, <1>6, <2>4 DEF CopyTable
  <2>5. CASE q.type = "Truncate" /\ ra = TruncateTable(q, a, fa)
                                 /\ rb = TruncateTable(q, b, fb)
    BY <1>4, <1>5, <1>6, <2>5 DEF TruncateTable
  <2>6. CASE q.type \in NullTypes /\ ra = Outcome(a, fa, Silent) /\ rb = Outcome(b, fb, Silent)
    BY <1>5, <2>6
  <2>7. CASE /\ q.type \in WriteTypes \ {"Load", "Drop", "CopyTable", "Truncate"}
             /\ ra = WriteRows(q, s, a, fa) /\ rb = WriteRows(q, s, b, fb)
    BY <1>4, <1>5, <1>6, <2>7 DEF WriteRows
  <2>8. CASE /\ q.type \in ReadTypes \ {"Dump", "List"}
             /\ ra = ReadRows(q, a, fa) /\ rb = ReadRows(q, b, fb)
    BY <1>4, <1>5, <2>8 DEF ReadRows
  <2>9. \/ q.type = "Load" /\ ra = LoadTable(q, a, fa)
        \/ q.type = "Dump" /\ ra = DumpTable(q, a, fa)
        \/ q.type = "Drop" /\ ra = DropTable(q, a, fa)
        \/ q.type = "CopyTable" /\ ra = CopyTable(q, a, fa)
        \/ q.type = "Truncate" /\ ra = TruncateTable(q, a, fa)
        \/ q.type \in NullTypes /\ ra = Outcome(a, fa, Silent)
        \/ /\ q.type \in WriteTypes \ {"Load", "Drop", "CopyTable", "Truncate"}
           /\ ra = WriteRows(q, s, a, fa)
        \/ q.type \in ReadTypes \ {"Dump", "List"} /\ ra = ReadRows(q, a, fa)
    BY <1>1, EffectCases DEF ra
  <2>10. \/ q.type = "Load" /\ rb = LoadTable(q, b, fb)
         \/ q.type = "Dump" /\ rb = DumpTable(q, b, fb)
         \/ q.type = "Drop" /\ rb = DropTable(q, b, fb)
         \/ q.type = "CopyTable" /\ rb = CopyTable(q, b, fb)
         \/ q.type = "Truncate" /\ rb = TruncateTable(q, b, fb)
         \/ q.type \in NullTypes /\ rb = Outcome(b, fb, Silent)
         \/ /\ q.type \in WriteTypes \ {"Load", "Drop", "CopyTable", "Truncate"}
            /\ rb = WriteRows(q, s, b, fb)
         \/ q.type \in ReadTypes \ {"Dump", "List"} /\ rb = ReadRows(q, b, fb)
    BY <1>1, EffectCases DEF rb
  <2> QED
    BY <2>1, <2>2, <2>3, <2>4, <2>5, <2>6, <2>7, <2>8, <2>9, <2>10
       DEF NullTypes, WriteTypes, ReadTypes
<1> HIDE DEF ra, rb
<1> QED
  BY <1>7 DEF Alike, ra, rb

-----------------------------------------------------------------------------
(* The outcomes of the single-threaded mode.                               *)

\* They are typed; until something is dumped the files are those of the start, so
\* every LOAD finds the table that the parser has found.
LEMMA SerialSound ==
    ASSUME TypeOK, ProgInv
    PROVE  \A k \in 0 .. submitted :
              /\ IsDatabase(Serial[k].db) /\ Serial[k].disk \in [FileIds -> Content]
              /\ \A s \in Seqs : query[s].type = "Load" /\ k < s =>
                    Serial[k].disk = InitialDisk
<1> DEFINE Loading(k) == \E s \in Seqs : query[s].type = "Load" /\ k < s
           Sound(k) == /\ IsDatabase(Serial[k].db) /\ Serial[k].disk \in [FileIds -> Content]
                       /\ Loading(k) => Serial[k].disk = InitialDisk
           Good == {n \in Nat : n <= submitted => Sound(n)}
<1>1. submitted \in Nat /\ Seqs \subseteq Nat /\ \A k \in 1 .. submitted : k \in Seqs
  BY ConstantTypes DEF TypeOK, ClientTypeOK, Seqs
<1>2. /\ Serial[0] = Outcome(NoTables, InitialDisk, Silent)
      /\ \A k \in 1 .. submitted : Serial[k] = After(k, Serial[k - 1])
  BY <1>1, SerialSteps
<1>3. Sound(0)
  <2>1. IsDatabase(NoTables)
    BY DEF IsDatabase, DatabaseOK, NoTables
  <2>2. InitialDisk \in [FileIds -> Content]
    BY HeaderAssumption DEF InitialDisk, Content
  <2> QED
    BY <1>2, <2>1, <2>2 DEF Outcome
<1>4. ASSUME NEW n \in Nat, n # 0, n <= submitted, Sound(n - 1) PROVE Sound(n)
  <2> DEFINE q == query[n]
             o == Serial[n - 1]
  <2>1. n \in 1 .. submitted /\ n \in Seqs /\ n - 1 < n
    BY <1>1, <1>4
  <2>2. q \in Commands /\ q.type # "List"
    BY <2>1 DEF ProgInv
  <2>3. q.type = "Load" => o.disk[q.file] = InitialDisk[q.file]
    BY <1>4, <2>1
  <2>4. IsDatabase(o.db) /\ o.disk \in [FileIds -> Content]
    BY <1>4
  <2>5. Serial[n] = Effect(q, n, o.db, o.disk)
    BY <1>2, <2>1 DEF After
  <2>6. Loading(n) => Loading(n - 1) /\ q.type # "Dump"
    <3> SUFFICES ASSUME NEW s \in Seqs, query[s].type = "Load", n < s
                 PROVE  Loading(n - 1) /\ q.type # "Dump"
      OBVIOUS
    <3>1. n - 1 < s
      BY <1>1, <2>1
    <3>2. q.type = "Load" \/ classifyPriority(q.type) # 1
      BY <2>1 DEF ProgInv
    <3> QED
      BY <3>1, <3>2, Priorities
  <2> HIDE DEF Loading, q, o
  <2>7. /\ q.type # "Dump" => Serial[n].disk = o.disk
        /\ IsDatabase(Serial[n].db) /\ Serial[n].disk \in [FileIds -> Content]
    BY <2>1, <2>2, <2>3, <2>4, <2>5, EffectRest
  <2> QED
    BY <1>4, <2>6, <2>7 DEF o
<1> HIDE DEF Sound
<1>5. ASSUME NEW n \in Nat, \A m \in Nat : m < n => m \in Good PROVE n \in Good
  <2>1. CASE n = 0
    BY <1>3, <2>1
  <2>2. CASE n # 0
    <3>1. n - 1 \in Nat /\ n - 1 < n
      BY <2>2
    <3>2. n <= submitted => n - 1 <= submitted
      BY <1>1, <3>1
    <3> QED
      BY <1>4, <1>5, <2>2, <3>1, <3>2
  <2> QED
    BY <2>1, <2>2
<1> HIDE DEF Good
<1>6. \A n \in Nat : n \in Good
  BY <1>5, StrongInduction
<1>7. \A k \in 0 .. submitted : k \in Nat /\ k <= submitted
  BY <1>1
<1> QED
  BY <1>6, <1>7 DEF Good, Sound

\* A query leaves alone what it does not name.
LEMMA SerialQuery ==
    ASSUME TypeOK, ProgInv, NEW k \in 1 .. submitted
    PROVE  /\ k \in Seqs /\ k - 1 \in 0 .. submitted
           /\ query[k] \in Commands /\ query[k].type # "List"
           /\ Serial[k] = Effect(query[k], k, Serial[k - 1].db, Serial[k - 1].disk)
           /\ IsDatabase(Serial[k - 1].db) /\ Serial[k - 1].disk \in [FileIds -> Content]
           /\ query[k].type = "Load" => Serial[k - 1].disk = InitialDisk
           /\ \A t \in Tables : ~Names(query[k], t) =>
                 Rows(Serial[k].db, t) = Rows(Serial[k - 1].db, t)
           /\ \A f \in FileIds : ~On(k, f) => Serial[k].disk[f] = Serial[k - 1].disk[f]
<1> DEFINE q == query[k]
           o == Serial[k - 1]
<1>1. submitted \in Nat /\ k \in Seqs /\ k - 1 \in 0 .. submitted /\ k - 1 < k
  BY ConstantTypes DEF TypeOK, ClientTypeOK, Seqs
<1>2. q \in Commands /\ q.type # "List"
  BY <1>1 DEF ProgInv
<1>3. Serial[k] = Effect(q, k, o.db, o.disk)
  BY <1>1, SerialSteps DEF After
<1>4. /\ IsDatabase(o.db) /\ o.disk \in [FileIds -> Content]
      /\ q.type = "Load" => o.disk = InitialDisk
  BY <1>1, SerialSound
<1> HIDE DEF q, o
<1>5. /\ \A t \in Tables : ~Names(q, t) => Rows(Serial[k].db, t) = Rows(o.db, t)
      /\ \A f \in FileIds : f # q.file \/ f = NoFile => Serial[k].disk[f] = o.disk[f]
  BY <1>1, <1>2, <1>3, <1>4, EffectRest
<1> QED
  BY <1>1, <1>2, <1>3, <1>4, <1>5 DEF q, o, On

\* What no query names between two points is the same at both.
LEMMA SerialBetween ==
    ASSUME TypeOK, ProgInv, NEW p \in 0 .. submitted
    PROVE  \A q \in p .. submitted :
              /\ \A t \in Tables :
                    (\A r \in Seqs : p < r /\ r <= q => ~Names(query[r], t)) =>
                       Rows(Serial[q].db, t) = Rows(Serial[p].db, t)
              /\ \A f \in FileIds :
                    (\A r \in Seqs : p < r /\ r <= q => ~On(r, f)) =>
                       Serial[q].disk[f] = Serial[p].disk[f]
<1> DEFINE Same(q) ==
              /\ \A t \in Tables :
                    (\A r \in Seqs : p < r /\ r <= q => ~Names(query[r], t)) =>
                       Rows(Serial[q].db, t) = Rows(Serial[p].db, t)
              /\ \A f \in FileIds :
                    (\A r \in Seqs : p < r /\ r <= q => ~On(r, f)) =>
                       Serial[q].disk[f] = Serial[p].disk[f]
           Good == {n \in Nat : p <= n /\ n <= submitted => Same(n)}
<1>1. submitted \in Nat /\ Seqs \subseteq Nat /\ p \in Nat
  BY ConstantTypes DEF TypeOK, ClientTypeOK, Seqs
<1>2. ASSUME NEW n \in Nat, p < n, n <= submitted, Same(n - 1) PROVE Same(n)
  <2>1. n \in 1 .. submitted /\ n - 1 < n
    BY <1>1, <1>2
  <2>2. /\ n \in Seqs
        /\ \A t \in Tables : ~Names(query[n], t) =>
              Rows(Serial[n].db, t) = Rows(Serial[n - 1].db, t)
        /\ \A f \in FileIds : ~On(n, f) => Serial[n].disk[f] = Serial[n - 1].disk[f]
    BY <2>1, SerialQuery
  <2>3. \A r \in Seqs : r <= n - 1 => r <= n
    BY <1>1
  <2>4. p < n /\ n <= n
    BY <1>2
  <2>5. \A t \in Tables :
           (\A r \in Seqs : p < r /\ r <= n => ~Names(query[r], t)) =>
              Rows(Serial[n].db, t) = Rows(Serial[p].db, t)
    BY <1>2, <2>2, <2>3, <2>4
  <2>6. \A f \in FileIds :
           (\A r \in Seqs : p < r /\ r <= n => ~On(r, f)) =>
              Serial[n].disk[f] = Serial[p].disk[f]
    BY <1>2, <2>2, <2>3, <2>4
  <2> QED
    BY <2>5, <2>6
<1>3. Same(p)
  OBVIOUS
<1> HIDE DEF Same
<1>4. ASSUME NEW n \in Nat, \A m \in Nat : m < n => m \in Good PROVE n \in Good
  <2> SUFFICES ASSUME p <= n, n <= submitted PROVE Same(n)
    OBVIOUS
  <2>1. CASE n = p
    BY <1>3, <2>1
  <2>2. CASE n # p
    <3>1. n - 1 \in Nat /\ n - 1 < n /\ p < n /\ p <= n - 1 /\ n - 1 <= submitted
      BY <1>1, <2>2
    <3> QED
      BY <1>2, <1>4, <3>1
  <2> QED
    BY <2>1, <2>2
<1> HIDE DEF Good
<1>5. \A n \in Nat : n \in Good
  BY <1>4, StrongInduction
<1>6. \A q \in p .. submitted : q \in Nat /\ p <= q /\ q <= submitted
  BY <1>1
<1> QED
  BY <1>5, <1>6 DEF Good, Same

-----------------------------------------------------------------------------
(* How far the workers have got with a table and with a file.              *)

\* The queries that name table t have executed up to number p and no further, and
\* have made of it what the single-threaded mode has after p.
TableAt(t, p) ==
    /\ \A s \in Seqs : Names(query[s], t) => (result[s] # <<>> <=> s <= p)
    /\ Rows(db, t) = Rows(Serial[p].db, t)

\* The same of the operations on file f.
FileAt(f, p) ==
    /\ \A s \in Seqs : On(s, f) => (result[s] # <<>> <=> s <= p)
    /\ disk[f] = Serial[p].disk[f]

\* Nothing has happened before the queue opens.
Untried ==
    /\ \A w \in Workers : pc[w] = "work"
    /\ ~stop /\ db = NoTables /\ disk = InitialDisk
    /\ \A s \in Seqs : result[s] = <<>>

SerialInv ==
    /\ IsDatabase(db)
    /\ ~readyToFetch => Untried
    /\ readyToFetch => /\ \A t \in Tables : \E p \in 0 .. submitted : TableAt(t, p)
                       /\ \A f \in FileIds : \E p \in 0 .. submitted : FileAt(f, p)
    /\ SerialOutput
    /\ stop => readyToFetch /\ Delivered

\* A worker that executes a query finds the queries before it that name one of its
\* tables, or its file, executed, and those behind it not.
LEMMA ExecuteInTurn ==
    ASSUME TypeOK, PoolInv, HoldInv, OrderInv, FileSerial,
           NEW w \in Workers, pc[w] = "execute"
    PROVE  LET s == task[w]
           IN  /\ s \in Seqs /\ owner[s] = "fetched" /\ result[s] = <<>>
               /\ \A t \in Tables, r \in Seqs : Names(query[s], t) /\ Names(query[r], t) =>
                     (r < s => result[r] # <<>>) /\ (r > s => result[r] = <<>>)
               /\ \A f \in FileIds, r \in Seqs : On(s, f) /\ On(r, f) =>
                     (r < s => result[r] # <<>>) /\ (r > s => result[r] = <<>>)
<1> DEFINE s == task[w]
<1>1. s \in Seqs /\ s # 0 /\ Seqs \subseteq Int
  BY ConstantTypes DEF PoolInv, Guarded, Seqs
<1>2. owner[s] = "fetched" /\ result[s] = <<>>
  BY <1>1 DEF HoldInv, Promised, OwnerAt
<1>3. /\ \A r \in Seqs : Over(r) => result[r] # <<>>
      /\ \A r \in Seqs : owner[r] \in {"queue", "client"} => result[r] = <<>>
      /\ ~Over(s)
  BY <1>2 DEF HoldInv, Promised, Over, OverPlaces, Early, QueuedPlaces
<1> HIDE DEF s
<1>4. \A t \in Tables, c, r \in Seqs : Creates(query[c], t) /\ Names(query[r], t) => c <= r
  BY <1>1 DEF OrderInv, ProgInv
<1>5. \A t \in Tables, c, r \in Seqs : Creates(query[c], t) /\ Creates(query[r], t) => c = r
  <2> SUFFICES ASSUME NEW t \in Tables, NEW c \in Seqs, NEW r \in Seqs,
                      Creates(query[c], t), Creates(query[r], t)
               PROVE  c = r
    OBVIOUS
  <2>1. Names(query[c], t) /\ Names(query[r], t)
    BY DEF Names
  <2>2. c <= r /\ r <= c
    BY <1>4, <2>1
  <2> QED
    BY <1>1, <2>2
<1>6. \A r \in Seqs : query[r].table \in Tables /\ owner[r] \notin {"queue", "client"} =>
         /\ \A c \in Seqs : Creates(query[c], query[r].table) => Over(c)
         /\ \A q \in Seqs : q < r /\ query[q].table = query[r].table => Over(q)
  BY <1>5 DEF OrderInv, TokenInv, InTurn, Created
<1>7. ASSUME NEW t \in Tables, NEW r \in Seqs, Names(query[s], t), Names(query[r], t)
      PROVE  (r < s => result[r] # <<>>) /\ (r > s => result[r] = <<>>)
  <2>1. CASE query[s].table = t
    <3>1. owner[s] \notin {"queue", "client"}
      BY <1>2
    <3>2. r < s => Over(r)
      BY <1>1, <1>6, <1>7, <2>1, <3>1 DEF Names
    <3>3. r > s => ~Creates(query[r], t)
      BY <1>1, <1>4, <1>7
    <3>4. r > s => owner[r] \in {"queue", "client"}
      BY <1>1, <1>3, <1>6, <1>7, <2>1, <3>3 DEF Names
    <3> QED
      BY <1>3, <3>2, <3>4
  <2>2. CASE Creates(query[s], t)
    <3>1. ~(r < s)
      BY <1>1, <1>4, <1>7, <2>2
    <3>2. r > s => query[r].table = t
      BY <1>1, <1>5, <1>7, <2>2 DEF Names
    <3>3. r > s => owner[r] \in {"queue", "client"}
      BY <1>1, <1>3, <1>6, <2>2, <3>2
    <3> QED
      BY <1>3, <3>1, <3>3
  <2> QED
    BY <1>7, <2>1, <2>2 DEF Names
<1>8. ASSUME NEW f \in FileIds, NEW r \in Seqs, On(s, f), On(r, f)
      PROVE  (r < s => result[r] # <<>>) /\ (r > s => result[r] = <<>>)
  <2>1. r < s => Finished(r)
    BY <1>1, <1>2, <1>8 DEF FileSerial, On, Launched
  <2>2. r < s => result[r] # <<>>
    BY <1>3, <2>1 DEF Finished, Over, OverPlaces
  <2>3. r > s => ~Launched(r)
    BY <1>1, <1>2, <1>8 DEF FileSerial, On, Finished
  <2>4. owner[r] \in Owners /\ owner[r] # "broken"
    BY DEF TypeOK, ItemTypeOK, OrderInv, EveryQueryCompletes
  <2>5. r > s => owner[r] \in Early
    BY <2>3, <2>4 DEF Launched, Owners, Early, QueuedPlaces
  <2> QED
    BY <2>2, <2>5 DEF HoldInv, Promised
<1> QED
  BY <1>1, <1>2, <1>7, <1>8 DEF s

\* Where a table is known to have got to, the single-threaded mode has the same before
\* a query that names it and is next.
LEMMA CaughtUp ==
    ASSUME TypeOK, ProgInv, NEW s \in 1 .. submitted, result[s] = <<>>
    PROVE  /\ \A t \in Tables, p \in 0 .. submitted :
                 /\ TableAt(t, p) /\ Names(query[s], t)
                 /\ \A r \in Seqs : Names(query[r], t) /\ r < s => result[r] # <<>>
                 => Rows(db, t) = Rows(Serial[s - 1].db, t)
           /\ \A f \in FileIds, p \in 0 .. submitted :
                 /\ FileAt(f, p) /\ On(s, f)
                 /\ \A r \in Seqs : On(r, f) /\ r < s => result[r] # <<>>
                 => disk[f] = Serial[s - 1].disk[f]
<1>1. submitted \in Nat /\ s \in Nat /\ s \in Seqs /\ Seqs \subseteq Nat
  BY ConstantTypes DEF TypeOK, ClientTypeOK, Seqs
<1>2. \A r \in Seqs : r <= s - 1 => r < s
  <2>1. \A r \in Nat : r <= s - 1 => r < s
    BY <1>1
  <2> QED
    BY <1>1, <2>1
<1>3. ASSUME NEW t \in Tables, NEW p \in 0 .. submitted, TableAt(t, p), Names(query[s], t),
             \A r \in Seqs : Names(query[r], t) /\ r < s => result[r] # <<>>
      PROVE  Rows(db, t) = Rows(Serial[s - 1].db, t)
  <2>1. ~(s <= p)
    BY <1>1, <1>3 DEF TableAt
  <2>2. s - 1 \in p .. submitted
    BY <1>1, <2>1
  <2>3. \A r \in Seqs : p < r /\ r <= s - 1 => ~Names(query[r], t)
    <3>1. \A r \in Seqs : p < r => ~(r <= p)
      BY <1>1
    <3> QED
      BY <1>2, <1>3, <3>1 DEF TableAt
  <2>4. Rows(Serial[s - 1].db, t) = Rows(Serial[p].db, t)
    BY <2>2, <2>3, SerialBetween
  <2> QED
    BY <1>3, <2>4 DEF TableAt
<1>4. ASSUME NEW f \in FileIds, NEW p \in 0 .. submitted, FileAt(f, p), On(s, f),
             \A r \in Seqs : On(r, f) /\ r < s => result[r] # <<>>
      PROVE  disk[f] = Serial[s - 1].disk[f]
  <2>1. ~(s <= p)
    BY <1>1, <1>4 DEF FileAt
  <2>2. s - 1 \in p .. submitted
    BY <1>1, <2>1
  <2>3. \A r \in Seqs : p < r /\ r <= s - 1 => ~On(r, f)
    <3>1. \A r \in Seqs : p < r => ~(r <= p)
      BY <1>1
    <3> QED
      BY <1>2, <1>4, <3>1 DEF FileAt
  <2>4. Serial[s - 1].disk[f] = Serial[p].disk[f]
    BY <2>2, <2>3, SerialBetween
  <2> QED
    BY <1>4, <2>4 DEF FileAt
<1> QED
  BY <1>3, <1>4

\* A query that a worker executes is one that has been submitted.
LEMMA FetchedSubmitted ==
    ASSUME TypeOK, Ownership, NEW s \in Seqs, owner[s] # "client"
    PROVE  s \in 1 .. submitted
<1>1. ~(s > submitted)
  BY DEF Ownership, ClientOwned, Owned
<1> QED
  BY <1>1, ConstantTypes DEF TypeOK, ClientTypeOK, Seqs

\* What the query does then is what it does in the single-threaded mode.
LEMMA ExecuteAlike ==
    ASSUME TypeOK, Ownership, PoolInv, DataInv, HoldInv, OrderInv, FileSerial, SerialInv,
           readyToFetch, NEW w \in Workers, Execute(w)
    PROVE  LET s == task[w]
               r == Effect(query[s], s, db, disk)
           IN  /\ s \in 1 .. submitted
               /\ db' = r.db /\ disk' = r.disk /\ result' = [result EXCEPT ![s] = <<r.out>>]
               /\ r.out = Serial[s].out
               /\ IsDatabase(r.db)
               /\ \A t \in Tables : IF Names(query[s], t)
                                    THEN Rows(r.db, t) = Rows(Serial[s].db, t)
                                    ELSE Rows(r.db, t) = Rows(db, t)
               /\ \A f \in FileIds : IF On(s, f) THEN r.disk[f] = Serial[s].disk[f]
                                                 ELSE r.disk[f] = disk[f]
<1> DEFINE s == task[w]
           q == query[s]
           r == Effect(q, s, db, disk)
           o == Serial[s - 1]
<1>1. /\ s \in Seqs /\ owner[s] = "fetched" /\ result[s] = <<>>
      /\ \A t \in Tables, n \in Seqs : Names(q, t) /\ Names(query[n], t) =>
            (n < s => result[n] # <<>>)
      /\ \A f \in FileIds, n \in Seqs : On(s, f) /\ On(n, f) => (n < s => result[n] # <<>>)
  BY ExecuteInTurn DEF Execute
<1>2. s \in 1 .. submitted
  BY <1>1, FetchedSubmitted
<1>3. /\ q \in Commands /\ q.type # "List"
      /\ Serial[s] = Effect(q, s, o.db, o.disk)
      /\ IsDatabase(o.db) /\ o.disk \in [FileIds -> Content]
      /\ q.type = "Load" => o.disk = InitialDisk
  BY <1>2, SerialQuery DEF OrderInv
<1>4. IsDatabase(db) /\ disk \in [FileIds -> Content]
  BY DEF SerialInv, DataInv
<1>5. /\ \A t \in Tables : \E p \in 0 .. submitted : TableAt(t, p)
      /\ \A f \in FileIds : \E p \in 0 .. submitted : FileAt(f, p)
  BY DEF SerialInv
<1>6. ProgInv /\ Routed
  BY DEF OrderInv
<1>7. db' = (IF item[s].dropped THEN Outcome(db, disk, Silent) ELSE r).db
  BY DEF Execute
<1>8. disk' = (IF item[s].dropped THEN Outcome(db, disk, Silent) ELSE r).disk
  BY DEF Execute
<1>9. result' = [result EXCEPT ![s] =
                   <<(IF item[s].dropped THEN Outcome(db, disk, Silent) ELSE r).out>>]
  BY DEF Execute
<1> HIDE DEF s, r, o
<1>10. \A t \in Tables : Names(q, t) => Rows(db, t) = Rows(o.db, t)
  BY <1>1, <1>2, <1>5, <1>6, CaughtUp DEF o
<1>11. \A f \in FileIds : On(s, f) => disk[f] = o.disk[f]
  BY <1>1, <1>2, <1>5, <1>6, CaughtUp DEF o
<1>12. q.file \in FileIds /\ (q.file # NoFile => On(s, q.file))
  BY <1>3, CommandShape DEF On, Command
<1>13. q.file # NoFile => disk[q.file] = o.disk[q.file]
  BY <1>11, <1>12
<1>14. q.type = "Load" => disk[q.file] = InitialDisk[q.file]
  <2>1. q.type = "Load" => q.file # NoFile
    BY <1>3, CommandShape, NamesAssumption
  <2> QED
    BY <1>3, <1>13, <2>1
<1> HIDE DEF q
<1>15. item[s].dropped => r = Outcome(db, disk, Silent)
  <2> SUFFICES ASSUME item[s].dropped PROVE r = Outcome(db, disk, Silent)
    OBVIOUS
  <2>1. q.type = "Load" /\ Header[q.file] = Control
    BY <1>1, <1>6 DEF Routed, RoutedAs, q
  <2>2. disk[q.file].table = Control
    BY <1>12, <1>14, <2>1 DEF InitialDisk
  <2>3. r = LoadTable(q, db, disk)
    BY <2>1 DEF Effect, r, NullTypes, WriteTypes
  <2> QED
    BY <2>2, <2>3 DEF LoadTable
<1>16. db' = r.db /\ disk' = r.disk /\ result' = [result EXCEPT ![s] = <<r.out>>]
  BY <1>7, <1>8, <1>9, <1>15
<1>17. /\ r.out = Serial[s].out
       /\ \A t \in Tables : Names(q, t) => Rows(r.db, t) = Rows(Serial[s].db, t)
       /\ q.file # NoFile => r.disk[q.file] = Serial[s].disk[q.file]
  BY <1>1, <1>3, <1>4, <1>10, <1>13, <1>14, EffectSame DEF r
<1>18. /\ \A t \in Tables : ~Names(q, t) => Rows(r.db, t) = Rows(db, t)
       /\ \A f \in FileIds : f # q.file \/ f = NoFile => r.disk[f] = disk[f]
       /\ IsDatabase(r.db)
  BY <1>1, <1>3, <1>4, <1>14, EffectRest DEF r
<1>19. \A f \in FileIds : IF On(s, f) THEN r.disk[f] = Serial[s].disk[f]
                                      ELSE r.disk[f] = disk[f]
  BY <1>17, <1>18 DEF On, q
<1> QED
  BY <1>2, <1>16, <1>17, <1>18, <1>19 DEF s, q, r

\* After it the tables and the file it names have got to its number; the others are
\* where they were.
LEMMA ExecuteSerial ==
    ASSUME TypeOK, Ownership, PoolInv, DataInv, HoldInv, OrderInv, FileSerial, SerialInv,
           readyToFetch, NEW w \in Workers, Execute(w)
    PROVE  SerialInv'
<1> DEFINE s == task[w]
           r == Effect(query[s], s, db, disk)
<1>1. /\ s \in 1 .. submitted
      /\ db' = r.db /\ disk' = r.disk /\ result' = [result EXCEPT ![s] = <<r.out>>]
      /\ r.out = Serial[s].out
      /\ IsDatabase(r.db)
      /\ \A t \in Tables : IF Names(query[s], t)
                           THEN Rows(r.db, t) = Rows(Serial[s].db, t)
                           ELSE Rows(r.db, t) = Rows(db, t)
      /\ \A f \in FileIds : IF On(s, f) THEN r.disk[f] = Serial[s].disk[f]
                                        ELSE r.disk[f] = disk[f]
  BY ExecuteAlike
<1>2. /\ s \in Seqs /\ result[s] = <<>>
      /\ \A t \in Tables, n \in Seqs : Names(query[s], t) /\ Names(query[n], t) =>
            (n < s => result[n] # <<>>) /\ (n > s => result[n] = <<>>)
      /\ \A f \in FileIds, n \in Seqs : On(s, f) /\ On(n, f) =>
            (n < s => result[n] # <<>>) /\ (n > s => result[n] = <<>>)
  BY ExecuteInTurn DEF Execute
<1>3. /\ query' = query /\ submitted' = submitted /\ stop' = stop
      /\ readyToFetch' = readyToFetch
  BY DEF Execute, vars, clientVars
<1>4. Serial' = Serial
  BY <1>3, SerialStays
<1>5. submitted \in Nat /\ Seqs \subseteq Int /\ s \in 0 .. submitted
  BY <1>1, ConstantTypes DEF TypeOK, ClientTypeOK, Seqs
<1>6. /\ result'[s] = <<r.out>>
      /\ \A n \in Seqs : n # s => result'[n] = result[n]
  BY <1>1, <1>2 DEF DataInv
<1> HIDE DEF s, r
<1>7. ASSUME NEW t \in Tables PROVE \E p \in 0 .. submitted' : TableAt(t, p)'
  <2>1. PICK p \in 0 .. submitted : TableAt(t, p)
    BY DEF SerialInv
  <2>2. CASE Names(query[s], t)
    <3>1. \A n \in Seqs : Names(query[n], t) => (result'[n] # <<>> <=> n <= s)
      <4> SUFFICES ASSUME NEW n \in Seqs, Names(query[n], t)
                   PROVE  result'[n] # <<>> <=> n <= s
        OBVIOUS
      <4>1. CASE n = s
        BY <1>5, <1>6, <4>1
      <4>2. CASE n # s
        <5>1. result'[n] = result[n] /\ (n < s \/ n > s) /\ (n <= s <=> n < s)
          BY <1>2, <1>5, <1>6, <4>2
        <5>2. n < s => ~(n > s)
          BY <1>2, <1>5
        <5> QED
          BY <1>2, <2>2, <5>1, <5>2
      <4> QED
        BY <4>1, <4>2
    <3>2. Rows(db', t) = Rows(Serial[s].db, t)
      BY <1>1, <2>2
    <3>3. PICK x \in 0 .. submitted : x = s
      BY <1>5
    <3>4. TableAt(t, x)'
      BY <1>3, <1>4, <3>1, <3>2, <3>3 DEF TableAt
    <3> QED
      BY <1>3, <3>4
  <2>3. CASE ~Names(query[s], t)
    <3>1. \A n \in Seqs : Names(query[n], t) => (result'[n] # <<>> <=> n <= p)
      BY <1>6, <2>1, <2>3 DEF TableAt
    <3>2. Rows(db', t) = Rows(Serial[p].db, t)
      BY <1>1, <2>1, <2>3 DEF TableAt
    <3>3. TableAt(t, p)'
      BY <1>3, <1>4, <3>1, <3>2 DEF TableAt
    <3> QED
      BY <1>3, <3>3
  <2> QED
    BY <2>2, <2>3
<1>8. ASSUME NEW f \in FileIds PROVE \E p \in 0 .. submitted' : FileAt(f, p)'
  <2>1. PICK p \in 0 .. submitted : FileAt(f, p)
    BY DEF SerialInv
  <2>2. CASE On(s, f)
    <3>1. \A n \in Seqs : On(n, f) => (result'[n] # <<>> <=> n <= s)
      <4> SUFFICES ASSUME NEW n \in Seqs, On(n, f)
                   PROVE  result'[n] # <<>> <=> n <= s
        OBVIOUS
      <4>1. CASE n = s
        BY <1>5, <1>6, <4>1
      <4>2. CASE n # s
        <5>1. result'[n] = result[n] /\ (n < s \/ n > s) /\ (n <= s <=> n < s)
          BY <1>2, <1>5, <1>6, <4>2
        <5>2. n < s => ~(n > s)
          BY <1>2, <1>5
        <5> QED
          BY <1>2, <2>2, <5>1, <5>2
      <4> QED
        BY <4>1, <4>2
    <3>2. disk'[f] = Serial[s].disk[f]
      BY <1>1, <2>2
    <3>3. PICK x \in 0 .. submitted : x = s
      BY <1>5
    <3>4. FileAt(f, x)'
      BY <1>3, <1>4, <3>1, <3>2, <3>3 DEF FileAt, On
    <3> QED
      BY <1>3, <3>4
  <2>3. CASE ~On(s, f)
    <3>1. \A n \in Seqs : On(n, f) => (result'[n] # <<>> <=> n <= p)
      BY <1>6, <2>1, <2>3 DEF FileAt
    <3>2. disk'[f] = Serial[p].disk[f]
      BY <1>1, <2>1, <2>3 DEF FileAt
    <3>3. FileAt(f, p)'
      BY <1>3, <1>4, <3>1, <3>2 DEF FileAt, On
    <3> QED
      BY <1>3, <3>3
  <2> QED
    BY <2>2, <2>3
<1>9. SerialOutput'
  <2> SUFFICES ASSUME NEW n \in Seqs, result'[n] # <<>>
               PROVE  result'[n] = <<Serial[n].out>>
    BY <1>4 DEF SerialOutput
  <2>1. CASE n = s
    BY <1>1, <1>6, <2>1
  <2>2. CASE n # s
    BY <1>6, <2>2 DEF SerialInv, SerialOutput
  <2> QED
    BY <2>1, <2>2
<1>10. stop' => Delivered'
  BY <1>3, <1>6 DEF SerialInv, Delivered
<1> QED
  BY <1>1, <1>3, <1>7, <1>8, <1>9, <1>10 DEF SerialInv

\* The other steps change none of this; once the queue is open the program is fixed.
LEMMA ProgramFixed ==
    ASSUME [Next]_vars, readyToFetch
    PROVE  query' = query /\ submitted' = submitted /\ readyToFetch'
<1>1. ~SubmitQuery
  BY DEF SubmitQuery, RegisterBarrier, RegisterLoad, RegisterDump, RegisterDrop,
         RegisterCopy, RegisterOther, Enqueue, RegisterItem
<1>2. CASE FetchStep \/ CompletionStep
  BY <1>2 DEF FetchStep, FetchNothing, FetchBarrier, LoadWaits, FetchLoad, LoadWins,
     TableWaits, FetchTable, TableWins, FetchUnchanged, clientVars, CompletionStep,
     BeginCompletion, UpdateReadyFiles, UpdateReadyTables, ReadyUnchanged,
     FinishCompletion, Retire
<1>3. CASE SetReady \/ UNCHANGED vars
  BY <1>3 DEF SetReady, vars, clientVars
<1> QED
  BY <1>1, <1>2, <1>3 DEF Next

\* A step that touches no data keeps how far each table and file has got.
LEMMA SerialKept ==
    ASSUME SerialInv, readyToFetch, [Next]_vars,
           UNCHANGED <<db, disk, result>>, stop' = stop \/ Delivered
    PROVE  SerialInv'
<1>1. query' = query /\ submitted' = submitted /\ readyToFetch'
  BY ProgramFixed
<1>2. Serial' = Serial
  BY <1>1, SerialStays
<1>3. \A t, p : TableAt(t, p)' <=> TableAt(t, p)
  BY <1>1, <1>2 DEF TableAt
<1>4. \A f, p : FileAt(f, p)' <=> FileAt(f, p)
  BY <1>1, <1>2 DEF FileAt, On
<1>5. SerialOutput' /\ (Delivered => Delivered') /\ IsDatabase(db')
  BY <1>1, <1>2 DEF SerialInv, SerialOutput, Delivered
<1>6. stop' => Delivered
  BY DEF SerialInv
<1> QED
  BY <1>1, <1>3, <1>4, <1>5, <1>6 DEF SerialInv

\* Before the queue opens the main thread registers queries, and then opens it.
LEMMA SerialOpens ==
    ASSUME TypeOK, SerialInv, ~readyToFetch,
           UNCHANGED <<pc, db, disk, result, stop>>,
           readyToFetch' => query' = query /\ submitted' = submitted
    PROVE  SerialInv'
<1>1. Untried /\ IsDatabase(db)
  BY DEF SerialInv
<1>2. Untried' /\ IsDatabase(db')
  BY <1>1 DEF Untried
<1>3. SerialOutput' /\ ~stop'
  BY <1>1 DEF Untried, SerialOutput
<1>4. ASSUME readyToFetch'
      PROVE  /\ \A t \in Tables : \E p \in 0 .. submitted' : TableAt(t, p)'
             /\ \A f \in FileIds : \E p \in 0 .. submitted' : FileAt(f, p)'
  <2>1. Serial' = Serial /\ submitted' = submitted /\ query' = query
    BY <1>4, SerialStays
  <2>2. Serial[0] = Outcome(NoTables, InitialDisk, Silent) /\ 0 \in 0 .. submitted
    BY SerialSteps, ConstantTypes DEF TypeOK, ClientTypeOK
  <2>3. \A s \in Seqs : ~(s <= 0)
    BY ConstantTypes DEF Seqs
  <2>4. \A t \in Tables : TableAt(t, 0)'
    BY <1>1, <2>1, <2>2, <2>3 DEF Untried, TableAt, Outcome
  <2>5. \A f \in FileIds : FileAt(f, 0)'
    BY <1>1, <2>1, <2>2, <2>3 DEF Untried, FileAt, Outcome
  <2> QED
    BY <2>1, <2>2, <2>4, <2>5
<1> QED
  BY <1>2, <1>3, <1>4 DEF SerialInv

\* Every step keeps the workers in line with the single-threaded mode.
LEMMA NextSerial ==
    ASSUME TypeOK, Ownership, PoolInv, DataInv, HoldInv, OrderInv, OrderInv', FileSerial,
           SerialInv, [DBNext]_dbVars
    PROVE  SerialInv'
<1>1. [Next]_vars
  BY DBStepsQueue
<1>2. CASE ~readyToFetch
  <2>1. \A w \in Workers : pc[w] = "work"
    BY <1>2 DEF SerialInv, Untried
  <2>2. CASE Submit
    <3>1. SubmitQuery /\ UNCHANGED <<pc, db, disk, result, stop>>
      BY <2>2 DEF Submit, workerVars, dataVars
    <3>2. readyToFetch' = readyToFetch
      BY <3>1 DEF SubmitQuery, RegisterBarrier, RegisterLoad, RegisterDump, RegisterDrop,
         RegisterCopy, RegisterOther, Enqueue, RegisterItem
    <3> QED
      BY <1>2, <3>1, <3>2, SerialOpens
  <2>3. CASE StartExecution
    <3>1. SetReady /\ UNCHANGED <<pc, db, disk, result, stop>>
      BY <2>3 DEF StartExecution, workerVars, dataVars
    <3>2. query' = query /\ submitted' = submitted
      BY <3>1 DEF SetReady
    <3> QED
      BY <1>2, <3>1, <3>2, SerialOpens
  <2>4. ~StopPool /\ \A w \in Workers : ~WorkerStep(w)
    <3>1. ~stop
      BY <1>2 DEF SerialInv, Untried
    <3>2. ~StopPool
      BY <1>2 DEF StopPool
    <3>3. ASSUME NEW w \in Workers PROVE ~WorkerStep(w)
      BY <1>2, <2>1, <3>1 DEF WorkerStep, Work, FetchNext, Push, Acquire, Execute, Complete,
         Release, Exit
    <3> QED
      BY <3>2, <3>3
  <2>5. CASE UNCHANGED dbVars
    <3>1. /\ UNCHANGED <<pc, db, disk, result, stop>> /\ query' = query
          /\ submitted' = submitted /\ readyToFetch' = readyToFetch
      BY <2>5 DEF dbVars, vars, clientVars, workerVars, dataVars
    <3> QED
      BY <1>2, <3>1, SerialOpens
  <2> QED
    BY <2>2, <2>3, <2>4, <2>5 DEF DBNext, Terminated
<1>3. CASE readyToFetch
  <2>1. CASE UNCHANGED <<db, disk, result>> /\ (stop' = stop \/ Delivered)
    BY <1>1, <1>3, <2>1, SerialKept
  <2>2. CASE Submit \/ StartExecution \/ StopPool \/ UNCHANGED dbVars
    <3>1. UNCHANGED <<db, disk, result>> /\ (stop' = stop \/ Delivered)
      BY <2>2 DEF Submit, StartExecution, StopPool, dbVars, workerVars, dataVars
    <3> QED
      BY <2>1, <3>1
  <2>3. ASSUME NEW w \in Workers, WorkerStep(w) PROVE SerialInv'
    <3>1. CASE Execute(w)
      BY <1>3, <3>1, ExecuteSerial
    <3>2. CASE FetchNext(w)
      <4>1. \A s \in Seqs : owner'[s] # "broken"
        BY DEF OrderInv, EveryQueryCompletes
      <4>2. result' = [s \in Seqs |-> result[s]]
        BY <3>2, <4>1 DEF FetchNext
      <4>3. result' = result
        BY <4>2 DEF DataInv
      <4>4. UNCHANGED <<db, disk, stop>>
        BY <3>2 DEF FetchNext
      <4> QED
        BY <2>1, <4>3, <4>4
    <3>3. CASE Work(w) \/ Push(w) \/ Acquire(w) \/ Release(w) \/ Exit(w)
      <4>1. UNCHANGED <<db, disk, result, stop>>
        BY <3>3 DEF Work, Push, TakeFrom, Acquire, Release, Exit, dataVars
      <4> QED
        BY <2>1, <4>1
    <3>4. CASE Complete(w)
      <4>1. UNCHANGED <<db, disk, result, stop>>
        BY <3>4 DEF Complete, dataVars
      <4> QED
        BY <2>1, <4>1
    <3> QED
      BY <2>3, <3>1, <3>2, <3>3, <3>4 DEF WorkerStep
  <2> QED
    BY <2>2, <2>3 DEF DBNext, Terminated
<1> QED
  BY <1>2, <1>3

\* An empty database is in line with it.
LEMMA InitSerial == DBInit => SerialInv
<1> SUFFICES ASSUME DBInit PROVE SerialInv
  OBVIOUS
<1>1. ~readyToFetch /\ Untried
  BY DEF DBInit, Init, Untried
<1>2. IsDatabase(db)
  BY <1>1 DEF Untried, IsDatabase, DatabaseOK, NoTables
<1>3. SerialOutput
  BY <1>1 DEF Untried, SerialOutput
<1> QED
  BY <1>1, <1>2, <1>3 DEF SerialInv, Untried

-----------------------------------------------------------------------------
(* The theorems.                                                           *)

\* The invariant of the data rests on that of the order.
LEMMA SerialInvariant ==
    ASSUME \A p : Workload(p) => Orderly(p)
    PROVE  DBSpec => [](SerialInv /\ OrderInv)
<1>1. DBSpec => []OrderInv
  BY WorkersUseScheduler, OrderInvariant, PTL
<1>2. DBSpec => [](TypeOK /\ Ownership /\ FileSerial)
  BY WorkersUseScheduler, OwnershipInvariant, FileOperationsSerial, PTL
<1>3. TypeOK /\ Ownership /\ PoolInv /\ DataInv /\ HoldInv /\ OrderInv /\ OrderInv'
        /\ FileSerial /\ SerialInv /\ [DBNext]_dbVars => SerialInv'
  BY NextSerial
<1> QED
  BY <1>1, <1>2, <1>3, InitSerial, PoolInvariant, DataInvariant, HoldInvariant, PTL
  DEF DBSpec

\* Whatever order the workers execute an orderly program in, every query shows what it
\* shows in the single-threaded mode: a query that is handed out finds the queries
\* before it that name its tables, or its file, executed, and no later one.
THEOREM OutputIsSerial ==
    ASSUME \A p : Workload(p) => Orderly(p)
    PROVE  DBSpec => []SerialOutput
<1>1. SerialInv => SerialOutput
  BY DEF SerialInv
<1> QED
  BY <1>1, SerialInvariant, PTL

\* ... and when the pool is stopped the tables and the files are those of the
\* single-threaded mode.
THEOREM FinalStateIsSerial ==
    ASSUME \A p : Workload(p) => Orderly(p)
    PROVE  DBSpec => []SerialFinalState
<1>1. TypeOK /\ DataInv /\ SerialInv /\ OrderInv => SerialFinalState
  <2> SUFFICES ASSUME TypeOK, DataInv, SerialInv, OrderInv, stop
               PROVE  db = Serial[submitted].db /\ disk = Serial[submitted].disk
    BY DEF SerialFinalState
  <2>1. submitted \in Nat /\ Seqs \subseteq Nat /\ submitted \in 0 .. submitted
    BY ConstantTypes DEF TypeOK, ClientTypeOK, Seqs
  <2>2. /\ \A t \in Tables : \E p \in 0 .. submitted : TableAt(t, p)
        /\ \A f \in FileIds : \E p \in 0 .. submitted : FileAt(f, p)
        /\ \A s \in Seqs : s <= submitted => result[s] # <<>>
    BY DEF SerialInv, Delivered
  <2>3. ProgInv
    BY DEF OrderInv
  <2>4. IsDatabase(Serial[submitted].db) /\ Serial[submitted].disk \in [FileIds -> Content]
    BY <2>1, <2>3, SerialSound
  <2>5. ASSUME NEW t \in Tables PROVE Rows(db, t) = Rows(Serial[submitted].db, t)
    <3>1. PICK p \in 0 .. submitted : TableAt(t, p)
      BY <2>2
    <3>2. \A r \in Seqs : p < r /\ r <= submitted => ~Names(query[r], t)
      <4>1. \A r \in Seqs : p < r => ~(r <= p)
        BY <2>1
      <4> QED
        BY <2>2, <3>1, <4>1 DEF TableAt
    <3>3. submitted \in p .. submitted
      BY <2>1
    <3>4. Rows(Serial[submitted].db, t) = Rows(Serial[p].db, t)
      BY <2>3, <3>2, <3>3, SerialBetween
    <3> QED
      BY <3>1, <3>4 DEF TableAt
  <2>6. ASSUME NEW f \in FileIds PROVE disk[f] = Serial[submitted].disk[f]
    <3>1. PICK p \in 0 .. submitted : FileAt(f, p)
      BY <2>2
    <3>2. \A r \in Seqs : p < r /\ r <= submitted => ~On(r, f)
      <4>1. \A r \in Seqs : p < r => ~(r <= p)
        BY <2>1
      <4> QED
        BY <2>2, <3>1, <4>1 DEF FileAt
    <3>3. submitted \in p .. submitted
      BY <2>1
    <3>4. Serial[submitted].disk[f] = Serial[p].disk[f]
      BY <2>3, <3>2, <3>3, SerialBetween
    <3> QED
      BY <3>1, <3>4 DEF FileAt
  <2>7. db = Serial[submitted].db
    BY <2>4, <2>5, SameDatabase DEF SerialInv
  <2>8. disk = Serial[submitted].disk
    BY <2>4, <2>6 DEF DataInv
  <2> QED
    BY <2>7, <2>8
<1>2. DBSpec => []TypeOK
  BY PoolInvariant, PTL
<1> QED
  BY <1>1, <1>2, DataInvariant, SerialInvariant, PTL
=============================================================================
