------------------------------ MODULE TaskQueue ------------------------------
(***************************************************************************)
(* The query scheduler of the multi-threaded mode: class TaskQueue         *)
(* (scheduler/TaskQueue.cpp, TaskQueueFetch.cpp, TaskQueueDeps.cpp) with   *)
(* its DependencyManager and its GlobalIndex.                              *)
(*                                                                         *)
(* The main thread parses and registers every query, then opens the queue. *)
(* Workers call fetchNext, execute what they get, and run the completion   *)
(* callback of the task.  Here a fetched task may complete at any moment;  *)
(* module LemonDB adds the workers, the table locks and the data.          *)
(*                                                                         *)
(* fetchNext and the callback hold the mutex mu.  Each iteration of        *)
(* fetchNext's loop, and each item a callback releases, is one step; mu is *)
(* kept in between, so nothing of the queue is interleaved.  What does     *)
(* interleave is the part of the callback after mu is released (Retire).   *)
(*                                                                         *)
(* A scheduled item is named by its sequence number, 1 .. MaxQueries.      *)
(***************************************************************************)
EXTENDS Queries, Integers, Sequences, FiniteSets, Functions

CONSTANTS
    Tables,       \* names of tables
    Control,      \* "__control__", the pseudo table of commands without a table
    NoTable,      \* the null TableQueue pointer
    Files,        \* paths that LOAD and DUMP name
    NoFile,       \* the empty path of the other queries
    Header,       \* the table a file names at start-up; Control: no such file
    Commands,     \* the queries a client may send
    MaxQueries,   \* bound: how many queries a run submits
    Quantum,      \* GlobalIndex::kFairnessQuantum
    Workload(_)   \* the programs considered: a predicate on their prefixes

TableIds == Tables \cup {Control}
FileIds  == Files \cup {NoFile}
Seqs     == 1 .. MaxQueries

Command == [type : QueryTypes, table : TableIds, file : FileIds,
            newTable : TableIds]

\* The placeholder for a query that is not yet submitted.
NoCommand == [type |-> "Nop", table |-> Control, file |-> NoFile,
              newTable |-> Control]

ASSUME NamesAssumption == /\ Control \notin Tables
                          /\ NoTable \notin TableIds
                          /\ NoFile \notin Files
ASSUME HeaderAssumption == Header \in [FileIds -> TableIds]
ASSUME BoundsAssumption == MaxQueries \in Nat /\ Quantum \in Nat
\* A file is named by LOAD and DUMP only, a second table by COPYTABLE only;
\* LOAD and the barriers name no table.
ASSUME CommandsAssumption ==
    /\ Commands \subseteq Command
    /\ \A c \in Commands :
          /\ c.file \in Files <=> c.type \in {"Load", "Dump"}
          /\ c.newTable \in Tables <=> c.type = "CopyTable"
          /\ c.table = Control <=> c.type \in BarrierTypes \cup {"Load"}

VARIABLES
    query,               \* the submitted queries
    submitted,           \* how many of them there are
    fileTableName,       \* Database::fileTableNameMap
    readyToFetch,        \* every query is registered
    item,                \* ScheduledItem: routing, dependencies, droppedFlag
    needRegister,        \* RegisterTable is among the task's completion actions
    owner,               \* which structure owns the item
    registered, registerSeq, queue,            \* the TableQueue of each table
    index,               \* GlobalIndex: headSeq of the live key, 0 if none
    loadQueue, loadBlocked,
    barriers, waitingTables, quitFlag,
    running, completed, fetchTick,
    lastScheduledFile, lastScheduledTable,     \* DependencyManager
    lastCompletedFile, lastCompletedTable,
    waitingFile, waitingTable,
    mu, current,         \* what mu is held for, and the callback that holds it
    readyFile, readyTable    \* the items that callback has released

clientVars  == <<query, submitted, fileTableName, readyToFetch>>
itemVars    == <<item, needRegister, owner>>
tableVars   == <<registered, registerSeq, queue, index>>
loadVars    == <<loadQueue, loadBlocked>>
barrierVars == <<barriers, waitingTables, quitFlag>>
countVars   == <<running, completed, fetchTick>>
schedVars   == <<lastScheduledFile, lastScheduledTable>>
depVars     == <<lastCompletedFile, lastCompletedTable, waitingFile,
                 waitingTable>>
muVars      == <<mu, current, readyFile, readyTable>>
vars == <<clientVars, itemVars, tableVars, loadVars, barrierVars, countVars,
          schedVars, depVars, muVars>>

-----------------------------------------------------------------------------
(* Types.                                                                  *)

Item == [tableId : TableIds, target : TableIds, fileDep : Nat, tableDep : Nat,
         dstDep : Nat, pendingTable : SUBSET TableIds, dropped : BOOLEAN]

Mark == [tag : QueryTypes, seq : Nat]

Owners == {"client", "barriers", "loadQueue", "queue", "waitingFile",
           "waitingTable", "readyFile", "readyTable", "fetched", "completing",
           "notified", "completed", "broken"}

ClientTypeOK ==
    /\ query \in [Seqs -> Command]
    /\ submitted \in 0 .. MaxQueries
    /\ fileTableName \in [FileIds -> TableIds]
    /\ readyToFetch \in BOOLEAN

ItemTypeOK ==
    /\ item \in [Seqs -> Item]
    /\ needRegister \in [Seqs -> BOOLEAN]
    /\ owner \in [Seqs -> Owners]

TableTypeOK ==
    /\ registered \in [TableIds -> BOOLEAN]
    /\ registerSeq \in [TableIds -> 0 .. MaxQueries]
    /\ queue \in [TableIds -> Seq(Seqs)]
    /\ index \in [TableIds -> 0 .. MaxQueries]

LineTypeOK ==
    /\ loadQueue \in Seq(Seqs)
    /\ loadBlocked \in BOOLEAN
    /\ barriers \in Seq(Seqs)
    /\ waitingTables \in SUBSET TableIds
    /\ quitFlag \in BOOLEAN

\* running is unsigned; that it is never negative follows from RunningCount.
CountTypeOK == running \in Int /\ completed \in Nat /\ fetchTick \in Nat

SchedTypeOK ==
    /\ lastScheduledFile \in [FileIds -> Mark]
    /\ lastScheduledTable \in [TableIds -> Mark]

DepTypeOK ==
    /\ lastCompletedFile \in [FileIds -> Nat]
    /\ lastCompletedTable \in [TableIds -> Nat]
    /\ waitingFile \in [FileIds -> SUBSET Seqs]
    /\ waitingTable \in [TableIds -> SUBSET Seqs]

MuTypeOK ==
    /\ mu \in {"free", "fetching", "completing"}
    /\ current \in 0 .. MaxQueries
    /\ (mu = "completing" => current \in Seqs)
    /\ readyFile \in SUBSET Seqs
    /\ readyTable \in [TableIds -> SUBSET Seqs]

\* Every variable of the scheduler has its type.
TypeOK == /\ ClientTypeOK /\ ItemTypeOK /\ TableTypeOK /\ LineTypeOK
          /\ CountTypeOK /\ SchedTypeOK /\ DepTypeOK /\ MuTypeOK

NewItem(tab) == [tableId |-> tab, target |-> tab, fileDep |-> 0, tableDep |-> 0,
                 dstDep |-> 0, pendingTable |-> {}, dropped |-> FALSE]

Init ==
    /\ query = [s \in Seqs |-> NoCommand]
    /\ submitted = 0
    /\ fileTableName = Header
    /\ readyToFetch = FALSE
    /\ item = [s \in Seqs |-> NewItem(Control)]
    /\ needRegister = [s \in Seqs |-> FALSE]
    /\ owner = [s \in Seqs |-> "client"]
    /\ registered = [t \in TableIds |-> FALSE]
    /\ registerSeq = [t \in TableIds |-> 0]
    /\ queue = [t \in TableIds |-> <<>>]
    /\ index = [t \in TableIds |-> 0]
    /\ loadQueue = <<>> /\ loadBlocked = FALSE
    /\ barriers = <<>> /\ waitingTables = {} /\ quitFlag = FALSE
    /\ running = 0 /\ completed = 0 /\ fetchTick = 0
    /\ lastScheduledFile = [f \in FileIds |-> [tag |-> "Load", seq |-> 0]]
    /\ lastScheduledTable = [t \in TableIds |-> [tag |-> "Load", seq |-> 0]]
    /\ lastCompletedFile = [f \in FileIds |-> 0]
    /\ lastCompletedTable = [t \in TableIds |-> 0]
    /\ waitingFile = [f \in FileIds |-> {}]
    /\ waitingTable = [t \in TableIds |-> {}]
    /\ mu = "free" /\ current = 0
    /\ readyFile = {} /\ readyTable = [t \in TableIds |-> {}]

-----------------------------------------------------------------------------
(* Registration: the parser resolves the table of a LOAD or notes the file *)
(* of a DUMP, and registerTask queues the item.                            *)

\* What operator[] returns and what markScheduledFile / Table leave behind.
MarkScheduled(marks, key, s, tag) ==
    IF s > marks[key].seq
    THEN [marks EXCEPT ![key] = [tag |-> tag, seq |-> s]]
    ELSE marks

\* Mutant: a query that is queued for its table is put on the index at once.
RegisterIndexed(q, it, place) ==
    /\ ~readyToFetch
    /\ submitted < MaxQueries
    /\ Workload(Append(SubSeq(query, 1, submitted), q))
    /\ submitted' = submitted + 1
    /\ query' = [query EXCEPT ![submitted + 1] = q]
    /\ item' = [item EXCEPT ![submitted + 1] = it]
    /\ owner' = [owner EXCEPT ![submitted + 1] = place]
    /\ index' = [index EXCEPT ![q.table] =
                   IF place = "queue" /\ @ = 0 THEN submitted + 1 ELSE @]
    /\ UNCHANGED <<readyToFetch, needRegister, registered, registerSeq, loadBlocked,
                   waitingTables, quitFlag, countVars, depVars, muVars>>

\* The part of registerTask that every query shares.  All queries are registered
\* before any is fetched, so quitFlag is never set here.
RegisterItem(q, it, place) ==
    /\ ~readyToFetch
    /\ submitted < MaxQueries
    /\ Workload(Append(SubSeq(query, 1, submitted), q))
    /\ submitted' = submitted + 1
    /\ query' = [query EXCEPT ![submitted + 1] = q]
    /\ item' = [item EXCEPT ![submitted + 1] = it]
    /\ owner' = [owner EXCEPT ![submitted + 1] = place]
    /\ UNCHANGED <<readyToFetch, needRegister, registered, registerSeq, index,
                   loadBlocked, waitingTables, quitFlag, countVars, depVars,
                   muVars>>

RegisterBarrier(q) ==
    /\ q.type \in BarrierTypes
    /\ RegisterItem(q, NewItem(Control), "barriers")
    /\ barriers' = Append(barriers, submitted + 1)
    /\ UNCHANGED <<fileTableName, queue, loadQueue, schedVars>>

\* A LOAD behind an unfinished DUMP of its file is pending: it waits for the
\* file only, and takes over the tables whose last scheduled operation is DROP.
RegisterLoad(q) ==
    LET s    == submitted + 1
        tab  == fileTableName[q.file]
        prev == lastScheduledFile[q.file]
        pending == /\ prev.tag = "Dump"
                   /\ lastCompletedFile[q.file] < prev.seq
        pend == {t \in TableIds : pending /\ lastScheduledTable[t].tag = "Drop"}
        it == [NewItem(tab) EXCEPT
                 !.fileDep = prev.seq,
                 !.tableDep = IF pending THEN 0 ELSE lastScheduledTable[tab].seq,
                 !.pendingTable = pend,
                 !.dropped = /\ prev.seq > 0
                             /\ prev.tag = "Load"
                             /\ lastScheduledTable[tab].tag # "Drop"]
    IN  /\ q.type = "Load"
        /\ RegisterItem(q, it, "loadQueue")
        /\ loadQueue' = Append(loadQueue, s)
        /\ lastScheduledFile' = MarkScheduled(lastScheduledFile, q.file, s, "Load")
        /\ lastScheduledTable' =
             IF pending
             THEN [t \in TableIds |-> IF t \in pend THEN [tag |-> "Nop", seq |-> s]
                                                    ELSE lastScheduledTable[t]]
             ELSE MarkScheduled(lastScheduledTable, tab, s, "Load")
        /\ UNCHANGED <<fileTableName, queue, barriers>>

\* Every query but LOAD and the barriers goes to the queue of its table.
Enqueue(q, it) ==
    /\ RegisterItem(q, it, "queue")
    /\ queue' = [queue EXCEPT ![q.table] = Append(@, submitted + 1)]
    /\ UNCHANGED <<loadQueue, barriers>>

RegisterDump(q) ==
    LET s == submitted + 1
    IN  /\ q.type = "Dump"
        /\ Enqueue(q, [NewItem(q.table) EXCEPT
                         !.fileDep = lastScheduledFile[q.file].seq,
                         !.tableDep = lastScheduledTable[q.table].seq])
        /\ fileTableName' = [fileTableName EXCEPT ![q.file] = q.table]
        /\ lastScheduledFile' = MarkScheduled(lastScheduledFile, q.file, s, "Dump")
        /\ lastScheduledTable' = MarkScheduled(lastScheduledTable, q.table, s, "Dump")

RegisterDrop(q) ==
    /\ q.type = "Drop"
    /\ Enqueue(q, [NewItem(q.table) EXCEPT
                     !.tableDep = lastScheduledTable[q.table].seq])
    /\ lastScheduledTable' =
         MarkScheduled(lastScheduledTable, q.table, submitted + 1, "Drop")
    /\ UNCHANGED <<fileTableName, lastScheduledFile>>

\* The source is marked first, so the destination mark sees it.
RegisterCopy(q) ==
    LET s   == submitted + 1
        src == MarkScheduled(lastScheduledTable, q.table, s, "CopyTable")
    IN  /\ q.type = "CopyTable"
        /\ Enqueue(q, [NewItem(q.table) EXCEPT
                         !.tableDep = lastScheduledTable[q.table].seq,
                         !.dstDep = src[q.newTable].seq])
        /\ lastScheduledTable' = MarkScheduled(src, q.newTable, s, "CopyTable")
        /\ UNCHANGED <<fileTableName, lastScheduledFile>>

RegisterOther(q) ==
    /\ q.type \notin BarrierTypes \cup TrackedTypes
    /\ Enqueue(q, NewItem(q.table))
    /\ UNCHANGED <<fileTableName, schedVars>>

SubmitQuery ==
    \E q \in Commands : \/ RegisterBarrier(q)
                        \/ RegisterLoad(q)
                        \/ RegisterDump(q)
                        \/ RegisterDrop(q)
                        \/ RegisterCopy(q)
                        \/ RegisterOther(q)

\* Runtime::startExecution, once the main thread has submitted the program.
SetReady ==
    /\ ~readyToFetch
    /\ readyToFetch' = TRUE
    /\ UNCHANGED <<query, submitted, fileTableName, itemVars, tableVars, loadVars,
                   barrierVars, countVars, schedVars, depVars, muVars>>

-----------------------------------------------------------------------------
(* fetchNext.                                                              *)

Priority(s) == classifyPriority(query[s].type)

\* Mutant: the item is compared with the last barrier.
BehindLast(s) == barriers # <<>> /\ s > barriers[Len(barriers)]

\* The item was submitted after the barrier at the head of the line.
Behind(s) == barriers # <<>> /\ s > Head(barriers)

\* The load getFetched takes out of loadQueue; 0 if it takes none.
LoadCand == IF loadQueue # <<>> /\ ~loadBlocked /\ ~Behind(Head(loadQueue))
            THEN Head(loadQueue)
            ELSE 0

Indexed  == {t \in TableIds : index[t] # 0 /\ queue[t] # <<>>}
Blocked  == {t \in Indexed : Behind(Head(queue[t]))}
Eligible == Indexed \ Blocked

\* The heap surely yields t before u.  While all stamps lie within the quantum
\* the order is by priority, then head; beyond it KeyCmp is not transitive and
\* only the priorities are sure to be respected.
Precedes(t, u) ==
    \/ Priority(index[t]) < Priority(index[u])
    \/ /\ fetchTick < Quantum
       /\ Priority(index[t]) = Priority(index[u])
       /\ index[t] < index[u]

\* getFetched picks table t (NoTable: none) after popping the tables in passed,
\* which wait for the barrier.
Picks(t, passed) ==
    \/ /\ Eligible = {}
       /\ t = NoTable
       /\ passed = Blocked
    \/ /\ t \in Eligible
       /\ \A u \in Eligible : ~Precedes(u, t)
       /\ \A u \in Blocked : /\ Precedes(u, t) => u \in passed
                             /\ Precedes(t, u) => u \notin passed

\* Mutant: the next item of the table is indexed when the first one is fetched.
GetFetchedAndNext(t, passed) ==
    /\ Picks(t, passed)
    /\ index' = [u \in TableIds |->
                   IF u = t /\ Len(queue[u]) > 1 THEN queue[u][2]
                   ELSE IF u \in passed \cup {t} THEN 0 ELSE index[u]]
    /\ waitingTables' = waitingTables \cup passed
    /\ loadBlocked' = (loadBlocked \/ (loadQueue # <<>> /\ Behind(Head(loadQueue))))

\* What getFetched leaves behind, the candidates apart.
GetFetched(t, passed) ==
    /\ Picks(t, passed)
    /\ index' = [u \in TableIds |-> IF u \in passed \cup {t} THEN 0 ELSE index[u]]
    /\ waitingTables' = waitingTables \cup passed
    /\ loadBlocked' = (loadBlocked \/ (loadQueue # <<>> /\ Behind(Head(loadQueue))))

\* The load candidate is served before the head of table t.
PreferLoad(t) ==
    /\ LoadCand # 0
    /\ t # NoTable =>
          \/ Priority(LoadCand) < Priority(Head(queue[t]))
          \/ /\ Priority(LoadCand) = Priority(Head(queue[t]))
             /\ LoadCand < Head(queue[t])

\* The unmet dependency of an item that is looked at first.
FileBlocked(s) == item[s].fileDep > lastCompletedFile[query[s].file]
SrcBlocked(s)  == item[s].tableDep > lastCompletedTable[item[s].tableId]
DstBlocked(s)  == item[s].dstDep > lastCompletedTable[query[s].newTable]

\* Mutant: the file is not looked at.
WaitsForTables(s) == SrcBlocked(s) \/ DstBlocked(s)

Waits(s) == FileBlocked(s) \/ SrcBlocked(s) \/ DstBlocked(s)

\* DependencyManager::addWait; the new owner is the heap the item waits in.
AddWaitTable(t, s) ==
    /\ waitingTable' = [waitingTable EXCEPT ![t] = @ \cup {s}]
    /\ UNCHANGED <<waitingFile, lastCompletedFile, lastCompletedTable>>

AddWait(s) ==
    \/ /\ FileBlocked(s)
       /\ waitingFile' = [waitingFile EXCEPT ![query[s].file] = @ \cup {s}]
       /\ UNCHANGED <<waitingTable, lastCompletedFile, lastCompletedTable>>
    \/ /\ ~FileBlocked(s) /\ SrcBlocked(s)
       /\ AddWaitTable(item[s].tableId, s)
    \/ /\ ~FileBlocked(s) /\ ~SrcBlocked(s)
       /\ AddWaitTable(query[s].newTable, s)

WaitOwner(s) == IF FileBlocked(s) THEN "waitingFile" ELSE "waitingTable"

\* classifyActions: only LOAD of an unregistered table, and COPYTABLE, register.  (A
\* LOAD that finds its table registered by a later query throws, which ends the
\* process; the model goes on.)
NeedRegister(s) == \/ query[s].type = "CopyTable"
                   \/ query[s].type = "Load" /\ ~registered[item[s].tableId]

\* buildExecutableFromScheduled and the counters.
Launch(s) ==
    /\ needRegister' = [needRegister EXCEPT ![s] = NeedRegister(s)]
    /\ running' = running + 1
    /\ fetchTick' = fetchTick + 1
    /\ mu' = "free"
    /\ UNCHANGED <<completed, item, registered, registerSeq>>

CanFetch == readyToFetch /\ mu \in {"free", "fetching"}

FetchUnchanged == UNCHANGED <<clientVars, schedVars, current, readyFile, readyTable>>

NoCandidate == LoadCand = 0 /\ Eligible = {}

\* Mutant: fetchBarrier does not look at running.
BarrierAtOnce == barriers # <<>>

\* fetchBarrier: a barrier waits until nothing runs ...
BarrierMayGo == barriers # <<>> /\ running = 0

\* Mutant: loadBlocked survives the barrier.
UnparkTables == waitingTables' = {} /\ UNCHANGED loadBlocked

\* ... and what it held back is served again when it goes.
Unpark == waitingTables' = {} /\ loadBlocked' = FALSE

\* fetchNext returns false.
FetchNothing ==
    /\ CanFetch /\ NoCandidate
    /\ ~BarrierMayGo
    /\ GetFetched(NoTable, Blocked)
    /\ mu' = "free"
    /\ FetchUnchanged
    /\ UNCHANGED <<itemVars, registered, registerSeq, queue, loadQueue, barriers,
                   quitFlag, countVars, depVars>>

\* With nothing to serve and nothing running the barrier goes, and the tables it
\* held back return to the index.
FetchBarrier ==
    LET b       == Head(barriers)
        waiting == waitingTables \cup Blocked
    IN  /\ CanFetch /\ NoCandidate
        /\ BarrierMayGo
        /\ barriers' = Tail(barriers)
        /\ quitFlag' = (quitFlag \/ query[b].type = "Quit")
        /\ Launch(b)
        /\ owner' = [owner EXCEPT ![b] = "fetched"]
        /\ index' = [t \in TableIds |->
                       IF t \in waiting
                       THEN IF queue[t] = <<>> THEN 0 ELSE Head(queue[t])
                       ELSE index[t]]
        /\ Unpark
        /\ FetchUnchanged
        /\ UNCHANGED <<queue, loadQueue, depVars>>

\* The load wins; the table that was picked has left the index with it.
LoadWins(t, passed) ==
    /\ CanFetch
    /\ PreferLoad(t)
    /\ GetFetched(t, passed)
    /\ loadQueue' = Tail(loadQueue)
    /\ FetchUnchanged
    /\ UNCHANGED <<queue, barriers, quitFlag>>

LoadWaits(t, passed) ==
    /\ LoadWins(t, passed)
    /\ Waits(LoadCand)
    /\ AddWait(LoadCand)
    /\ owner' = [owner EXCEPT ![LoadCand] = WaitOwner(LoadCand)]
    /\ mu' = "fetching"
    /\ UNCHANGED <<item, needRegister, registered, registerSeq, countVars>>

FetchLoad(t, passed) ==
    /\ LoadWins(t, passed)
    /\ ~Waits(LoadCand)
    /\ owner' = [owner EXCEPT ![LoadCand] = "fetched"]
    /\ Launch(LoadCand)
    /\ UNCHANGED depVars

\* Mutant: the item stays in the queue of its table.
KeepFront(t) == UNCHANGED queue

PopFront(t) == queue' = [queue EXCEPT ![t] = Tail(@)]

\* The table wins; a load candidate taken out of loadQueue is destroyed, and its
\* promise with it.
TableWins(t, passed) ==
    /\ CanFetch
    /\ t # NoTable
    /\ ~PreferLoad(t)
    /\ GetFetched(t, passed)
    /\ loadQueue' = IF LoadCand = 0 THEN loadQueue ELSE Tail(loadQueue)
    /\ PopFront(t)
    /\ FetchUnchanged
    /\ UNCHANGED <<barriers, quitFlag>>

\* The owner of the head of table t becomes o, and a load candidate is lost.
Takes(t, o) ==
    owner' = [s \in Seqs |-> IF s = Head(queue[t]) THEN o
                             ELSE IF s = LoadCand THEN "broken"
                             ELSE owner[s]]

TableWaits(t, passed) ==
    /\ TableWins(t, passed)
    /\ Waits(Head(queue[t]))
    /\ AddWait(Head(queue[t]))
    /\ Takes(t, WaitOwner(Head(queue[t])))
    /\ mu' = "fetching"
    /\ UNCHANGED <<item, needRegister, registered, registerSeq, countVars>>

FetchTable(t, passed) ==
    /\ TableWins(t, passed)
    /\ ~Waits(Head(queue[t]))
    /\ Takes(t, "fetched")
    /\ Launch(Head(queue[t]))
    /\ UNCHANGED depVars

FetchStep ==
    \/ FetchNothing
    \/ FetchBarrier
    \/ \E t \in Eligible \cup {NoTable}, passed \in SUBSET Blocked :
          \/ LoadWaits(t, passed)
          \/ FetchLoad(t, passed)
          \/ TableWaits(t, passed)
          \/ FetchTable(t, passed)

-----------------------------------------------------------------------------
(* onCompleted: the callback of an executed task.                          *)

\* The tables whose completed sequence number task s advances.
CompletedTables(s) ==
    CASE query[s].type = "Load" /\ item[s].pendingTable # {} ->
            item[s].pendingTable
      [] query[s].type = "CopyTable" -> {item[s].tableId, query[s].newTable}
      [] OTHER -> {item[s].tableId}

\* notifyCompleteBreakHelper: the waiting item q ends the release when sequence
\* number c completes.
FileHeldBack(q, c) == item[q].fileDep > c

\* Mutant: an item that waits for c itself is held back.
TableHeldBackAt(q, c) == item[q].tableDep >= c

TableHeldBack(q, c) ==
    CASE query[q].type = "CopyTable" -> item[q].tableDep > c /\ item[q].dstDep > c
      [] query[q].type = "Dump" -> FALSE
      [] OTHER -> item[q].tableDep > c

\* notifyCompleted pops the heap in sequence order up to the first item that is
\* held back; it returns at once if a later number has completed already.
ReleasedFile(f, c) ==
    {q \in waitingFile[f] : /\ c >= lastCompletedFile[f]
                            /\ \A r \in waitingFile[f] :
                                  r <= q => ~FileHeldBack(r, c)}

ReleasedTable(t, c) ==
    {q \in waitingTable[t] : /\ c >= lastCompletedTable[t]
                             /\ \A r \in waitingTable[t] :
                                   r <= q => ~TableHeldBack(r, c)}

\* applyRegisterTable: the tables that task s registers ...
Registers(s) ==
    {t \in TableIds : /\ needRegister[s] /\ ~registered[t]
                      /\ \/ t = item[s].tableId
                         \/ query[s].type = "CopyTable" /\ t = query[s].newTable}

\* ... and the queries older than s that wait in their queues.
Stale(s) ==
    {q \in Seqs : q < s /\ \E t \in Registers(s) : q \in Range(queue[t])}

\* The part of the callback up to the first released item: registration, then
\* updateDependencyRecords.
BeginCompletion(s) ==
    LET f == query[s].file
        files == IF f = NoFile THEN {} ELSE ReleasedFile(f, s)
        keys == CompletedTables(s)
        freed == UNION {ReleasedTable(t, s) : t \in keys}
    IN  /\ mu = "free"
        /\ owner[s] = "fetched"
        /\ mu' = "completing"
        /\ current' = s
        /\ registered' = [t \in TableIds |->
                            /\ registered[t] \/ t \in Registers(s)
                            /\ ~(query[s].type = "Drop" /\ t = item[s].tableId)]
        /\ registerSeq' = [t \in TableIds |-> IF t \in Registers(s) THEN s
                                              ELSE registerSeq[t]]
        /\ item' = [q \in Seqs |-> IF q \in Stale(s)
                                   THEN [item[q] EXCEPT !.dropped = TRUE]
                                   ELSE item[q]]
        /\ index' = [t \in TableIds |->
                       IF t \in Registers(s) /\ queue[t] # <<>>
                       THEN Head(queue[t]) ELSE index[t]]
        /\ lastCompletedFile' = [lastCompletedFile EXCEPT ![f] =
                                   IF f # NoFile /\ s >= @ THEN s ELSE @]
        /\ lastCompletedTable' = [t \in TableIds |->
                                    IF t \in keys /\ s >= lastCompletedTable[t]
                                    THEN s ELSE lastCompletedTable[t]]
        /\ readyFile' = files
        /\ waitingFile' = [waitingFile EXCEPT ![f] = @ \ files]
        /\ readyTable' = [t \in TableIds |-> IF t \in keys THEN ReleasedTable(t, s)
                                             ELSE {}]
        /\ waitingTable' = [t \in TableIds |-> waitingTable[t] \ readyTable'[t]]
        /\ owner' = [q \in Seqs |-> IF q = s THEN "completing"
                                    ELSE IF q \in files THEN "readyFile"
                                    ELSE IF q \in freed THEN "readyTable"
                                    ELSE owner[q]]
        /\ UNCHANGED <<clientVars, needRegister, queue, loadVars, barrierVars,
                       countVars, schedVars>>

\* A released item returns to the front of the load queue, to the front of its
\* table's queue (and the table to the index), or waits for its other table.
ToLoadQueue(r) ==
    /\ loadQueue' = <<r>> \o loadQueue
    /\ owner' = [owner EXCEPT ![r] = "loadQueue"]
    /\ UNCHANGED <<queue, index, depVars>>

ToTableQueue(r) ==
    /\ queue' = [queue EXCEPT ![item[r].tableId] = <<r>> \o @]
    /\ index' = [index EXCEPT ![item[r].tableId] = r]
    /\ owner' = [owner EXCEPT ![r] = "queue"]
    /\ UNCHANGED <<item, loadQueue, depVars>>

ToTableWait(t, r) ==
    /\ AddWaitTable(t, r)
    /\ owner' = [owner EXCEPT ![r] = "waitingTable"]
    /\ UNCHANGED <<item, queue, index, loadQueue>>

ReadyUnchanged == UNCHANGED <<clientVars, needRegister, registered, registerSeq,
                              loadBlocked, barrierVars, countVars, schedVars, mu,
                              current>>

\* updateReadyFiles.  A pending LOAD that took over tables learns only now which
\* table its file holds, from the parser's final map.
UpdateReadyFiles(r) ==
    /\ mu = "completing"
    /\ r \in readyFile
    /\ \A q \in readyFile : r <= q
    /\ readyFile' = readyFile \ {r}
    /\ \/ /\ query[r].type = "Load" /\ item[r].pendingTable # {}
          /\ item' = [item EXCEPT ![r].tableId = fileTableName[query[r].file]]
          /\ ToLoadQueue(r)
       \/ /\ query[r].type = "Load" /\ item[r].pendingTable = {} /\ SrcBlocked(r)
          /\ ToTableWait(item[r].tableId, r)
       \/ /\ query[r].type = "Load" /\ item[r].pendingTable = {} /\ ~SrcBlocked(r)
          /\ ToLoadQueue(r)
          /\ UNCHANGED item
       \/ /\ query[r].type # "Load"
          /\ ToTableQueue(r)
    /\ ReadyUnchanged /\ UNCHANGED readyTable

\* updateReadyTables, for an item released by table t: all files come first, and
\* the source of a COPYTABLE before its destination.
UpdateReadyTables(t, r) ==
    /\ mu = "completing"
    /\ readyFile = {}
    /\ query[current].type = "CopyTable" /\ t # item[current].tableId
         => readyTable[item[current].tableId] = {}
    /\ r \in readyTable[t]
    /\ \A q \in readyTable[t] : r <= q
    /\ readyTable' = [readyTable EXCEPT ![t] = @ \ {r}]
    /\ \/ /\ query[r].type = "Load"
          /\ ToLoadQueue(r)
          /\ UNCHANGED item
       \/ /\ query[r].type = "CopyTable" /\ SrcBlocked(r)
          /\ ToTableWait(item[r].tableId, r)
       \/ /\ query[r].type = "CopyTable" /\ ~SrcBlocked(r) /\ DstBlocked(r)
          /\ ToTableWait(query[r].newTable, r)
       \/ /\ query[r].type # "Load"
          /\ query[r].type = "CopyTable" => ~SrcBlocked(r) /\ ~DstBlocked(r)
          /\ ToTableQueue(r)
    /\ ReadyUnchanged /\ UNCHANGED readyFile

\* Mutant: the next item of the table is not indexed.
IndexNothing(tab) == UNCHANGED index

\* The next item of the completed task's table becomes visible to fetchNext.
IndexNext(tab) ==
    index' = IF tab # Control /\ queue[tab] # <<>>
             THEN [index EXCEPT ![tab] = Head(queue[tab])]
             ELSE index

\* Mutant: the callback ends and mu stays locked.
KeepMu == UNCHANGED mu /\ current' = 0

UnlockMu == mu' = "free" /\ current' = 0

\* The end of the callback's critical section.
FinishCompletion(s) ==
    /\ s = current
    /\ mu = "completing"
    /\ readyFile = {} /\ \A t \in TableIds : readyTable[t] = {}
    /\ IndexNext(item[s].tableId)
    /\ UnlockMu
    /\ owner' = [owner EXCEPT ![s] = "notified"]
    /\ UNCHANGED <<clientVars, item, needRegister, registered, registerSeq, queue,
                   loadVars, barrierVars, countVars, schedVars, depVars, readyFile,
                   readyTable>>

\* Mutant: running is not decremented.
RetireUncounted(s) ==
    /\ owner[s] = "notified"
    /\ owner' = [owner EXCEPT ![s] = "completed"]
    /\ completed' = completed + 1
    /\ UNCHANGED <<clientVars, item, needRegister, tableVars, loadVars, barrierVars,
                   running, fetchTick, schedVars, depVars, muVars>>

\* The counters change after mu is released.
Retire(s) ==
    /\ owner[s] = "notified"
    /\ owner' = [owner EXCEPT ![s] = "completed"]
    /\ running' = running - 1
    /\ completed' = completed + 1
    /\ UNCHANGED <<clientVars, item, needRegister, tableVars, loadVars, barrierVars,
                   fetchTick, schedVars, depVars, muVars>>

CompletionStep ==
    \E s \in Seqs : \/ BeginCompletion(s)
                    \/ UpdateReadyFiles(s)
                    \/ \E t \in TableIds : UpdateReadyTables(t, s)
                    \/ FinishCompletion(s)
                    \/ Retire(s)

Next == SubmitQuery \/ SetReady \/ FetchStep \/ CompletionStep

Spec == Init /\ [][Next]_vars

-----------------------------------------------------------------------------
(* Properties.                                                             *)

InFlight(s) == owner[s] \in {"fetched", "completing", "notified"}

\* The item has been handed to a worker.
Launched(s) == owner[s] \in {"fetched", "completing", "notified", "completed"}

Finished(s) == owner[s] \in {"notified", "completed"}

\* Every item that registerTask accepted and no worker has is owned by exactly one
\* structure, and appears there once: fetchNext hands out no query twice and the
\* moves between the queues and the heaps of the scheduler forget none (they do
\* break one: TableWins).
OwnedOnce ==
    /\ IsInjective(loadQueue) /\ IsInjective(barriers)
    /\ \A t \in TableIds : IsInjective(queue[t])
    /\ \A s \in Seqs :
          /\ owner[s] = "client" <=> s > submitted
          /\ owner[s] = "barriers" <=> s \in Range(barriers)
          /\ owner[s] = "loadQueue" <=> s \in Range(loadQueue)
          /\ \A t \in TableIds :
                (owner[s] = "queue" /\ item[s].tableId = t) <=> s \in Range(queue[t])
          /\ \A f \in FileIds :
                (owner[s] = "waitingFile" /\ query[s].file = f) <=> s \in waitingFile[f]
          /\ owner[s] = "waitingTable" <=> \E t \in TableIds : s \in waitingTable[t]
          /\ \A t, u \in TableIds :
                s \in waitingTable[t] \cap waitingTable[u] => t = u
          /\ owner[s] = "readyFile" <=> s \in readyFile
          /\ owner[s] = "readyTable" <=> \E t \in TableIds : s \in readyTable[t]
          /\ \A t, u \in TableIds : s \in readyTable[t] \cap readyTable[u] => t = u
          /\ owner[s] = "completing" <=> mu = "completing" /\ s = current

\* The atomic counter running, which fetchBarrier trusts, counts the tasks that are
\* fetched and not retired, whatever the interleaving of callbacks and fetches.
RunningCount == running = Cardinality({s \in Seqs : InFlight(s)})

\* LIST and QUIT start alone: when a barrier is fetched no task is in flight.
BarrierStartsAlone ==
    [][\A b \in Seqs :
          owner[b] = "barriers" /\ owner'[b] = "fetched" =>
              \A s \in Seqs : ~InFlight(s)]_vars

\* Nothing overtakes a barrier: a query submitted after a barrier that is still
\* queued has not been handed to a worker.
BarrierOrder ==
    \A b \in Range(barriers), s \in Seqs : Launched(s) => s < b

\* A live key of the GlobalIndex describes the present head of its table's queue,
\* so the priority and the order fetchNext chooses by are never stale.
IndexFresh ==
    \A t \in TableIds :
        index[t] # 0 => queue[t] # <<>> /\ index[t] = Head(queue[t])

\* What a barrier parked is unparked when it goes: with no barrier queued, neither
\* the load queue nor a table is held back.
ParkedByBarrier == (loadBlocked \/ waitingTables # {}) => barriers # <<>>

\* No missed wake-up: an item in a heap of the DependencyManager still waits for
\* something, since notifyCompleted, which stops at the first item it must hold
\* back, has left nothing behind whose dependency is met.
NoMissedWakeup ==
    /\ \A f \in FileIds : \A s \in waitingFile[f] :
          item[s].fileDep > lastCompletedFile[f]
    /\ \A t \in TableIds : \A s \in waitingTable[t] :
          \/ t = item[s].tableId /\ item[s].tableDep > lastCompletedTable[t]
          \/ t = query[s].newTable /\ item[s].dstDep > lastCompletedTable[t]

\* The operations on one file run one at a time and in the order of the program: a
\* LOAD or DUMP is handed out only when every earlier one of its file is finished.
FileSerial ==
    \A r, s \in Seqs :
        r < s /\ query[r].file = query[s].file /\ query[s].file # NoFile
            /\ Launched(s) => Finished(r)

\* The callback of a LOAD or COPYTABLE has begun, which created table t.
HasCreated(c, t) ==
    /\ owner[c] \in {"completing", "notified", "completed"}
    /\ \/ query[c].type = "Load" /\ item[c].tableId = t
       \/ query[c].type = "CopyTable" /\ query[c].newTable = t

\* A query that is queued for its table is handed out only when some other query, a LOAD
\* or COPYTABLE, has been executed and has created the table, however the table came to
\* be on the index: registered, parked, left by the query before, or with an item that
\* a heap has released.
ServedWhenCreated ==
    \A s \in Seqs :
        Launched(s) /\ query[s].type \notin BarrierTypes \cup {"Load"} =>
            \E c \in Seqs : c # s /\ HasCreated(c, query[s].table)

-----------------------------------------------------------------------------
(* The promise of the scheduler (module Dispatch), which hides where an    *)
(* item waits and which callback it is in.                                 *)

StatusOf(o) ==
    CASE o = "client"                    -> "none"
      [] o \in {"fetched", "completing"} -> "running"
      [] o = "notified"                  -> "reported"
      [] o = "completed"                 -> "done"
      [] o = "broken"                    -> "lost"
      [] OTHER                           -> "queued"

Promise == INSTANCE Dispatch WITH status <- [s \in Seqs |-> StatusOf(owner[s])]

\* Every step of the scheduler is one step of its promise or none: a query is handed
\* out once, behind the barriers and the operations on its file that precede it, a
\* barrier only when nothing runs, and nothing but a LOAD is ever lost.
KeepsPromise == Promise!Spec

-----------------------------------------------------------------------------
(* What a comment of the code says and the code does not do for every      *)
(* program; a violation run of MCLemonDB exhibits one.                     *)

\* Runtime.h: waitAll waits "for all submitted queries to complete".  A query whose
\* promise is destroyed never completes; its future is ready all the same.
EveryQueryCompletes == \A s \in Seqs : owner[s] # "broken"
=============================================================================
