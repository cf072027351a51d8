--------------------------- MODULE TaskQueueProofs ---------------------------
(***************************************************************************)
(* Theorems about the scheduler, for every set of tables, files and        *)
(* commands, every workload and every number of queries.                   *)
(***************************************************************************)
EXTENDS TaskQueue, TLAPS

-----------------------------------------------------------------------------
(* Type correctness.                                                       *)

\* The constants are as the configurations give them.
LEMMA ConstantTypes ==
    /\ MaxQueries \in Nat
    /\ Control \in TableIds /\ NoFile \in FileIds
    /\ NoTable \notin TableIds
    /\ Commands \subseteq Command
    /\ NoCommand \in Command
    /\ \A t \in TableIds : NewItem(t) \in Item
BY NamesAssumption, BoundsAssumption, CommandsAssumption
   DEF TableIds, FileIds, NoCommand, Command, NewItem, Item, QueryTypes, NullTypes

\* The initial state of the scheduler is well typed.
LEMMA InitType == Init => TypeOK
<1> SUFFICES ASSUME Init PROVE TypeOK
  OBVIOUS
<1> USE ConstantTypes DEF Init, Seqs
<1>1. [tag |-> "Load", seq |-> 0] \in Mark
  BY DEF Mark, QueryTypes, ReadTypes, WriteTypes, NullTypes
<1>2. ClientTypeOK
  <2>1. query \in [Seqs -> Command]
    OBVIOUS
  <2>2. fileTableName \in [FileIds -> TableIds]
    BY HeaderAssumption
  <2>3. submitted \in 0 .. MaxQueries
    OBVIOUS
  <2>4. readyToFetch \in BOOLEAN
    BY Zenon
  <2> QED
    BY <2>1, <2>2, <2>3, <2>4, Zenon DEF ClientTypeOK
<1>3. ItemTypeOK
  BY DEF ItemTypeOK, Owners
<1>4. TableTypeOK
  <2>1. <<>> \in Seq(Seqs)
    OBVIOUS
  <2>2. queue \in [TableIds -> Seq(Seqs)]
    BY <2>1
  <2>3. 0 \in 0 .. MaxQueries
    OBVIOUS
  <2> QED
    BY <2>2, <2>3 DEF TableTypeOK
<1>5. LineTypeOK
  <2>1. loadQueue \in Seq(Seqs) /\ barriers \in Seq(Seqs)
    OBVIOUS
  <2>2. waitingTables \in SUBSET TableIds
    OBVIOUS
  <2>3. loadBlocked \in BOOLEAN /\ quitFlag \in BOOLEAN
    BY Zenon
  <2> QED
    BY <2>1, <2>2, <2>3, Zenon DEF LineTypeOK
<1>6. CountTypeOK
  BY DEF CountTypeOK
<1>7. SchedTypeOK
  BY <1>1 DEF SchedTypeOK
<1>8. DepTypeOK /\ MuTypeOK
  BY DEF DepTypeOK, MuTypeOK
<1> QED
  BY <1>2, <1>3, <1>4, <1>5, <1>6, <1>7, <1>8 DEF TypeOK

\* markScheduledFile and markScheduledTable keep a table of marks well typed.
LEMMA MarkScheduledType ==
    ASSUME NEW K, NEW marks \in [K -> Mark], NEW key \in K, NEW s \in Nat,
           NEW tag \in QueryTypes
    PROVE  MarkScheduled(marks, key, s, tag) \in [K -> Mark]
BY DEF MarkScheduled, Mark

\* registerTask adds one well-typed item and leaves the running scheduler alone: it
\* is enough to look at the structures the item goes to.
LEMMA RegisterItemType ==
    ASSUME TypeOK, NEW q \in Commands, NEW it \in Item, NEW place \in Owners,
           RegisterItem(q, it, place),
           fileTableName' \in [FileIds -> TableIds],
           queue' \in [TableIds -> Seq(Seqs)],
           loadQueue' \in Seq(Seqs), barriers' \in Seq(Seqs), SchedTypeOK'
    PROVE  TypeOK'
<1> USE ConstantTypes DEF TypeOK, RegisterItem
<1>1. submitted + 1 \in Seqs /\ submitted' \in 0 .. MaxQueries
  BY DEF ClientTypeOK, Seqs
<1>2. query' \in [Seqs -> Command]
  BY <1>1 DEF ClientTypeOK
<1>3. ClientTypeOK'
  BY <1>1, <1>2, Zenon DEF ClientTypeOK
<1>4. ItemTypeOK'
  BY <1>1 DEF ItemTypeOK
<1>5. CountTypeOK' /\ DepTypeOK' /\ MuTypeOK'
  BY DEF CountTypeOK, DepTypeOK, MuTypeOK, countVars, depVars, muVars
<1>6. TableTypeOK'
  BY DEF TableTypeOK
<1>7. LineTypeOK'
  BY Zenon DEF LineTypeOK
<1> QED
  BY <1>3, <1>4, <1>5, <1>6, <1>7 DEF TypeOK

\* ... and Enqueue appends it to the queue of its table.
LEMMA EnqueueType ==
    ASSUME TypeOK, NEW q \in Commands, NEW it \in Item, Enqueue(q, it),
           fileTableName' \in [FileIds -> TableIds], SchedTypeOK'
    PROVE  TypeOK'
<1>1. q.table \in TableIds
  BY ConstantTypes DEF Command
<1>2. submitted + 1 \in Seqs
  BY ConstantTypes DEF TypeOK, ClientTypeOK, Seqs, Enqueue, RegisterItem
<1>3. Append(queue[q.table], submitted + 1) \in Seq(Seqs)
  BY <1>1, <1>2 DEF TypeOK, TableTypeOK
<1>4. queue' \in [TableIds -> Seq(Seqs)]
  BY <1>1, <1>3 DEF TypeOK, TableTypeOK, Enqueue
<1>5. loadQueue' \in Seq(Seqs) /\ barriers' \in Seq(Seqs)
  BY DEF TypeOK, LineTypeOK, Enqueue
<1>6. RegisterItem(q, it, "queue") /\ "queue" \in Owners
  BY DEF Enqueue, Owners
<1> QED
  BY <1>4, <1>5, <1>6, RegisterItemType

\* Registering a query of any type keeps the types.
LEMMA SubmitQueryType == TypeOK /\ SubmitQuery => TypeOK'
<1> SUFFICES ASSUME TypeOK,
                    NEW q \in Commands,
                    \/ RegisterBarrier(q) \/ RegisterLoad(q) \/ RegisterDump(q)
                    \/ RegisterDrop(q) \/ RegisterCopy(q) \/ RegisterOther(q)
             PROVE  TypeOK'
  BY DEF SubmitQuery
<1> DEFINE s == submitted + 1
<1>1. /\ q.type \in QueryTypes /\ q.table \in TableIds
      /\ q.file \in FileIds /\ q.newTable \in TableIds
  BY ConstantTypes DEF Command
<1>2. ASSUME NEW it, NEW place, RegisterItem(q, it, place)
      PROVE  s \in Seqs /\ s \in Nat
  BY <1>2, ConstantTypes DEF TypeOK, ClientTypeOK, Seqs, RegisterItem
<1>3. /\ NewItem(Control) \in Item /\ NewItem(q.table) \in Item
  BY <1>1, ConstantTypes
<1>4. /\ fileTableName \in [FileIds -> TableIds]
      /\ queue \in [TableIds -> Seq(Seqs)]
      /\ loadQueue \in Seq(Seqs) /\ barriers \in Seq(Seqs)
      /\ lastScheduledFile \in [FileIds -> Mark]
      /\ lastScheduledTable \in [TableIds -> Mark]
  BY DEF TypeOK, ClientTypeOK, TableTypeOK, LineTypeOK, SchedTypeOK
<1>5. \A t \in TableIds : lastScheduledTable[t].seq \in Nat
  BY <1>4 DEF Mark
<1>6. \A f \in FileIds : lastScheduledFile[f].seq \in Nat
  BY <1>4 DEF Mark
<1>7. /\ "Load" \in QueryTypes /\ "Dump" \in QueryTypes /\ "Drop" \in QueryTypes
      /\ "CopyTable" \in QueryTypes /\ "Nop" \in QueryTypes
  BY DEF QueryTypes, ReadTypes, WriteTypes, NullTypes
<1>8. CASE RegisterBarrier(q)
  <2>1. RegisterItem(q, NewItem(Control), "barriers") /\ "barriers" \in Owners
    BY <1>8 DEF RegisterBarrier, Owners
  <2>2. barriers' \in Seq(Seqs)
    BY <1>2, <1>4, <1>8, <2>1 DEF RegisterBarrier
  <2>3. /\ fileTableName' \in [FileIds -> TableIds]
        /\ queue' \in [TableIds -> Seq(Seqs)]
        /\ loadQueue' \in Seq(Seqs) /\ SchedTypeOK'
    BY <1>4, <1>8 DEF RegisterBarrier, SchedTypeOK, schedVars
  <2> QED
    BY <1>3, <2>1, <2>2, <2>3, RegisterItemType
<1>9. CASE RegisterDump(q)
  <2> DEFINE it == [NewItem(q.table) EXCEPT
                      !.fileDep = lastScheduledFile[q.file].seq,
                      !.tableDep = lastScheduledTable[q.table].seq]
  <2>1. it \in Item
    BY <1>1, <1>3, <1>5, <1>6 DEF Item
  <2>2. Enqueue(q, it)
    BY <1>9 DEF RegisterDump
  <2>3. s \in Nat
    BY <1>2, <2>2 DEF Enqueue
  <2>4. SchedTypeOK'
    BY <1>1, <1>4, <1>7, <1>9, <2>3, MarkScheduledType DEF RegisterDump, SchedTypeOK
  <2>5. fileTableName' \in [FileIds -> TableIds]
    BY <1>1, <1>4, <1>9 DEF RegisterDump
  <2> QED
    BY <2>1, <2>2, <2>4, <2>5, EnqueueType
<1>10. CASE RegisterDrop(q)
  <2> DEFINE it == [NewItem(q.table) EXCEPT
                      !.tableDep = lastScheduledTable[q.table].seq]
  <2>1. it \in Item
    BY <1>1, <1>3, <1>5 DEF Item
  <2>2. Enqueue(q, it)
    BY <1>10 DEF RegisterDrop
  <2>3. s \in Nat
    BY <1>2, <2>2 DEF Enqueue
  <2>4. SchedTypeOK' /\ fileTableName' \in [FileIds -> TableIds]
    BY <1>1, <1>4, <1>7, <1>10, <2>3, MarkScheduledType DEF RegisterDrop, SchedTypeOK
  <2> QED
    BY <2>1, <2>2, <2>4, EnqueueType
<1>11. CASE RegisterCopy(q)
  <2> DEFINE src == MarkScheduled(lastScheduledTable, q.table, s, "CopyTable")
             it  == [NewItem(q.table) EXCEPT
                       !.tableDep = lastScheduledTable[q.table].seq,
                       !.dstDep = src[q.newTable].seq]
  <2>1. Enqueue(q, it)
    BY <1>11 DEF RegisterCopy
  <2>2. s \in Nat
    BY <1>2, <2>1 DEF Enqueue
  <2>3. src \in [TableIds -> Mark]
    BY <1>1, <1>4, <1>7, <2>2, MarkScheduledType
  <2>4. src[q.newTable].seq \in Nat
    BY <1>1, <2>3 DEF Mark
  <2>5. it \in Item
    BY <1>1, <1>3, <1>5, <2>4 DEF Item
  <2>6. lastScheduledTable' \in [TableIds -> Mark]
    BY <1>1, <1>7, <1>11, <2>2, <2>3, MarkScheduledType DEF RegisterCopy
  <2>7. SchedTypeOK' /\ fileTableName' \in [FileIds -> TableIds]
    BY <1>4, <1>11, <2>6 DEF RegisterCopy, SchedTypeOK
  <2> QED
    BY <2>1, <2>5, <2>7, EnqueueType
<1>12. CASE RegisterOther(q)
  <2>1. Enqueue(q, NewItem(q.table))
    BY <1>12 DEF RegisterOther
  <2>2. SchedTypeOK' /\ fileTableName' \in [FileIds -> TableIds]
    BY <1>4, <1>12 DEF RegisterOther, SchedTypeOK, schedVars
  <2> QED
    BY <1>3, <2>1, <2>2, EnqueueType
<1>13. CASE RegisterLoad(q)
  <2> DEFINE tab  == fileTableName[q.file]
             prev == lastScheduledFile[q.file]
             pending == /\ prev.tag = "Dump"
                        /\ lastCompletedFile[q.file] < prev.seq
             pend == {t \in TableIds : pending /\ lastScheduledTable[t].tag = "Drop"}
             drop == /\ prev.seq > 0
                     /\ prev.tag = "Load"
                     /\ lastScheduledTable[tab].tag # "Drop"
             it == [NewItem(tab) EXCEPT
                      !.fileDep = prev.seq,
                      !.tableDep = IF pending THEN 0 ELSE lastScheduledTable[tab].seq,
                      !.pendingTable = pend,
                      !.dropped = drop]
  <2>1. tab \in TableIds
    BY <1>1, <1>4
  <2>2. NewItem(tab) \in Item
    BY <2>1, ConstantTypes
  <2>3. /\ prev.seq \in Nat
        /\ (IF pending THEN 0 ELSE lastScheduledTable[tab].seq) \in Nat
        /\ pend \in SUBSET TableIds
    BY <1>1, <1>5, <1>6, <2>1
  <2>4. drop \in BOOLEAN
    BY Zenon
  <2>5. it \in Item
    <3> HIDE DEF drop, pend, pending, prev, tab
    <3> QED  BY <2>2, <2>3, <2>4 DEF Item
  <2>6. RegisterItem(q, it, "loadQueue") /\ "loadQueue" \in Owners
    BY <1>13 DEF RegisterLoad, Owners
  <2>7. s \in Seqs /\ s \in Nat
    BY <1>2, <2>6
  <2>8. lastScheduledFile' \in [FileIds -> Mark]
    BY <1>1, <1>4, <1>7, <1>13, <2>7, MarkScheduledType DEF RegisterLoad
  <2>9. lastScheduledTable' \in [TableIds -> Mark]
    <3>1. MarkScheduled(lastScheduledTable, tab, s, "Load") \in [TableIds -> Mark]
      BY <1>4, <1>7, <2>1, <2>7, MarkScheduledType
    <3>2. [t \in TableIds |-> IF t \in pend THEN [tag |-> "Nop", seq |-> s]
                              ELSE lastScheduledTable[t]] \in [TableIds -> Mark]
      BY <1>4, <1>7, <2>7 DEF Mark
    <3> QED
      BY <1>13, <3>1, <3>2 DEF RegisterLoad
  <2>10. loadQueue' \in Seq(Seqs)
    BY <1>4, <1>13, <2>7 DEF RegisterLoad
  <2>11. /\ fileTableName' \in [FileIds -> TableIds] /\ SchedTypeOK'
         /\ queue' \in [TableIds -> Seq(Seqs)] /\ barriers' \in Seq(Seqs)
    BY <1>4, <1>13, <2>8, <2>9 DEF RegisterLoad, SchedTypeOK
  <2> QED
    <3> HIDE DEF it
    <3> QED  BY <2>5, <2>6, <2>10, <2>11, RegisterItemType
<1> QED
  BY <1>8, <1>9, <1>10, <1>11, <1>12, <1>13

\* Opening the queue changes one flag.
LEMMA SetReadyType == TypeOK /\ SetReady => TypeOK'
<1> SUFFICES ASSUME TypeOK, SetReady PROVE TypeOK'
  OBVIOUS
<1> USE DEF TypeOK, SetReady
<1>1. ClientTypeOK'
  BY Zenon DEF ClientTypeOK
<1>2. ItemTypeOK' /\ TableTypeOK'
  BY DEF ItemTypeOK, TableTypeOK, itemVars, tableVars
<1>3. LineTypeOK'
  BY Zenon DEF LineTypeOK, loadVars, barrierVars
<1>4. CountTypeOK' /\ SchedTypeOK' /\ DepTypeOK' /\ MuTypeOK'
  BY DEF CountTypeOK, SchedTypeOK, DepTypeOK, MuTypeOK, countVars, schedVars, depVars,
         muVars
<1> QED
  BY <1>1, <1>2, <1>3, <1>4

\* The candidates of fetchNext are items.
LEMMA CandidateTypes ==
    ASSUME TypeOK
    PROVE  /\ LoadCand # 0 => LoadCand \in Seqs /\ loadQueue # <<>>
                              /\ LoadCand = Head(loadQueue)
           /\ Indexed \subseteq TableIds /\ Blocked \subseteq TableIds
           /\ Eligible \subseteq TableIds
           /\ \A t \in Eligible : queue[t] # <<>> /\ Head(queue[t]) \in Seqs
BY DEF TypeOK, TableTypeOK, LineTypeOK, LoadCand, Indexed, Blocked, Eligible

\* getFetched clears entries of the index and parks tables.
LEMMA GetFetchedType ==
    ASSUME TypeOK, NEW t, NEW passed \in SUBSET Blocked, GetFetched(t, passed)
    PROVE  /\ index' \in [TableIds -> 0 .. MaxQueries]
           /\ waitingTables' \in SUBSET TableIds
           /\ loadBlocked' \in BOOLEAN
<1>1. index' \in [TableIds -> 0 .. MaxQueries]
  BY ConstantTypes DEF GetFetched, TypeOK, TableTypeOK
<1>2. waitingTables' \in SUBSET TableIds
  BY CandidateTypes DEF GetFetched, TypeOK, LineTypeOK
<1>3. loadBlocked' \in BOOLEAN
  BY Zenon DEF GetFetched
<1> QED
  BY <1>1, <1>2, <1>3

\* addWait puts an item into a heap.
LEMMA AddWaitTableType ==
    ASSUME TypeOK, NEW t \in TableIds, NEW s \in Seqs, AddWaitTable(t, s)
    PROVE  DepTypeOK'
BY DEF TypeOK, DepTypeOK, AddWaitTable

\* addWait keeps the types, whichever heap the item goes to.
LEMMA AddWaitType ==
    ASSUME TypeOK, NEW s \in Seqs, AddWait(s)
    PROVE  DepTypeOK' /\ WaitOwner(s) \in Owners
<1>1. item[s].tableId \in TableIds
  BY DEF TypeOK, ItemTypeOK, Item
<1>2. query[s].newTable \in TableIds /\ query[s].file \in FileIds
  BY DEF TypeOK, ClientTypeOK, Command
<1>3. DepTypeOK'
  <2>1. CASE FileBlocked(s)
    BY <1>2, <2>1 DEF AddWait, TypeOK, DepTypeOK
  <2>2. CASE ~FileBlocked(s) /\ SrcBlocked(s)
    BY <1>1, <2>2, AddWaitTableType DEF AddWait
  <2>3. CASE ~FileBlocked(s) /\ ~SrcBlocked(s)
    BY <1>2, <2>3, AddWaitTableType DEF AddWait
  <2> QED
    BY <2>1, <2>2, <2>3
<1>4. WaitOwner(s) \in Owners
  BY DEF WaitOwner, Owners
<1> QED
  BY <1>3, <1>4

\* A launched item has its completion actions chosen and is counted.
LEMMA LaunchType ==
    ASSUME TypeOK, NEW s \in Seqs, Launch(s)
    PROVE  /\ needRegister' \in [Seqs -> BOOLEAN]
           /\ item' \in [Seqs -> Item]
           /\ registered' = registered /\ registerSeq' = registerSeq
           /\ CountTypeOK'
           /\ mu' = "free"
<1>1. NeedRegister(s) \in BOOLEAN
  BY Zenon DEF NeedRegister
<1>2. needRegister' \in [Seqs -> BOOLEAN]
  BY <1>1 DEF Launch, TypeOK, ItemTypeOK
<1>3. CountTypeOK'
  BY DEF Launch, TypeOK, CountTypeOK
<1> QED
  BY <1>2, <1>3 DEF Launch, TypeOK, ItemTypeOK

\* What every step of fetchNext leaves alone keeps its type.
LEMMA FetchUnchangedType ==
    ASSUME TypeOK, FetchUnchanged, mu' \in {"free", "fetching"}
    PROVE  ClientTypeOK' /\ SchedTypeOK' /\ MuTypeOK'
<1> USE DEF TypeOK, FetchUnchanged
<1>1. ClientTypeOK'
  BY Zenon DEF ClientTypeOK, clientVars
<1>2. SchedTypeOK'
  BY DEF SchedTypeOK, schedVars
<1>3. MuTypeOK'
  BY DEF MuTypeOK
<1> QED
  BY <1>1, <1>2, <1>3

\* fetchNext keeps the types when it hands out nothing ...
LEMMA FetchNothingType == TypeOK /\ FetchNothing => TypeOK'
<1> SUFFICES ASSUME TypeOK, FetchNothing PROVE TypeOK'
  OBVIOUS
<1>1. ClientTypeOK' /\ SchedTypeOK' /\ MuTypeOK'
  BY FetchUnchangedType DEF FetchNothing
<1>2. /\ index' \in [TableIds -> 0 .. MaxQueries]
      /\ waitingTables' \in SUBSET TableIds /\ loadBlocked' \in BOOLEAN
  BY GetFetchedType DEF FetchNothing
<1>3. ItemTypeOK' /\ CountTypeOK' /\ DepTypeOK'
  BY DEF FetchNothing, TypeOK, ItemTypeOK, CountTypeOK, DepTypeOK, itemVars, countVars,
         depVars
<1>4. TableTypeOK'
  BY <1>2 DEF FetchNothing, TypeOK, TableTypeOK
<1>5. LineTypeOK'
  BY <1>2, Zenon DEF FetchNothing, TypeOK, LineTypeOK
<1> QED
  BY <1>1, <1>3, <1>4, <1>5 DEF TypeOK

\* ... or a barrier, which returns the parked tables to the index.
LEMMA FetchBarrierType == TypeOK /\ FetchBarrier => TypeOK'
<1> SUFFICES ASSUME TypeOK, FetchBarrier PROVE TypeOK'
  OBVIOUS
<1> DEFINE b == Head(barriers)
<1>1. b \in Seqs /\ Tail(barriers) \in Seq(Seqs)
  BY DEF FetchBarrier, BarrierMayGo, TypeOK, LineTypeOK
<1>2. Launch(b)
  BY DEF FetchBarrier
<1>3. ClientTypeOK' /\ SchedTypeOK' /\ MuTypeOK'
  BY <1>1, <1>2, LaunchType, FetchUnchangedType DEF FetchBarrier
<1>4. owner' \in [Seqs -> Owners]
  BY <1>1 DEF FetchBarrier, TypeOK, ItemTypeOK, Owners
<1>5. ItemTypeOK' /\ CountTypeOK'
  BY <1>1, <1>2, <1>4, LaunchType DEF ItemTypeOK
<1>6. DepTypeOK'
  BY DEF FetchBarrier, TypeOK, DepTypeOK, depVars
<1>7. \A t \in TableIds : queue[t] # <<>> => Head(queue[t]) \in 0 .. MaxQueries
  BY ConstantTypes DEF TypeOK, TableTypeOK, Seqs
<1>8. index' \in [TableIds -> 0 .. MaxQueries]
  BY <1>7, ConstantTypes DEF FetchBarrier, TypeOK, TableTypeOK
<1>9. TableTypeOK'
  BY <1>1, <1>2, <1>8, LaunchType DEF FetchBarrier, TypeOK, TableTypeOK
<1>10. LineTypeOK'
  <2>1. waitingTables' \in SUBSET TableIds
    BY DEF FetchBarrier, Unpark
  <2>2. loadBlocked' \in BOOLEAN /\ quitFlag' \in BOOLEAN
    BY Zenon DEF FetchBarrier, Unpark
  <2>3. loadQueue' \in Seq(Seqs) /\ barriers' \in Seq(Seqs)
    BY <1>1 DEF FetchBarrier, TypeOK, LineTypeOK
  <2> QED
    BY <2>1, <2>2, <2>3, Zenon DEF LineTypeOK
<1> QED
  BY <1>3, <1>5, <1>6, <1>9, <1>10 DEF TypeOK

\* ... and what they share when a candidate is chosen.
LEMMA ChosenType ==
    ASSUME TypeOK, NEW t \in Eligible \cup {NoTable}, NEW passed \in SUBSET Blocked,
           GetFetched(t, passed), FetchUnchanged,
           mu' \in {"free", "fetching"},
           barriers' = barriers /\ quitFlag' = quitFlag,
           loadQueue' \in Seq(Seqs), queue' \in [TableIds -> Seq(Seqs)],
           registered' = registered /\ registerSeq' = registerSeq,
           ItemTypeOK', CountTypeOK', DepTypeOK'
    PROVE  TypeOK'
<1>1. /\ index' \in [TableIds -> 0 .. MaxQueries]
      /\ waitingTables' \in SUBSET TableIds /\ loadBlocked' \in BOOLEAN
  BY GetFetchedType
<1>2. TableTypeOK'
  BY <1>1 DEF TypeOK, TableTypeOK
<1>3. LineTypeOK'
  BY <1>1, Zenon DEF TypeOK, LineTypeOK
<1> QED
  BY <1>2, <1>3, FetchUnchangedType DEF TypeOK

\* fetchNext keeps the types when it serves the load queue ...
LEMMA LoadWinsType ==
    ASSUME TypeOK, NEW t \in Eligible \cup {NoTable}, NEW passed \in SUBSET Blocked,
           LoadWaits(t, passed) \/ FetchLoad(t, passed)
    PROVE  TypeOK'
<1>1. LoadWins(t, passed)
  BY DEF LoadWaits, FetchLoad
<1>2. LoadCand \in Seqs /\ loadQueue # <<>>
  BY <1>1, CandidateTypes DEF LoadWins, PreferLoad
<1>3. /\ loadQueue' \in Seq(Seqs) /\ queue' \in [TableIds -> Seq(Seqs)]
      /\ barriers' = barriers /\ quitFlag' = quitFlag
      /\ GetFetched(t, passed) /\ FetchUnchanged
  BY <1>1, <1>2 DEF LoadWins, TypeOK, LineTypeOK, TableTypeOK
<1>4. CASE LoadWaits(t, passed)
  <2>1. DepTypeOK' /\ WaitOwner(LoadCand) \in Owners
    BY <1>2, <1>4, AddWaitType DEF LoadWaits
  <2>2. ItemTypeOK' /\ CountTypeOK'
    BY <1>2, <1>4, <2>1 DEF LoadWaits, TypeOK, ItemTypeOK, CountTypeOK, countVars
  <2>3. mu' = "fetching" /\ registered' = registered /\ registerSeq' = registerSeq
    BY <1>4 DEF LoadWaits
  <2> QED
    BY <1>3, <2>1, <2>2, <2>3, ChosenType
<1>5. CASE FetchLoad(t, passed)
  <2>1. Launch(LoadCand)
    BY <1>5 DEF FetchLoad
  <2>2. owner' \in [Seqs -> Owners]
    BY <1>2, <1>5 DEF FetchLoad, TypeOK, ItemTypeOK, Owners
  <2>3. ItemTypeOK' /\ CountTypeOK' /\ mu' = "free"
        /\ registered' = registered /\ registerSeq' = registerSeq
    BY <1>2, <2>1, <2>2, LaunchType DEF ItemTypeOK
  <2>4. DepTypeOK'
    BY <1>5 DEF FetchLoad, TypeOK, DepTypeOK, depVars
  <2> QED
    BY <1>3, <2>3, <2>4, ChosenType
<1> QED
  BY <1>4, <1>5

\* ... or a table, and a load candidate may be lost.
LEMMA TableWinsType ==
    ASSUME TypeOK, NEW t \in Eligible \cup {NoTable}, NEW passed \in SUBSET Blocked,
           TableWaits(t, passed) \/ FetchTable(t, passed)
    PROVE  TypeOK'
<1>1. TableWins(t, passed)
  BY DEF TableWaits, FetchTable
<1>2. t \in TableIds /\ queue[t] # <<>> /\ Head(queue[t]) \in Seqs
  BY <1>1, CandidateTypes DEF TableWins
<1>3. Tail(queue[t]) \in Seq(Seqs)
  BY <1>2 DEF TypeOK, TableTypeOK
<1>4. LoadCand # 0 => Tail(loadQueue) \in Seq(Seqs)
  BY CandidateTypes DEF TypeOK, LineTypeOK
<1>5. /\ loadQueue' \in Seq(Seqs) /\ queue' \in [TableIds -> Seq(Seqs)]
      /\ barriers' = barriers /\ quitFlag' = quitFlag
      /\ GetFetched(t, passed) /\ FetchUnchanged
  BY <1>1, <1>3, <1>4 DEF TableWins, PopFront, TypeOK, LineTypeOK, TableTypeOK
<1>6. ASSUME NEW o \in Owners, Takes(t, o)
      PROVE  owner' \in [Seqs -> Owners]
  BY <1>6 DEF Takes, TypeOK, ItemTypeOK, Owners
<1>7. CASE TableWaits(t, passed)
  <2>1. DepTypeOK' /\ WaitOwner(Head(queue[t])) \in Owners
    BY <1>2, <1>7, AddWaitType DEF TableWaits
  <2>2. owner' \in [Seqs -> Owners]
    BY <1>6, <1>7, <2>1 DEF TableWaits
  <2>3. ItemTypeOK' /\ CountTypeOK'
    BY <1>7, <2>2 DEF TableWaits, TypeOK, ItemTypeOK, CountTypeOK, countVars
  <2>4. mu' = "fetching" /\ registered' = registered /\ registerSeq' = registerSeq
    BY <1>7 DEF TableWaits
  <2> QED
    BY <1>5, <2>1, <2>3, <2>4, ChosenType
<1>8. CASE FetchTable(t, passed)
  <2>1. Launch(Head(queue[t]))
    BY <1>8 DEF FetchTable
  <2>2. owner' \in [Seqs -> Owners]
    BY <1>6, <1>8 DEF FetchTable, Owners
  <2>3. ItemTypeOK' /\ CountTypeOK' /\ mu' = "free"
        /\ registered' = registered /\ registerSeq' = registerSeq
    BY <1>2, <2>1, <2>2, LaunchType DEF ItemTypeOK
  <2>4. DepTypeOK'
    BY <1>8 DEF FetchTable, TypeOK, DepTypeOK, depVars
  <2> QED
    BY <1>5, <2>3, <2>4, ChosenType
<1> QED
  BY <1>7, <1>8

\* Every iteration of fetchNext keeps the types.
LEMMA FetchStepType == TypeOK /\ FetchStep => TypeOK'
BY FetchNothingType, FetchBarrierType, LoadWinsType, TableWinsType DEF FetchStep

\* The callback up to the first released item keeps the types ...
LEMMA BeginCompletionType ==
    ASSUME TypeOK, NEW s \in Seqs, BeginCompletion(s)
    PROVE  TypeOK'
<1> DEFINE f     == query[s].file
           files == IF f = NoFile THEN {} ELSE ReleasedFile(f, s)
           keys  == CompletedTables(s)
           freed == UNION {ReleasedTable(t, s) : t \in keys}
<1>1. s \in Nat /\ s \in 0 .. MaxQueries
  BY ConstantTypes DEF Seqs
<1>2. f \in FileIds
  BY DEF TypeOK, ClientTypeOK, Command
<1>3. files \in SUBSET Seqs
  BY <1>2 DEF ReleasedFile, TypeOK, DepTypeOK
<1>4. \A t \in TableIds : ReleasedTable(t, s) \in SUBSET Seqs
  BY DEF ReleasedTable, TypeOK, DepTypeOK
<1>5. ClientTypeOK'
  BY Zenon DEF BeginCompletion, TypeOK, ClientTypeOK, clientVars
<1>6. ItemTypeOK'
  <2>1. item' \in [Seqs -> Item]
    BY DEF BeginCompletion, TypeOK, ItemTypeOK, Item
  <2>2. owner' \in [Seqs -> Owners]
    BY DEF BeginCompletion, TypeOK, ItemTypeOK, Owners
  <2> QED
    BY <2>1, <2>2 DEF BeginCompletion, TypeOK, ItemTypeOK
<1>7. TableTypeOK'
  <2>1. registered' \in [TableIds -> BOOLEAN]
    BY Zenon DEF BeginCompletion
  <2>2. registerSeq' \in [TableIds -> 0 .. MaxQueries]
    BY <1>1 DEF BeginCompletion, TypeOK, TableTypeOK
  <2>3. \A t \in TableIds : queue[t] # <<>> => Head(queue[t]) \in 0 .. MaxQueries
    BY ConstantTypes DEF TypeOK, TableTypeOK, Seqs
  <2>4. index' \in [TableIds -> 0 .. MaxQueries]
    BY <2>3 DEF BeginCompletion, TypeOK, TableTypeOK
  <2> QED
    BY <2>1, <2>2, <2>4 DEF BeginCompletion, TypeOK, TableTypeOK
<1>8. LineTypeOK'
  BY Zenon DEF BeginCompletion, TypeOK, LineTypeOK, loadVars, barrierVars
<1>9. CountTypeOK' /\ SchedTypeOK'
  BY DEF BeginCompletion, TypeOK, CountTypeOK, SchedTypeOK, countVars, schedVars
<1>10. readyTable' \in [TableIds -> SUBSET Seqs]
  BY <1>4 DEF BeginCompletion
<1>11. MuTypeOK'
  BY <1>1, <1>3, <1>10 DEF BeginCompletion, MuTypeOK
<1>12. DepTypeOK'
  <2>1. lastCompletedFile' \in [FileIds -> Nat]
    BY <1>1, <1>2 DEF BeginCompletion, TypeOK, DepTypeOK
  <2>2. lastCompletedTable' \in [TableIds -> Nat]
    BY <1>1 DEF BeginCompletion, TypeOK, DepTypeOK
  <2>3. waitingFile' \in [FileIds -> SUBSET Seqs]
    BY <1>2 DEF BeginCompletion, TypeOK, DepTypeOK
  <2>4. waitingTable' \in [TableIds -> SUBSET Seqs]
    BY DEF BeginCompletion, TypeOK, DepTypeOK
  <2> QED
    BY <2>1, <2>2, <2>3, <2>4 DEF DepTypeOK
<1> QED
  BY <1>5, <1>6, <1>7, <1>8, <1>9, <1>11, <1>12 DEF TypeOK

\* ... as does the return of a released item to a queue or a heap: what the three
\* destinations have in common.
LEMMA ReleaseType ==
    ASSUME TypeOK, NEW r \in Seqs, ReadyUnchanged, mu = "completing",
           readyFile' \in SUBSET Seqs, readyTable' \in [TableIds -> SUBSET Seqs],
           item' \in [Seqs -> Item], NEW t \in TableIds,
           ToLoadQueue(r) \/ ToTableQueue(r) \/ ToTableWait(t, r)
    PROVE  TypeOK'
<1>1. ClientTypeOK'
  BY Zenon DEF ReadyUnchanged, TypeOK, ClientTypeOK, clientVars
<1>2. CountTypeOK' /\ SchedTypeOK' /\ MuTypeOK'
  BY DEF ReadyUnchanged, TypeOK, CountTypeOK, SchedTypeOK, MuTypeOK, countVars,
         schedVars
<1>3. owner' \in [Seqs -> Owners]
  BY DEF ToLoadQueue, ToTableQueue, ToTableWait, TypeOK, ItemTypeOK, Owners
<1>4. ItemTypeOK'
  BY <1>3 DEF ReadyUnchanged, TypeOK, ItemTypeOK
<1>5. loadQueue' \in Seq(Seqs)
  <2>1. loadQueue \in Seq(Seqs) /\ <<r>> \o loadQueue \in Seq(Seqs)
    BY DEF TypeOK, LineTypeOK
  <2> QED
    BY <2>1 DEF ToLoadQueue, ToTableQueue, ToTableWait
<1>6. LineTypeOK'
  BY <1>5, Zenon DEF ReadyUnchanged, TypeOK, LineTypeOK, barrierVars
<1>7. DepTypeOK'
  <2>1. CASE ToTableWait(t, r)
    BY <2>1, AddWaitTableType DEF ToTableWait
  <2>2. CASE ToLoadQueue(r) \/ ToTableQueue(r)
    BY <2>2 DEF ToLoadQueue, ToTableQueue, TypeOK, DepTypeOK, depVars
  <2> QED
    BY <2>1, <2>2
<1>8. item[r].tableId \in TableIds
  BY DEF TypeOK, ItemTypeOK, Item
<1>9. <<r>> \o queue[item[r].tableId] \in Seq(Seqs) /\ r \in 0 .. MaxQueries
  BY <1>8, ConstantTypes DEF TypeOK, TableTypeOK, Seqs
<1>10. queue' \in [TableIds -> Seq(Seqs)] /\ index' \in [TableIds -> 0 .. MaxQueries]
  <2>1. CASE ToTableQueue(r)
    BY <1>8, <1>9, <2>1 DEF ToTableQueue, TypeOK, TableTypeOK
  <2>2. CASE ToLoadQueue(r) \/ ToTableWait(t, r)
    BY <2>2 DEF ToLoadQueue, ToTableWait, TypeOK, TableTypeOK
  <2> QED
    BY <2>1, <2>2
<1>11. TableTypeOK'
  BY <1>10 DEF ReadyUnchanged, TypeOK, TableTypeOK
<1> QED
  BY <1>1, <1>2, <1>4, <1>6, <1>7, <1>11 DEF TypeOK

\* updateReadyFiles keeps the types, for one released item ...
LEMMA UpdateReadyFilesType ==
    ASSUME TypeOK, NEW r \in Seqs, UpdateReadyFiles(r)
    PROVE  TypeOK'
<1>1. item[r].tableId \in TableIds
  BY DEF TypeOK, ItemTypeOK, Item
<1>2. fileTableName[query[r].file] \in TableIds
  BY DEF TypeOK, ClientTypeOK, Command
<1>3. item' \in [Seqs -> Item]
  <2>1. item' = item \/ item' = [item EXCEPT ![r].tableId = fileTableName[query[r].file]]
    BY DEF UpdateReadyFiles, ToTableQueue, ToTableWait
  <2>2. [item[r] EXCEPT !.tableId = fileTableName[query[r].file]] \in Item
    BY <1>2 DEF TypeOK, ItemTypeOK, Item
  <2> QED
    BY <2>1, <2>2 DEF TypeOK, ItemTypeOK
<1>4. readyFile' \in SUBSET Seqs /\ readyTable' \in [TableIds -> SUBSET Seqs]
  BY DEF UpdateReadyFiles, TypeOK, MuTypeOK
<1>5. ToLoadQueue(r) \/ ToTableQueue(r) \/ ToTableWait(item[r].tableId, r)
  BY DEF UpdateReadyFiles
<1>6. ReadyUnchanged /\ mu = "completing"
  BY DEF UpdateReadyFiles
<1> QED
  BY <1>1, <1>3, <1>4, <1>5, <1>6, ReleaseType

\* ... and so does updateReadyTables.
LEMMA UpdateReadyTablesType ==
    ASSUME TypeOK, NEW r \in Seqs, NEW t \in TableIds, UpdateReadyTables(t, r)
    PROVE  TypeOK'
<1>1. item[r].tableId \in TableIds /\ query[r].newTable \in TableIds
  BY DEF TypeOK, ItemTypeOK, Item, ClientTypeOK, Command
<1>2. item' \in [Seqs -> Item]
  BY DEF UpdateReadyTables, ToTableQueue, ToTableWait, TypeOK, ItemTypeOK
<1>3. readyFile' \in SUBSET Seqs /\ readyTable' \in [TableIds -> SUBSET Seqs]
  BY DEF UpdateReadyTables, TypeOK, MuTypeOK
<1>4. \/ ToLoadQueue(r) \/ ToTableQueue(r)
      \/ ToTableWait(item[r].tableId, r) \/ ToTableWait(query[r].newTable, r)
  BY DEF UpdateReadyTables
<1>5. ReadyUnchanged /\ mu = "completing"
  BY DEF UpdateReadyTables
<1> QED
  BY <1>1, <1>2, <1>3, <1>4, <1>5, ReleaseType

\* The end of the callback's critical section keeps the types ...
LEMMA FinishCompletionType ==
    ASSUME TypeOK, NEW s \in Seqs, FinishCompletion(s)
    PROVE  TypeOK'
<1>1. ClientTypeOK' /\ LineTypeOK'
  BY Zenon DEF FinishCompletion, TypeOK, ClientTypeOK, LineTypeOK, clientVars, loadVars,
               barrierVars
<1>2. ItemTypeOK'
  BY DEF FinishCompletion, TypeOK, ItemTypeOK, Owners
<1>3. item[s].tableId \in TableIds
  BY DEF TypeOK, ItemTypeOK, Item
<1>4. queue[item[s].tableId] # <<>> => Head(queue[item[s].tableId]) \in 0 .. MaxQueries
  BY <1>3, ConstantTypes DEF TypeOK, TableTypeOK, Seqs
<1>5. TableTypeOK'
  BY <1>3, <1>4 DEF FinishCompletion, IndexNext, TypeOK, TableTypeOK
<1>6. CountTypeOK' /\ SchedTypeOK' /\ DepTypeOK'
  BY DEF FinishCompletion, TypeOK, CountTypeOK, SchedTypeOK, DepTypeOK, countVars,
         schedVars, depVars
<1>7. MuTypeOK'
  BY ConstantTypes DEF FinishCompletion, UnlockMu, TypeOK, MuTypeOK
<1> QED
  BY <1>1, <1>2, <1>5, <1>6, <1>7 DEF TypeOK

\* ... and so does the change of the counters after it.
LEMMA RetireType ==
    ASSUME TypeOK, NEW s \in Seqs, Retire(s)
    PROVE  TypeOK'
<1>1. ClientTypeOK' /\ LineTypeOK'
  BY Zenon DEF Retire, TypeOK, ClientTypeOK, LineTypeOK, clientVars, loadVars,
               barrierVars
<1>2. ItemTypeOK'
  BY DEF Retire, TypeOK, ItemTypeOK, Owners
<1>3. TableTypeOK' /\ SchedTypeOK' /\ DepTypeOK' /\ MuTypeOK'
  BY DEF Retire, TypeOK, TableTypeOK, SchedTypeOK, DepTypeOK, MuTypeOK, tableVars,
         schedVars, depVars, muVars
<1>4. CountTypeOK'
  BY DEF Retire, TypeOK, CountTypeOK
<1> QED
  BY <1>1, <1>2, <1>3, <1>4 DEF TypeOK

\* A step that changes nothing keeps the types.
LEMMA StutterType == TypeOK /\ UNCHANGED vars => TypeOK'
<1> SUFFICES ASSUME TypeOK, UNCHANGED vars PROVE TypeOK'
  OBVIOUS
<1> USE DEF vars, clientVars, itemVars, tableVars, loadVars, barrierVars, countVars,
            schedVars, depVars, muVars
<1>1. ClientTypeOK' /\ LineTypeOK'
  BY Zenon DEF TypeOK, ClientTypeOK, LineTypeOK
<1>2. ItemTypeOK' /\ TableTypeOK' /\ CountTypeOK'
  BY DEF TypeOK, ItemTypeOK, TableTypeOK, CountTypeOK
<1>3. SchedTypeOK' /\ DepTypeOK' /\ MuTypeOK'
  BY DEF TypeOK, SchedTypeOK, DepTypeOK, MuTypeOK
<1> QED
  BY <1>1, <1>2, <1>3 DEF TypeOK

\* TypeOK is inductive.
LEMMA NextType == TypeOK /\ [Next]_vars => TypeOK'
<1> SUFFICES ASSUME TypeOK, [Next]_vars PROVE TypeOK'
  OBVIOUS
<1>1. CASE SubmitQuery
  BY <1>1, SubmitQueryType
<1>2. CASE SetReady
  BY <1>2, SetReadyType
<1>3. CASE FetchStep
  BY <1>3, FetchStepType
<1>4. CASE CompletionStep
  BY <1>4, BeginCompletionType, UpdateReadyFilesType, UpdateReadyTablesType,
     FinishCompletionType, RetireType DEF CompletionStep
<1>5. CASE UNCHANGED vars
  BY <1>5, StutterType
<1> QED
  BY <1>1, <1>2, <1>3, <1>4, <1>5 DEF Next

\* Every variable of the scheduler keeps its type, whatever is submitted and
\* however registrations, fetches and callbacks interleave.
THEOREM TypeCorrect == Spec => []TypeOK
BY InitType, NextType, PTL DEF Spec

-----------------------------------------------------------------------------
(* Two invariants that fetchNext relies on: what it reads of the           *)
(* GlobalIndex is not stale, and nothing stays parked without a barrier.   *)
(* Both are inductive given TypeOK.                                        *)

\* Appending keeps the head of a sequence.
LEMMA AppendFacts ==
    ASSUME NEW S, NEW q \in Seq(S), NEW n \in S
    PROVE  /\ Append(q, n) # <<>>
           /\ q # <<>> => Head(Append(q, n)) = Head(q)
<1>1. Len(Append(q, n)) = Len(q) + 1 /\ Len(q) \in Nat
  OBVIOUS
<1>2. Append(q, n) # <<>>
  BY <1>1
<1>3. q # <<>> => Append(q, n)[1] = q[1]
  OBVIOUS
<1> QED
  BY <1>2, <1>3

\* A query that is registered gets a sequence number in bound.
LEMMA NextSeq == TypeOK /\ SubmitQuery => submitted + 1 \in Seqs
<1> SUFFICES ASSUME TypeOK, SubmitQuery PROVE submitted + 1 \in Seqs
  OBVIOUS
<1>1. submitted < MaxQueries
  BY DEF SubmitQuery, RegisterBarrier, RegisterLoad, RegisterDump, RegisterDrop,
         RegisterCopy, RegisterOther, Enqueue, RegisterItem
<1> QED
  BY <1>1, ConstantTypes DEF TypeOK, ClientTypeOK, Seqs

-----------------------------------------------------------------------------
(* The index.                                                              *)

\* A query that is registered goes to the back of a queue, so heads stay.
LEMMA SubmitFresh == TypeOK /\ IndexFresh /\ SubmitQuery => IndexFresh'
<1> SUFFICES ASSUME TypeOK, IndexFresh, SubmitQuery PROVE IndexFresh'
  OBVIOUS
<1>1. index' = index
  BY DEF SubmitQuery, RegisterBarrier, RegisterLoad, RegisterDump, RegisterDrop,
         RegisterCopy, RegisterOther, Enqueue, RegisterItem
<1>2. PICK q \in Commands :
         \/ queue' = queue
         \/ queue' = [queue EXCEPT ![q.table] = Append(@, submitted + 1)]
  BY DEF SubmitQuery, RegisterBarrier, RegisterLoad, RegisterDump, RegisterDrop,
         RegisterCopy, RegisterOther, Enqueue
<1>3. \A t \in TableIds : queue[t] \in Seq(Seqs)
  BY DEF TypeOK, TableTypeOK
<1>4. ASSUME NEW t \in TableIds, queue[t] # <<>>
      PROVE  /\ Append(queue[t], submitted + 1) # <<>>
             /\ Head(Append(queue[t], submitted + 1)) = Head(queue[t])
  BY <1>3, <1>4, NextSeq, AppendFacts
<1>5. \A t \in TableIds : queue[t] # <<>> =>
         queue'[t] # <<>> /\ Head(queue'[t]) = Head(queue[t])
  BY <1>2, <1>4 DEF TypeOK, TableTypeOK
<1> QED
  BY <1>1, <1>5 DEF IndexFresh

\* getFetched removes the key of the table it picks, and those of the tables it parks.
LEMMA FetchFresh == TypeOK /\ IndexFresh /\ FetchStep => IndexFresh'
<1> SUFFICES ASSUME TypeOK, IndexFresh, FetchStep PROVE IndexFresh'
  OBVIOUS
<1>1. CASE FetchNothing
  BY <1>1 DEF FetchNothing, GetFetched, IndexFresh
<1>2. CASE FetchBarrier
  BY <1>2 DEF FetchBarrier, IndexFresh
<1>3. ASSUME NEW t \in Eligible \cup {NoTable}, NEW passed \in SUBSET Blocked,
             LoadWaits(t, passed) \/ FetchLoad(t, passed)
      PROVE  IndexFresh'
  BY <1>3 DEF LoadWaits, FetchLoad, LoadWins, GetFetched, IndexFresh
<1>4. ASSUME NEW t \in Eligible \cup {NoTable}, NEW passed \in SUBSET Blocked,
             TableWaits(t, passed) \/ FetchTable(t, passed)
      PROVE  IndexFresh'
  <2>1. index'[t] = 0 /\ \A u \in TableIds : index'[u] \in {0, index[u]}
    BY <1>4, CandidateTypes DEF TableWaits, FetchTable, TableWins, GetFetched
  <2>2. \A u \in TableIds : u # t => queue'[u] = queue[u]
    BY <1>4 DEF TableWaits, FetchTable, TableWins, PopFront, TypeOK, TableTypeOK
  <2> QED
    BY <2>1, <2>2 DEF IndexFresh
<1> QED
  BY <1>1, <1>2, <1>3, <1>4 DEF FetchStep

\* An item that returns to the front of a queue is indexed in the same step.
LEMMA ReleaseFresh ==
    ASSUME TypeOK, IndexFresh, NEW r \in Seqs, NEW t,
           ToLoadQueue(r) \/ ToTableQueue(r) \/ ToTableWait(t, r)
    PROVE  IndexFresh'
<1>1. CASE ToLoadQueue(r) \/ ToTableWait(t, r)
  BY <1>1 DEF ToLoadQueue, ToTableWait, IndexFresh
<1>2. CASE ToTableQueue(r)
  <2> DEFINE tab == item[r].tableId
  <2>1. tab \in TableIds
    BY DEF TypeOK, ItemTypeOK, Item
  <2>2. queue[tab] \in Seq(Seqs)
    BY <2>1 DEF TypeOK, TableTypeOK
  <2>3. <<r>> \o queue[tab] # <<>> /\ Head(<<r>> \o queue[tab]) = r
    BY <2>2
  <2>4. queue'[tab] = <<r>> \o queue[tab] /\ index'[tab] = r
    BY <1>2, <2>1 DEF ToTableQueue, TypeOK, TableTypeOK
  <2>5. \A u \in TableIds : u # tab => queue'[u] = queue[u] /\ index'[u] = index[u]
    BY <1>2 DEF ToTableQueue, TypeOK, TableTypeOK
  <2> QED
    BY <2>3, <2>4, <2>5 DEF IndexFresh
<1> QED
  BY <1>1, <1>2

\* The callback indexes heads only.
LEMMA CompletionFresh == TypeOK /\ IndexFresh /\ CompletionStep => IndexFresh'
<1> SUFFICES ASSUME TypeOK, IndexFresh, NEW s \in Seqs,
                    \/ BeginCompletion(s)
                    \/ UpdateReadyFiles(s)
                    \/ \E t \in TableIds : UpdateReadyTables(t, s)
                    \/ FinishCompletion(s)
                    \/ Retire(s)
             PROVE  IndexFresh'
  BY DEF CompletionStep
<1>1. CASE BeginCompletion(s)
  BY <1>1 DEF BeginCompletion, IndexFresh
<1>2. CASE UpdateReadyFiles(s)
  BY <1>2, ReleaseFresh DEF UpdateReadyFiles
<1>3. CASE \E t \in TableIds : UpdateReadyTables(t, s)
  BY <1>3, ReleaseFresh DEF UpdateReadyTables
<1>4. CASE FinishCompletion(s)
  <2>1. item[s].tableId \in TableIds
    BY DEF TypeOK, ItemTypeOK, Item
  <2> QED
    BY <1>4, <2>1 DEF FinishCompletion, IndexNext, IndexFresh, TypeOK, TableTypeOK
<1>5. CASE Retire(s)
  BY <1>5 DEF Retire, tableVars, IndexFresh
<1> QED
  BY <1>1, <1>2, <1>3, <1>4, <1>5

\* A live key of the GlobalIndex describes the present head of its table's queue: the
\* priority and the order by which fetchNext chooses are never stale.
THEOREM IndexAlwaysFresh == Spec => []IndexFresh
<1>1. Init => IndexFresh
  BY DEF Init, IndexFresh
<1>2. TypeOK /\ IndexFresh /\ [Next]_vars => IndexFresh'
  <2> SUFFICES ASSUME TypeOK, IndexFresh, [Next]_vars PROVE IndexFresh'
    OBVIOUS
  <2>1. CASE SetReady
    BY <2>1 DEF SetReady, tableVars, IndexFresh
  <2>2. CASE UNCHANGED vars
    BY <2>2 DEF vars, tableVars, IndexFresh
  <2> QED
    BY <2>1, <2>2, SubmitFresh, FetchFresh, CompletionFresh DEF Next
<1> QED
  BY <1>1, <1>2, TypeCorrect, PTL DEF Spec

-----------------------------------------------------------------------------
(* Parking.                                                                *)

\* Tables and loads are parked because of the barrier at the head of the line, and
\* that barrier unparks them when it goes.
LEMMA FetchParked == ParkedByBarrier /\ FetchStep => ParkedByBarrier'
<1> SUFFICES ASSUME ParkedByBarrier, FetchStep PROVE ParkedByBarrier'
  OBVIOUS
<1>1. CASE FetchBarrier
  BY <1>1, Zenon DEF FetchBarrier, Unpark, ParkedByBarrier
<1>2. ASSUME NEW t, NEW passed \in SUBSET Blocked, GetFetched(t, passed),
             barriers' = barriers
      PROVE  ParkedByBarrier'
  <2>1. barriers = <<>> => passed = {}
    BY DEF Blocked, Behind
  <2>2. barriers = <<>> => ~loadBlocked'
    BY <1>2 DEF GetFetched, Behind, ParkedByBarrier
  <2>3. barriers = <<>> => waitingTables' = {}
    BY <1>2, <2>1 DEF GetFetched, ParkedByBarrier
  <2> QED
    BY <1>2, <2>2, <2>3 DEF ParkedByBarrier
<1>3. CASE FetchNothing
  BY <1>2, <1>3 DEF FetchNothing
<1>4. ASSUME NEW t \in Eligible \cup {NoTable}, NEW passed \in SUBSET Blocked,
             \/ LoadWaits(t, passed) \/ FetchLoad(t, passed)
             \/ TableWaits(t, passed) \/ FetchTable(t, passed)
      PROVE  ParkedByBarrier'
  BY <1>2, <1>4 DEF LoadWaits, FetchLoad, LoadWins, TableWaits, FetchTable, TableWins
<1> QED
  BY <1>1, <1>3, <1>4 DEF FetchStep

\* Registration parks nothing and removes no barrier.
LEMMA SubmitParked == TypeOK /\ ParkedByBarrier /\ SubmitQuery => ParkedByBarrier'
<1> SUFFICES ASSUME TypeOK, ParkedByBarrier, SubmitQuery PROVE ParkedByBarrier'
  OBVIOUS
<1>1. loadBlocked' = loadBlocked /\ waitingTables' = waitingTables
  BY DEF SubmitQuery, RegisterBarrier, RegisterLoad, RegisterDump, RegisterDrop,
         RegisterCopy, RegisterOther, Enqueue, RegisterItem
<1>2. barriers' = barriers \/ barriers' = Append(barriers, submitted + 1)
  BY DEF SubmitQuery, RegisterBarrier, RegisterLoad, RegisterDump, RegisterDrop,
         RegisterCopy, RegisterOther, Enqueue
<1>3. Append(barriers, submitted + 1) # <<>>
  BY NextSeq, AppendFacts DEF TypeOK, LineTypeOK
<1> QED
  BY <1>1, <1>2, <1>3 DEF ParkedByBarrier

\* With no barrier queued, neither the load queue nor a table is held back.
THEOREM NothingParkedForever == Spec => []ParkedByBarrier
<1>1. Init => ParkedByBarrier
  BY DEF Init, ParkedByBarrier
<1>2. TypeOK /\ ParkedByBarrier /\ [Next]_vars => ParkedByBarrier'
  <2> SUFFICES ASSUME TypeOK, ParkedByBarrier, [Next]_vars PROVE ParkedByBarrier'
    OBVIOUS
  <2>1. CASE SetReady \/ CompletionStep \/ UNCHANGED vars
    <3>1. /\ loadBlocked' = loadBlocked /\ waitingTables' = waitingTables
          /\ barriers' = barriers
      BY <2>1 DEF SetReady, CompletionStep, BeginCompletion, UpdateReadyFiles,
                  UpdateReadyTables, ReadyUnchanged, FinishCompletion, Retire, vars,
                  loadVars, barrierVars
    <3> QED
      BY <3>1 DEF ParkedByBarrier
  <2> QED
    BY <2>1, SubmitParked, FetchParked DEF Next
<1> QED
  BY <1>1, <1>2, TypeCorrect, PTL DEF Spec
=============================================================================
