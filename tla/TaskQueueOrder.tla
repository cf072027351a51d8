--------------------------- MODULE TaskQueueOrder ---------------------------
(***************************************************************************)
(* What the scheduler promises (module Dispatch), for every set of tables, *)
(* files and commands, every workload and every number of queries: the     *)
(* count fetchBarrier trusts is exact, nothing overtakes a barrier, the    *)
(* operations on a file follow the program, every step of the scheduler is *)
(* a step of its promise or none, and no wake-up is missed: although       *)
(* notifyCompleted stops at the first item it has to hold back, it leaves  *)
(* no item behind whose dependency is met, since of two items that wait    *)
(* for one file or table the later waits for the earlier one or for        *)
(* something behind it.                                                    *)
(***************************************************************************)
EXTENDS TaskQueueOwners, FiniteSetTheorems

-----------------------------------------------------------------------------
(* How a step moves the items.                                             *)

\* The item waits for a worker.
QueuedPlaces == {"barriers", "loadQueue", "queue", "waitingFile", "waitingTable",
                 "readyFile", "readyTable"}

\* The item did not get further.  No barrier moves, and only a LOAD moves to the load
\* queue.
SameStage(s) ==
    \/ owner'[s] = owner[s]
    \/ /\ owner[s] \in QueuedPlaces \ {"barriers"}
       /\ owner'[s] \in QueuedPlaces \ {"barriers"}
       /\ owner'[s] = "loadQueue" => query[s].type = "Load"
    \/ owner[s] = "fetched" /\ owner'[s] = "completing"

\* The loads a step of fetchNext breaks: its candidate at most.
Breaks(lost) ==
    /\ \A s \in lost : /\ s \in Seqs /\ owner[s] = "loadQueue"
                       /\ owner'[s] = "broken"
    /\ lost = {} \/ \E l \in Seqs : lost = {l}

HandsOut(x, lost) ==
    /\ Breaks(lost) /\ x \in Seqs \ lost
    /\ owner[x] \in {"barriers", "loadQueue", "queue"} /\ owner'[x] = "fetched"
    /\ \A s \in Seqs \ (lost \cup {x}) : owner'[s] = owner[s]
    /\ query' = query /\ submitted' = submitted /\ running' = running + 1

Moves(lost) ==
    /\ Breaks(lost)
    /\ \A s \in Seqs \ lost : SameStage(s)
    /\ query' = query /\ submitted' = submitted /\ running' = running

Advances(x, from, to, change) ==
    /\ owner[x] = from /\ owner'[x] = to
    /\ \A s \in Seqs \ {x} : owner'[s] = owner[s]
    /\ query' = query /\ submitted' = submitted /\ running' = running + change

\* Registration hands the next number to an item that waits.
LEMMA SubmitShape ==
    ASSUME TypeOK, Ownership, SubmitQuery
    PROVE  /\ submitted + 1 \in Seqs /\ submitted' = submitted + 1
           /\ submitted < MaxQueries
           /\ owner[submitted + 1] = "client"
           /\ owner'[submitted + 1] \in {"barriers", "loadQueue", "queue"}
           /\ \A s \in Seqs \ {submitted + 1} : owner'[s] = owner[s]
           /\ \E q \in Commands : query' = [query EXCEPT ![submitted + 1] = q]
           /\ running' = running
<1>1. PICK q \in Commands : \E it, place :
         /\ RegisterItem(q, it, place)
         /\ place \in {"barriers", "loadQueue", "queue"}
  <2>1. PICK q \in Commands :
           \/ RegisterBarrier(q) \/ RegisterLoad(q) \/ RegisterDump(q)
           \/ RegisterDrop(q) \/ RegisterCopy(q) \/ RegisterOther(q)
    BY DEF SubmitQuery
  <2>2. \E it : RegisterItem(q, it, "barriers") \/ RegisterItem(q, it, "loadQueue")
                \/ RegisterItem(q, it, "queue")
    BY <2>1 DEF RegisterBarrier, RegisterLoad, RegisterDump, RegisterDrop,
                RegisterCopy, RegisterOther, Enqueue
  <2> QED
    BY <2>2
<1>2. submitted + 1 \in Seqs /\ owner[submitted + 1] = "client"
  BY <1>1, RegisterOwned
<1> QED
  BY <1>1, <1>2 DEF RegisterItem, countVars, TypeOK, ItemTypeOK

\* fetchNext.
LEMMA FetchShape ==
    ASSUME TypeOK, Ownership, FetchStep
    PROVE  \E lost \in SUBSET Seqs : Moves(lost) \/ \E x \in Seqs : HandsOut(x, lost)
<1>1. CASE FetchNothing
  <2>1. Moves({})
    BY <1>1 DEF FetchNothing, FetchUnchanged, Moves, Breaks, SameStage, clientVars,
                itemVars, countVars
  <2> QED
    BY <2>1
<1>2. CASE FetchBarrier
  <2> DEFINE b == Head(barriers)
  <2>1. barriers # <<>> /\ owner' = [owner EXCEPT ![b] = "fetched"]
    BY <1>2 DEF FetchBarrier, BarrierMayGo
  <2>2. b \in Owned("barriers")
    BY <2>1, ListsTail DEF Ownership, BarriersOwned, TypeOK, LineTypeOK
  <2>3. /\ b \in Seqs /\ owner[b] = "barriers" /\ owner'[b] = "fetched"
        /\ \A s \in Seqs : s # b => owner'[s] = owner[s]
    BY <2>1, <2>2 DEF Owned, TypeOK, ItemTypeOK
  <2>4. query' = query /\ submitted' = submitted /\ running' = running + 1
    BY <1>2 DEF FetchBarrier, FetchUnchanged, Launch, clientVars
  <2>5. HandsOut(b, {})
    BY <2>3, <2>4 DEF HandsOut, Breaks
  <2> QED
    BY <2>3, <2>5
<1>3. ASSUME NEW t \in Eligible \cup {NoTable}, NEW passed \in SUBSET Blocked,
             LoadWaits(t, passed) \/ FetchLoad(t, passed)
      PROVE  Moves({}) \/ \E x \in Seqs : HandsOut(x, {})
  <2> DEFINE x == Head(loadQueue)
  <2>1. LoadCand = x /\ loadQueue # <<>>
    BY <1>3, CandidateTypes DEF LoadWaits, FetchLoad, LoadWins, PreferLoad
  <2>2. x \in Owned("loadQueue")
    BY <2>1, ListsTail DEF Ownership, LoadsOwned, TypeOK, LineTypeOK
  <2>3. owner' = [owner EXCEPT ![x] = IF Waits(x) THEN WaitOwner(x) ELSE "fetched"]
    BY <1>3, <2>1 DEF LoadWaits, FetchLoad
  <2>4. /\ x \in Seqs /\ owner[x] = "loadQueue"
        /\ owner'[x] = IF Waits(x) THEN WaitOwner(x) ELSE "fetched"
        /\ \A s \in Seqs : s # x => owner'[s] = owner[s]
    BY <2>2, <2>3 DEF Owned, TypeOK, ItemTypeOK
  <2>5. /\ query' = query /\ submitted' = submitted
        /\ running' = IF Waits(x) THEN running ELSE running + 1
    BY <1>3, <2>1 DEF LoadWaits, FetchLoad, LoadWins, FetchUnchanged, Launch, clientVars,
                      countVars
  <2>6. WaitOwner(x) \in {"waitingFile", "waitingTable"}
    BY DEF WaitOwner
  <2>7. CASE Waits(x)
    <3>1. Moves({})
      BY <2>4, <2>5, <2>6, <2>7 DEF Moves, Breaks, SameStage, QueuedPlaces
    <3> QED
      BY <3>1
  <2>8. CASE ~Waits(x)
    <3>1. HandsOut(x, {})
      BY <2>4, <2>5, <2>8 DEF HandsOut, Breaks
    <3> QED
      BY <2>4, <3>1
  <2> QED
    BY <2>7, <2>8
<1>4. ASSUME NEW t \in Eligible \cup {NoTable}, NEW passed \in SUBSET Blocked,
             TableWaits(t, passed) \/ FetchTable(t, passed)
      PROVE  \E lost \in SUBSET Seqs : Moves(lost) \/ \E x \in Seqs : HandsOut(x, lost)
  <2> DEFINE x == Head(queue[t])
             lost == IF LoadCand = 0 THEN {} ELSE {LoadCand}
  <2>1. t \in TableIds /\ queue[t] # <<>> /\ queue[t] \in Seq(Seqs)
    BY <1>4, CandidateTypes DEF TableWaits, FetchTable, TableWins, TypeOK, TableTypeOK
  <2>2. x \in OwnedQueue(t)
    BY <2>1, ListsTail DEF Ownership, QueuesOwned
  <2>3. x \in Seqs /\ owner[x] = "queue"
    BY <2>2 DEF OwnedQueue
  <2>4. \A s \in lost : s \in Seqs /\ owner[s] = "loadQueue"
    <3> SUFFICES ASSUME LoadCand # 0
                 PROVE  LoadCand \in Seqs /\ owner[LoadCand] = "loadQueue"
      OBVIOUS
    <3>1. LoadCand = Head(loadQueue) /\ loadQueue # <<>>
      BY CandidateTypes
    <3>2. LoadCand \in Owned("loadQueue")
      BY <3>1, ListsTail DEF Ownership, LoadsOwned, TypeOK, LineTypeOK
    <3> QED
      BY <3>2 DEF Owned
  <2>5. \A s \in Seqs : s = LoadCand <=> s \in lost
    <3>1. 0 \notin Seqs
      BY DEF Seqs
    <3> QED
      BY <3>1
  <2>6. /\ owner'[x] = IF Waits(x) THEN WaitOwner(x) ELSE "fetched"
        /\ \A s \in lost : owner'[s] = "broken"
        /\ \A s \in Seqs \ ({x} \cup lost) : owner'[s] = owner[s]
    BY <1>4, <2>3, <2>4, <2>5 DEF TableWaits, FetchTable, Takes
  <2>7. /\ query' = query /\ submitted' = submitted
        /\ running' = IF Waits(x) THEN running ELSE running + 1
    BY <1>4 DEF TableWaits, FetchTable, TableWins, FetchUnchanged, Launch, clientVars,
                countVars
  <2>8. WaitOwner(x) \in {"waitingFile", "waitingTable"}
    BY DEF WaitOwner
  <2>9. Breaks(lost) /\ lost \in SUBSET Seqs /\ x \notin lost
    BY <2>3, <2>4, <2>6 DEF Breaks
  <2>10. CASE Waits(x)
    <3>1. \A s \in Seqs \ lost : SameStage(s)
      BY <2>3, <2>6, <2>8, <2>10 DEF SameStage, QueuedPlaces
    <3>2. Moves(lost)
      BY <2>7, <2>9, <2>10, <3>1 DEF Moves
    <3> QED
      BY <2>9, <3>2
  <2>11. CASE ~Waits(x)
    <3>1. HandsOut(x, lost)
      BY <2>3, <2>6, <2>7, <2>9, <2>11 DEF HandsOut
    <3> QED
      BY <2>3, <2>9, <3>1
  <2> QED
    BY <2>10, <2>11
<1> QED
  BY <1>1, <1>2, <1>3, <1>4 DEF FetchStep

\* The start of the callback moves the released items to its hands.
LEMMA BeginShape ==
    ASSUME TypeOK, Ownership, NEW s \in Seqs, BeginCompletion(s)
    PROVE  Moves({}) /\ owner'[s] = "completing"
<1> DEFINE f     == query[s].file
           files == IF f = NoFile THEN {} ELSE ReleasedFile(f, s)
           freed == UNION {ReleasedTable(t, s) : t \in CompletedTables(s)}
<1>1. /\ f \in FileIds /\ query[s].newTable \in TableIds
      /\ item[s].tableId \in TableIds /\ item[s].pendingTable \subseteq TableIds
  BY DEF TypeOK, ClientTypeOK, ItemTypeOK, Command, Item
<1>2. CompletedTables(s) \subseteq TableIds
  BY <1>1 DEF CompletedTables
<1>3. \A q \in files : owner[q] = "waitingFile"
  BY <1>1 DEF ReleasedFile, Ownership, FilesOwned, OwnedWait
<1>4. \A q \in freed : q \in Seqs /\ owner[q] = "waitingTable"
  <2>1. \A t \in TableIds : waitingTable[t] \subseteq Seqs
    BY DEF TypeOK, DepTypeOK
  <2>2. \A q \in freed : \E t \in TableIds : q \in waitingTable[t]
    BY <1>2 DEF ReleasedTable
  <2> QED
    BY <2>1, <2>2 DEF Ownership, WaitersOwned, Spread
<1>5. \A q \in Seqs : owner'[q] = IF q = s THEN "completing"
                                  ELSE IF q \in files THEN "readyFile"
                                  ELSE IF q \in freed THEN "readyTable"
                                  ELSE owner[q]
  BY DEF BeginCompletion
<1>6. owner[s] = "fetched"
  BY DEF BeginCompletion
<1>7. query' = query /\ submitted' = submitted /\ running' = running
  BY DEF BeginCompletion, clientVars, countVars
<1> HIDE DEF files, freed
<1> QED
  BY <1>3, <1>4, <1>5, <1>6, <1>7 DEF Moves, Breaks, SameStage, QueuedPlaces

\* The callback.
LEMMA CompletionShape ==
    ASSUME TypeOK, Ownership, CompletionStep
    PROVE  \/ Moves({})
           \/ \E s \in Seqs : \/ Advances(s, "completing", "notified", 0)
                              \/ Advances(s, "notified", "completed", -1)
<1> SUFFICES ASSUME NEW s \in Seqs,
                    \/ BeginCompletion(s)
                    \/ UpdateReadyFiles(s)
                    \/ \E t \in TableIds : UpdateReadyTables(t, s)
                    \/ FinishCompletion(s)
                    \/ Retire(s)
             PROVE  \/ Moves({})
                    \/ Advances(s, "completing", "notified", 0)
                    \/ Advances(s, "notified", "completed", -1)
  BY DEF CompletionStep
<1>1. CASE BeginCompletion(s)
  BY <1>1, BeginShape
<1>2. ASSUME ReadyUnchanged, mu = "completing",
             owner[s] \in {"readyFile", "readyTable"},
             \/ ToLoadQueue(s) /\ query[s].type = "Load"
             \/ ToTableQueue(s)
             \/ \E t : ToTableWait(t, s)
      PROVE  Moves({})
  <2>1. /\ owner'[s] \in {"loadQueue", "queue", "waitingTable"}
        /\ owner'[s] = "loadQueue" => query[s].type = "Load"
        /\ \A q \in Seqs : q # s => owner'[q] = owner[q]
    BY <1>2 DEF ToLoadQueue, ToTableQueue, ToTableWait, TypeOK, ItemTypeOK
  <2>2. query' = query /\ submitted' = submitted /\ running' = running
    BY <1>2 DEF ReadyUnchanged, clientVars, countVars
  <2> QED
    BY <1>2, <2>1, <2>2 DEF Moves, Breaks, SameStage, QueuedPlaces
<1>3. CASE UpdateReadyFiles(s)
  <2>1. owner[s] = "readyFile" /\ mu = "completing"
    BY <1>3 DEF UpdateReadyFiles, Ownership, ReadyOwned, Owned
  <2> QED
    BY <1>2, <1>3, <2>1 DEF UpdateReadyFiles
<1>4. ASSUME NEW t \in TableIds, UpdateReadyTables(t, s)
      PROVE  Moves({})
  <2>1. owner[s] = "readyTable" /\ mu = "completing"
    BY <1>4 DEF UpdateReadyTables, Ownership, ReadyOwned, Spread
  <2> QED
    BY <1>2, <1>4, <2>1 DEF UpdateReadyTables
<1>5. CASE FinishCompletion(s)
  <2>1. owner[s] = "completing"
    BY <1>5 DEF FinishCompletion, Ownership, CallbackOwned, Owned
  <2>2. Advances(s, "completing", "notified", 0)
    BY <1>5, <2>1 DEF FinishCompletion, Advances, clientVars, countVars, TypeOK,
                      ItemTypeOK, CountTypeOK
  <2> QED
    BY <2>2
<1>6. CASE Retire(s)
  <2>1. Advances(s, "notified", "completed", -1)
    BY <1>6 DEF Retire, Advances, clientVars, TypeOK, ItemTypeOK, CountTypeOK
  <2> QED
    BY <2>1
<1> QED
  BY <1>1, <1>3, <1>4, <1>5, <1>6

\* The rest of the steps.
LEMMA OtherShape == TypeOK /\ (SetReady \/ UNCHANGED vars) => Moves({})
BY DEF SetReady, vars, clientVars, itemVars, countVars, Moves, Breaks, SameStage

-----------------------------------------------------------------------------
(* The counter.                                                            *)

Flying == {s \in Seqs : InFlight(s)}

\* The number of tasks in flight goes up with a task that is handed out, and down
\* with one that is retired.
LEMMA Counting ==
    /\ IsFiniteSet(Flying)
    /\ \A x : /\ x \notin Flying =>
                    Cardinality(Flying \cup {x}) = Cardinality(Flying) + 1
              /\ x \in Flying =>
                    Cardinality(Flying \ {x}) = Cardinality(Flying) - 1
<1>1. IsFiniteSet(Seqs)
  BY ConstantTypes, FS_Interval DEF Seqs
<1>2. Flying \in SUBSET Seqs
  BY DEF Flying
<1>3. IsFiniteSet(Flying)
  BY <1>1, <1>2, FS_Subset
<1> QED
  BY <1>3, FS_AddElement, FS_RemoveElement

\* The counter follows.
LEMMA NextCount == TypeOK /\ Ownership /\ RunningCount /\ [Next]_vars => RunningCount'
<1> SUFFICES ASSUME TypeOK, Ownership, RunningCount, [Next]_vars PROVE RunningCount'
  OBVIOUS
<1> USE DEF RunningCount
<1>0. running = Cardinality(Flying)
  BY DEF Flying
<1>1. CASE SubmitQuery
  <2>1. Flying' = Flying
    BY <1>1, SubmitShape DEF Flying, InFlight
  <2> QED
    BY <1>0, <1>1, <2>1, SubmitShape DEF Flying
<1>2. ASSUME NEW lost, Moves(lost) PROVE RunningCount'
  <2>1. Flying' = Flying
    BY <1>2 DEF Moves, Breaks, SameStage, QueuedPlaces, Flying, InFlight
  <2> QED
    BY <1>0, <1>2, <2>1 DEF Moves, Flying
<1>3. ASSUME NEW lost, NEW x, HandsOut(x, lost) PROVE RunningCount'
  <2>1. Flying' = Flying \cup {x} /\ x \notin Flying
    BY <1>3 DEF HandsOut, Breaks, Flying, InFlight
  <2> QED
    BY <1>0, <1>3, <2>1, Counting DEF HandsOut, Flying
<1>4. ASSUME NEW x \in Seqs, Advances(x, "completing", "notified", 0)
      PROVE  RunningCount'
  <2>1. Flying' = Flying
    BY <1>4 DEF Advances, Flying, InFlight
  <2>2. running' = running
    BY <1>4 DEF Advances, TypeOK, CountTypeOK
  <2> QED
    BY <1>0, <2>1, <2>2 DEF Flying
<1>5. ASSUME NEW x \in Seqs, Advances(x, "notified", "completed", -1)
      PROVE  RunningCount'
  <2>1. Flying' = Flying \ {x} /\ x \in Flying
    BY <1>5 DEF Advances, Flying, InFlight
  <2> QED
    BY <1>0, <1>5, <2>1, Counting DEF Advances, Flying, TypeOK, CountTypeOK
<1> QED
  BY <1>1, <1>2, <1>3, <1>4, <1>5, FetchShape, CompletionShape, OtherShape DEF Next

\* running, which fetchBarrier reads to see whether anything runs, counts the tasks
\* that are fetched and not retired, in every interleaving.
THEOREM RunningCountExact == Spec => []RunningCount
<1>1. Init => RunningCount
  <2> SUFFICES ASSUME Init PROVE RunningCount
    OBVIOUS
  <2>1. {s \in Seqs : InFlight(s)} = {}
    BY DEF Init, InFlight
  <2> QED
    BY <2>1, FS_EmptySet DEF Init, RunningCount
<1> QED
  BY <1>1, NextCount, OwnershipInvariant, PTL DEF Spec

-----------------------------------------------------------------------------
(* Barriers.                                                               *)

\* The barriers stand in line in the order of the program.
InLine == \A i, j \in DOMAIN barriers : i < j => barriers[i] < barriers[j]

\* LIST, LISTEN and QUIT, and nothing else, wait in that line; only LOADs wait in
\* the load queue.
RightPlace ==
    \A s \in Seqs :
        /\ owner[s] \in QueuedPlaces =>
              (owner[s] = "barriers" <=> query[s].type \in BarrierTypes)
        /\ owner[s] = "loadQueue" => query[s].type = "Load"

\* Every query goes to the structure for its type, and returns to it.
LEMMA NextPlace == TypeOK /\ Ownership /\ RightPlace /\ [Next]_vars => RightPlace'
<1> SUFFICES ASSUME TypeOK, Ownership, RightPlace, [Next]_vars PROVE RightPlace'
  OBVIOUS
<1> USE DEF RightPlace
<1>1. ASSUME NEW q \in Commands,
             \/ RegisterBarrier(q) \/ RegisterLoad(q) \/ RegisterDump(q)
             \/ RegisterDrop(q) \/ RegisterCopy(q) \/ RegisterOther(q)
      PROVE  RightPlace'
  <2>1. PICK it, place : /\ RegisterItem(q, it, place)
                         /\ \/ place = "barriers" /\ q.type \in BarrierTypes
                            \/ place = "loadQueue" /\ q.type = "Load"
                            \/ place = "queue" /\ q.type \notin BarrierTypes
    <3>1. \/ RegisterItem(q, NewItem(Control), "barriers") /\ q.type \in BarrierTypes
          \/ q.type = "Load" /\ \E it : RegisterItem(q, it, "loadQueue")
          \/ q.type \notin BarrierTypes /\ \E it : RegisterItem(q, it, "queue")
      BY <1>1 DEF RegisterBarrier, RegisterLoad, RegisterDump, RegisterDrop,
                  RegisterCopy, RegisterOther, Enqueue, BarrierTypes
    <3> QED
      BY <3>1
  <2>2. submitted + 1 \in Seqs
    BY <2>1, RegisterOwned
  <2> DEFINE n == submitted + 1
  <2>3. /\ owner'[n] = place /\ query'[n] = q
        /\ \A s \in Seqs : s # n => owner'[s] = owner[s] /\ query'[s] = query[s]
    BY <2>1, <2>2 DEF RegisterItem, TypeOK, ClientTypeOK, ItemTypeOK
  <2>4. "Load" \notin BarrierTypes
    BY DEF BarrierTypes
  <2> QED
    BY <2>1, <2>2, <2>3, <2>4 DEF QueuedPlaces
<1>2. ASSUME NEW lost, NEW x, HandsOut(x, lost) PROVE RightPlace'
  BY <1>2 DEF HandsOut, Breaks, QueuedPlaces
<1>3. ASSUME NEW lost, Moves(lost) PROVE RightPlace'
  <2>1. "Load" \notin BarrierTypes
    BY DEF BarrierTypes
  <2> QED
    BY <1>3, <2>1 DEF Moves, Breaks, SameStage, QueuedPlaces
<1>4. ASSUME NEW x, NEW from, NEW to, NEW change, Advances(x, from, to, change),
             to \in {"notified", "completed"}
      PROVE  RightPlace'
  BY <1>4 DEF Advances, QueuedPlaces
<1>5. CASE SubmitQuery
  BY <1>1, <1>5 DEF SubmitQuery
<1>6. CASE FetchStep
  BY <1>2, <1>3, <1>6, FetchShape
<1>7. CASE CompletionStep
  BY <1>3, <1>4, <1>7, CompletionShape
<1>8. CASE SetReady \/ UNCHANGED vars
  BY <1>3, <1>8, OtherShape
<1> QED
  BY <1>5, <1>6, <1>7, <1>8 DEF Next

\* What fetchNext has looked at before it hands an item out.
LEMMA HandedOut ==
    ASSUME TypeOK, Ownership, FetchStep,
           NEW x \in Seqs, owner[x] # "fetched", owner'[x] = "fetched"
    PROVE  \/ /\ owner[x] = "barriers" /\ barriers # <<>> /\ x = Head(barriers)
              /\ running = 0
           \/ /\ owner[x] \in {"loadQueue", "queue"}
              /\ ~Behind(x) /\ ~Waits(x)
<1>1. CASE FetchNothing
  BY <1>1 DEF FetchNothing, itemVars
<1>2. CASE FetchBarrier
  <2>1. barriers # <<>> /\ running = 0 /\ owner' = [owner EXCEPT ![Head(barriers)] = "fetched"]
    BY <1>2 DEF FetchBarrier, BarrierMayGo
  <2>2. Head(barriers) \in Owned("barriers")
    BY <2>1, ListsTail DEF Ownership, BarriersOwned, TypeOK, LineTypeOK
  <2>3. x = Head(barriers)
    BY <2>1 DEF TypeOK, ItemTypeOK
  <2> QED
    BY <2>1, <2>2, <2>3 DEF Owned
<1>3. ASSUME NEW t \in Eligible \cup {NoTable}, NEW passed \in SUBSET Blocked,
             LoadWaits(t, passed) \/ FetchLoad(t, passed)
      PROVE  /\ owner[x] \in {"loadQueue", "queue"}
             /\ ~Behind(x) /\ ~Waits(x)
  <2>1. LoadCand # 0
    BY <1>3 DEF LoadWaits, FetchLoad, LoadWins, PreferLoad
  <2>2. LoadCand = Head(loadQueue) /\ loadQueue # <<>> /\ ~Behind(LoadCand)
    BY <2>1 DEF LoadCand
  <2>3. owner[LoadCand] = "loadQueue"
    <3>1. LoadCand \in Owned("loadQueue")
      BY <2>2, ListsTail DEF Ownership, LoadsOwned, TypeOK, LineTypeOK
    <3> QED
      BY <3>1 DEF Owned
  <2>4. owner' = [owner EXCEPT ![LoadCand] = IF Waits(LoadCand) THEN WaitOwner(LoadCand)
                                             ELSE "fetched"]
    BY <1>3 DEF LoadWaits, FetchLoad
  <2>5. WaitOwner(LoadCand) # "fetched"
    BY DEF WaitOwner
  <2>6. x = LoadCand /\ ~Waits(x)
    BY <2>4, <2>5 DEF TypeOK, ItemTypeOK
  <2> QED
    BY <2>2, <2>3, <2>6
<1>4. ASSUME NEW t \in Eligible \cup {NoTable}, NEW passed \in SUBSET Blocked,
             TableWaits(t, passed) \/ FetchTable(t, passed)
      PROVE  /\ owner[x] \in {"loadQueue", "queue"}
             /\ ~Behind(x) /\ ~Waits(x)
  <2> DEFINE h == Head(queue[t])
  <2>1. t \in Eligible /\ t # NoTable
    BY <1>4 DEF TableWaits, FetchTable, TableWins
  <2>2. t \in TableIds /\ queue[t] # <<>> /\ ~Behind(h)
    BY <2>1, CandidateTypes DEF Eligible, Blocked
  <2>3. owner[h] = "queue"
    <3>1. h \in OwnedQueue(t)
      BY <2>2, ListsTail DEF Ownership, QueuesOwned, TypeOK, TableTypeOK
    <3> QED
      BY <3>1 DEF OwnedQueue
  <2>4. /\ Waits(h) => Takes(t, WaitOwner(h))
        /\ ~Waits(h) => Takes(t, "fetched")
    BY <1>4 DEF TableWaits, FetchTable
  <2>5. WaitOwner(h) # "fetched"
    BY DEF WaitOwner
  <2>6. x = h /\ ~Waits(x)
    BY <2>4, <2>5 DEF Takes
  <2> QED
    BY <2>2, <2>3, <2>6
<1> QED
  BY <1>1, <1>2, <1>3, <1>4 DEF FetchStep

\* No query behind a queued barrier is handed out.
BarriersHold == \A b, s \in Seqs : owner[b] = "barriers" /\ Launched(s) => s < b

\* The head of the line comes first.
LEMMA HeadOfLine ==
    ASSUME TypeOK, Ownership, InLine, NEW b \in Seqs, owner[b] = "barriers"
    PROVE  /\ barriers # <<>> /\ Head(barriers) \in Seqs
           /\ b # Head(barriers) => Head(barriers) < b
<1>1. b \in Range(barriers)
  BY DEF Ownership, BarriersOwned, Lists, Owned
<1>2. PICK i \in DOMAIN barriers : barriers[i] = b
  BY <1>1 DEF Range
<1>3. /\ DOMAIN barriers = 1 .. Len(barriers) /\ Len(barriers) \in Nat
      /\ \A j \in DOMAIN barriers : barriers[j] \in Seqs
  BY DEF TypeOK, LineTypeOK
<1>4. barriers # <<>> /\ 1 \in DOMAIN barriers /\ Head(barriers) = barriers[1]
  BY <1>2, <1>3
<1>5. i = 1 \/ 1 < i
  BY <1>2, <1>3
<1> QED
  BY <1>2, <1>3, <1>4, <1>5 DEF InLine

\* Barriers join the line at its end and leave it at its head.
LEMMA NextInLine == TypeOK /\ Ownership /\ InLine /\ [Next]_vars => InLine'
<1> SUFFICES ASSUME TypeOK, Ownership, InLine, [Next]_vars PROVE InLine'
  OBVIOUS
<1>1. barriers \in Seq(Seqs)
  BY DEF TypeOK, LineTypeOK
<1>2. CASE barriers' = barriers
  BY <1>2 DEF InLine
<1>3. CASE SubmitQuery /\ barriers' = Append(barriers, submitted + 1)
  <2> DEFINE n == submitted + 1
  <2>1. \A i \in DOMAIN barriers : barriers[i] \in Seqs /\ owner[barriers[i]] = "barriers"
    BY <1>1 DEF Ownership, BarriersOwned, Lists, Range, Owned
  <2>2. \A i \in DOMAIN barriers : barriers[i] < n
    <3>1. submitted \in Nat /\ Seqs \subseteq Int
      BY ConstantTypes DEF TypeOK, ClientTypeOK, Seqs
    <3>2. \A s \in Seqs : owner[s] # "client" => ~(s > submitted)
      BY DEF Ownership, ClientOwned, Owned
    <3>3. ASSUME NEW i \in DOMAIN barriers PROVE barriers[i] < n
      <4>1. barriers[i] \in Int /\ ~(barriers[i] > submitted)
        BY <2>1, <3>1, <3>2
      <4> QED
        BY <3>1, <4>1
    <3> QED
      BY <3>3
  <2>3. n \in Seqs
    BY <1>3, SubmitShape
  <2>4. /\ DOMAIN barriers = 1 .. Len(barriers) /\ Len(barriers) \in Nat
        /\ DOMAIN barriers' = 1 .. Len(barriers) + 1
        /\ barriers'[Len(barriers) + 1] = n
        /\ \A i \in DOMAIN barriers : barriers'[i] = barriers[i]
    BY <1>1, <1>3, <2>3
  <2> SUFFICES ASSUME NEW i \in DOMAIN barriers', NEW j \in DOMAIN barriers', i < j
               PROVE  barriers'[i] < barriers'[j]
    BY DEF InLine
  <2>5. i \in DOMAIN barriers
    BY <2>4
  <2>6. j \in DOMAIN barriers \/ j = Len(barriers) + 1
    BY <2>4
  <2> QED
    BY <2>2, <2>4, <2>5, <2>6 DEF InLine
<1>4. CASE barriers # <<>> /\ barriers' = Tail(barriers)
  <2>1. /\ DOMAIN barriers = 1 .. Len(barriers) /\ Len(barriers) \in Nat
        /\ DOMAIN barriers' = 1 .. Len(barriers) - 1
        /\ \A i \in 1 .. Len(barriers) - 1 : barriers'[i] = barriers[i + 1]
    BY <1>1, <1>4
  <2> SUFFICES ASSUME NEW i \in DOMAIN barriers', NEW j \in DOMAIN barriers', i < j
               PROVE  barriers'[i] < barriers'[j]
    BY DEF InLine
  <2>2. i + 1 \in DOMAIN barriers /\ j + 1 \in DOMAIN barriers /\ i + 1 < j + 1
    BY <2>1
  <2> QED
    BY <2>1, <2>2 DEF InLine
<1>5. CASE SubmitQuery
  <2>1. barriers' = barriers \/ barriers' = Append(barriers, submitted + 1)
    BY <1>5 DEF SubmitQuery, RegisterBarrier, RegisterLoad, RegisterDump, RegisterDrop,
                RegisterCopy, RegisterOther, Enqueue
  <2> QED
    BY <1>2, <1>3, <1>5, <2>1
<1>6. CASE FetchStep
  <2>1. barriers' = barriers \/ (barriers # <<>> /\ barriers' = Tail(barriers))
    BY <1>6 DEF FetchStep, FetchNothing, FetchBarrier, BarrierMayGo, LoadWaits,
                FetchLoad, LoadWins, TableWaits, FetchTable, TableWins
  <2> QED
    BY <1>2, <1>4, <2>1
<1>7. CASE SetReady \/ CompletionStep \/ UNCHANGED vars
  <2>1. barriers' = barriers
    BY <1>7 DEF SetReady, CompletionStep, BeginCompletion, UpdateReadyFiles,
                UpdateReadyTables, ReadyUnchanged, FinishCompletion, Retire, vars,
                barrierVars
  <2> QED
    BY <1>2, <2>1
<1> QED
  BY <1>5, <1>6, <1>7 DEF Next

\* A query is handed out behind the barriers that precede it.
LEMMA HandedBehind ==
    ASSUME TypeOK, Ownership, InLine, FetchStep, NEW lost, NEW x \in Seqs,
           HandsOut(x, lost), NEW b \in Seqs, owner[b] = "barriers", b # x
    PROVE  x < b
<1>1. owner[x] # "fetched" /\ owner'[x] = "fetched"
  BY DEF HandsOut
<1>2. /\ barriers # <<>> /\ Head(barriers) \in Seqs
      /\ b # Head(barriers) => Head(barriers) < b
  BY HeadOfLine
<1>3. Seqs \subseteq Int
  BY ConstantTypes DEF Seqs
<1>4. CASE owner[x] = "barriers"
  <2>1. x = Head(barriers)
    BY <1>1, <1>4, HandedOut
  <2> QED
    BY <1>2, <2>1
<1>5. CASE owner[x] # "barriers"
  <2>1. ~(x > Head(barriers))
    BY <1>1, <1>2, <1>5, HandedOut DEF Behind
  <2>2. owner[Head(barriers)] = "barriers"
    <3>1. Head(barriers) \in Owned("barriers")
      BY <1>2, ListsTail DEF Ownership, BarriersOwned, TypeOK, LineTypeOK
    <3> QED
      BY <3>1 DEF Owned
  <2>3. x # Head(barriers)
    BY <1>5, <2>2
  <2>4. x \in Int /\ b \in Int /\ Head(barriers) \in Int
    BY <1>2, <1>3
  <2>5. x < Head(barriers)
    BY <2>1, <2>3, <2>4
  <2> QED
    BY <1>2, <2>4, <2>5
<1> QED
  BY <1>4, <1>5

\* ... and no step lets one overtake.
LEMMA NextHold ==
    TypeOK /\ Ownership /\ InLine /\ BarriersHold /\ [Next]_vars => BarriersHold'
<1> SUFFICES ASSUME TypeOK, Ownership, InLine, BarriersHold, [Next]_vars
             PROVE  BarriersHold'
  OBVIOUS
<1> USE DEF BarriersHold
<1>1. CASE SubmitQuery
  <2> DEFINE n == submitted + 1
  <2>1. \A s \in Seqs : Launched(s)' => Launched(s) /\ s # n
    BY <1>1, SubmitShape DEF Launched
  <2>2. \A s \in Seqs : Launched(s) => s < n
    <3>1. submitted \in Nat /\ Seqs \subseteq Int
      BY ConstantTypes DEF TypeOK, ClientTypeOK, Seqs
    <3>2. \A s \in Seqs : owner[s] # "client" => ~(s > submitted)
      BY DEF Ownership, ClientOwned, Owned
    <3>3. \A s \in Seqs : Launched(s) => owner[s] # "client"
      BY DEF Launched
    <3> QED
      BY <3>1, <3>2, <3>3
  <2>3. \A b \in Seqs : owner'[b] = "barriers" => b = n \/ owner[b] = "barriers"
    BY <1>1, SubmitShape
  <2> QED
    BY <2>1, <2>2, <2>3
<1>2. ASSUME NEW lost, NEW x \in Seqs, HandsOut(x, lost), FetchStep PROVE BarriersHold'
  <2>1. \A s \in Seqs : Launched(s)' => Launched(s) \/ s = x
    BY <1>2 DEF HandsOut, Breaks, Launched
  <2>2. \A b \in Seqs : owner'[b] = "barriers" => owner[b] = "barriers" /\ b # x
    BY <1>2 DEF HandsOut, Breaks
  <2>3. \A b \in Seqs : owner[b] = "barriers" /\ b # x => x < b
    BY <1>2, HandedBehind
  <2> QED
    BY <2>1, <2>2, <2>3
<1>3. ASSUME NEW lost, Moves(lost) PROVE BarriersHold'
  BY <1>3 DEF Moves, Breaks, SameStage, QueuedPlaces, Launched
<1>4. ASSUME NEW x, NEW from, NEW to, NEW change, Advances(x, from, to, change),
             from \in {"completing", "notified"}, to \in {"notified", "completed"}
      PROVE  BarriersHold'
  BY <1>4 DEF Advances, Launched
<1>5. CASE FetchStep
  BY <1>2, <1>3, <1>5, FetchShape
<1>6. CASE CompletionStep
  BY <1>3, <1>4, <1>6, CompletionShape
<1>7. CASE SetReady \/ UNCHANGED vars
  BY <1>3, <1>7, OtherShape
<1> QED
  BY <1>1, <1>5, <1>6, <1>7 DEF Next

\* The barriers' part of the invariant.
LineInv == RightPlace /\ InLine /\ BarriersHold

LEMMA LineInvariant == Spec => []LineInv
<1>1. Init => LineInv
  BY DEF Init, LineInv, RightPlace, InLine, BarriersHold, QueuedPlaces, Launched
<1> QED
  BY <1>1, OwnershipInvariant, NextPlace, NextInLine, NextHold, PTL DEF Spec, LineInv

\* Nothing overtakes a barrier: a query submitted after a LIST or QUIT that is still
\* queued has not been handed to a worker.
THEOREM NothingOvertakesBarriers == Spec => []BarrierOrder
<1>1. TypeOK /\ Ownership /\ LineInv => BarrierOrder
  BY DEF LineInv, BarriersHold, BarrierOrder, Ownership, BarriersOwned, Lists, Owned
<1> QED
  BY <1>1, OwnershipInvariant, LineInvariant, PTL

-----------------------------------------------------------------------------
(* Files.                                                                  *)

\* Query s is an operation on file f: a LOAD or a DUMP.
On(s, f) == query[s].file = f /\ f # NoFile

\* Only LOAD and DUMP name a file, and only a submitted query does.
FileCommands ==
    \A s \in Seqs : query[s].file # NoFile =>
        query[s].type \in {"Load", "Dump"} /\ s <= submitted

\* An operation waits for the last one on its file that was scheduled before it, and
\* the scheduler remembers the last one of all.
FileChain ==
    \A r \in Seqs, f \in FileIds :
        On(r, f) => /\ r <= lastScheduledFile[f].seq
                    /\ \A s \in Seqs : On(s, f) /\ r < s => r <= item[s].fileDep

\* What lastCompletedFile counts is over, or is the callback at work.
FileDone ==
    \A r \in Seqs, f \in FileIds :
        On(r, f) /\ r <= lastCompletedFile[f] => Finished(r) \/ owner[r] = "completing"

\* An operation was handed out once the one it waits for had completed.
FileWaited ==
    \A s \in Seqs, f \in FileIds :
        On(s, f) /\ Launched(s) => item[s].fileDep <= lastCompletedFile[f]

\* No number has completed that was not submitted.
FileReached == \A f \in FileIds : lastCompletedFile[f] <= submitted

FileInv == /\ FileCommands /\ FileChain /\ FileDone /\ FileWaited /\ FileReached
           /\ FileSerial

\* What the files' bookkeeping compares are numbers.
LEMMA Numbers ==
    ASSUME TypeOK
    PROVE  /\ \A s \in Seqs : s \in Int
           /\ \A s \in Seqs : item[s].fileDep \in Nat /\ item[s].tableDep \in Nat
                             /\ item[s].dstDep \in Nat
           /\ \A f \in FileIds : lastCompletedFile[f] \in Nat
           /\ \A t \in TableIds : lastCompletedTable[t] \in Nat
<1>1. \A s \in Seqs : s \in Int
  BY ConstantTypes DEF Seqs
<1>2. \A s \in Seqs : item[s].fileDep \in Nat /\ item[s].tableDep \in Nat
                     /\ item[s].dstDep \in Nat
  BY DEF TypeOK, ItemTypeOK, Item
<1>3. \A f \in FileIds : lastCompletedFile[f] \in Nat
  BY DEF TypeOK, DepTypeOK
<1>4. \A t \in TableIds : lastCompletedTable[t] \in Nat
  BY DEF TypeOK, DepTypeOK
<1> QED
  BY <1>1, <1>2, <1>3, <1>4

\* What registration does to the files' bookkeeping.
LEMMA SubmitFiles ==
    ASSUME TypeOK, Ownership, NEW q \in Commands,
           \/ RegisterBarrier(q) \/ RegisterLoad(q) \/ RegisterDump(q)
           \/ RegisterDrop(q) \/ RegisterCopy(q) \/ RegisterOther(q)
    PROVE  /\ query' = [query EXCEPT ![submitted + 1] = q]
           /\ \A s \in Seqs : s # submitted + 1 => item'[s] = item[s]
           /\ lastCompletedFile' = lastCompletedFile
           /\ q.file # NoFile =>
                /\ q.type \in {"Load", "Dump"} /\ q.file \in FileIds
                /\ item'[submitted + 1].fileDep = lastScheduledFile[q.file].seq
                /\ \E tag : lastScheduledFile' =
                      MarkScheduled(lastScheduledFile, q.file, submitted + 1, tag)
           /\ q.file = NoFile => lastScheduledFile' = lastScheduledFile
<1> DEFINE n == submitted + 1
<1>1. PICK it, place : RegisterItem(q, it, place)
  BY DEF RegisterBarrier, RegisterLoad, RegisterDump, RegisterDrop, RegisterCopy,
         RegisterOther, Enqueue
<1>2. n \in Seqs
  BY ConstantTypes, <1>1 DEF RegisterItem, TypeOK, ClientTypeOK, Seqs
<1>3. /\ query' = [query EXCEPT ![n] = q]
      /\ item' = [item EXCEPT ![n] = it]
      /\ lastCompletedFile' = lastCompletedFile
  BY <1>1 DEF RegisterItem, depVars
<1>4. q.file \in FileIds /\ (q.file # NoFile <=> q.type \in {"Load", "Dump"})
  BY ConstantTypes, CommandsAssumption, NamesAssumption DEF Command, FileIds
<1>5. item[n] \in Item /\ \A s \in Seqs : s # n => item'[s] = item[s]
  BY <1>2, <1>3 DEF TypeOK, ItemTypeOK
<1>6. CASE RegisterLoad(q)
  <2> DEFINE tab  == fileTableName[q.file]
             prev == lastScheduledFile[q.file]
             pending == /\ prev.tag = "Dump"
                        /\ lastCompletedFile[q.file] < prev.seq
             pend == {t \in TableIds : pending /\ lastScheduledTable[t].tag = "Drop"}
             drop == /\ prev.seq > 0
                     /\ prev.tag = "Load"
                     /\ lastScheduledTable[tab].tag # "Drop"
             new == [NewItem(tab) EXCEPT
                      !.fileDep = prev.seq,
                      !.tableDep = IF pending THEN 0 ELSE lastScheduledTable[tab].seq,
                      !.pendingTable = pend,
                      !.dropped = drop]
  <2>1. /\ RegisterItem(q, new, "loadQueue")
        /\ lastScheduledFile' = MarkScheduled(lastScheduledFile, q.file, n, "Load")
        /\ q.type = "Load"
    BY <1>6 DEF RegisterLoad
  <2>2. new.fileDep = prev.seq
    BY DEF NewItem
  <2>3. item'[n] = new
    BY <1>2, <2>1 DEF RegisterItem, TypeOK, ItemTypeOK
  <2> QED
    BY <1>3, <1>4, <1>5, <2>1, <2>2, <2>3
<1>7. CASE RegisterDump(q)
  <2> DEFINE new == [NewItem(q.table) EXCEPT
                       !.fileDep = lastScheduledFile[q.file].seq,
                       !.tableDep = lastScheduledTable[q.table].seq]
  <2>1. /\ RegisterItem(q, new, "queue")
        /\ lastScheduledFile' = MarkScheduled(lastScheduledFile, q.file, n, "Dump")
        /\ q.type = "Dump"
    BY <1>7 DEF RegisterDump, Enqueue
  <2>2. new.fileDep = lastScheduledFile[q.file].seq
    BY DEF NewItem
  <2>3. item'[n] = new
    BY <1>2, <2>1 DEF RegisterItem, TypeOK, ItemTypeOK
  <2> QED
    BY <1>3, <1>4, <1>5, <2>1, <2>2, <2>3
<1>8. CASE RegisterBarrier(q) \/ RegisterDrop(q) \/ RegisterCopy(q) \/ RegisterOther(q)
  <2>1. q.type \notin {"Load", "Dump"} /\ lastScheduledFile' = lastScheduledFile
    BY <1>8 DEF RegisterBarrier, RegisterDrop, RegisterCopy, RegisterOther, schedVars,
                BarrierTypes, TrackedTypes
  <2> QED
    BY <1>3, <1>4, <1>5, <2>1
<1> QED
  BY <1>6, <1>7, <1>8

\* A new operation on a file stands behind all others of the file.
LEMMA SubmitFileInv == TypeOK /\ Ownership /\ FileInv /\ SubmitQuery => FileInv'
<1> SUFFICES ASSUME TypeOK, Ownership, FileInv, SubmitQuery PROVE FileInv'
  OBVIOUS
<1> USE DEF FileInv, On
<1> DEFINE n == submitted + 1
<1>1. PICK q \in Commands :
         \/ RegisterBarrier(q) \/ RegisterLoad(q) \/ RegisterDump(q)
         \/ RegisterDrop(q) \/ RegisterCopy(q) \/ RegisterOther(q)
  BY DEF SubmitQuery
<1>2. /\ query' = [query EXCEPT ![n] = q]
      /\ \A s \in Seqs : s # n => item'[s] = item[s]
      /\ lastCompletedFile' = lastCompletedFile
      /\ q.file # NoFile =>
           /\ q.type \in {"Load", "Dump"} /\ q.file \in FileIds
           /\ item'[n].fileDep = lastScheduledFile[q.file].seq
           /\ \E tag : lastScheduledFile' =
                 MarkScheduled(lastScheduledFile, q.file, n, tag)
      /\ q.file = NoFile => lastScheduledFile' = lastScheduledFile
  BY <1>1, SubmitFiles
<1>3. /\ n \in Seqs /\ submitted' = n /\ submitted \in Nat /\ Seqs \subseteq Int
      /\ owner'[n] \in {"barriers", "loadQueue", "queue"}
      /\ \A s \in Seqs : s # n => owner'[s] = owner[s]
  BY SubmitShape, ConstantTypes DEF TypeOK, ClientTypeOK, Seqs
<1>4. query'[n] = q /\ \A s \in Seqs : s # n => query'[s] = query[s]
  BY <1>2, <1>3 DEF TypeOK, ClientTypeOK
<1>5. \A s \in Seqs : ~(s <= submitted) => query[s].file = NoFile
  BY DEF FileCommands
<1>6. FileCommands'
  BY <1>2, <1>3, <1>4 DEF FileCommands
<1>7. \A f \in FileIds : lastScheduledFile[f].seq \in Nat
  BY DEF TypeOK, SchedTypeOK, Mark
<1>8. FileChain'
  <2> SUFFICES ASSUME NEW r \in Seqs, NEW f \in FileIds, On(r, f)'
               PROVE  /\ r <= lastScheduledFile'[f].seq
                      /\ \A s \in Seqs : On(s, f)' /\ r < s => r <= item'[s].fileDep
    BY DEF FileChain
  <2>1. CASE f # q.file
    <3>1. r # n /\ On(r, f)
      BY <1>4, <2>1
    <3>2. lastScheduledFile'[f] = lastScheduledFile[f]
      BY <1>2, <2>1 DEF MarkScheduled, TypeOK, SchedTypeOK
    <3>3. \A s \in Seqs : On(s, f)' => s # n /\ On(s, f)
      BY <1>4, <2>1
    <3> QED
      BY <1>2, <3>1, <3>2, <3>3 DEF FileChain
  <2>2. CASE f = q.file
    <3>1. f # NoFile
      OBVIOUS
    <3>2. PICK tag : lastScheduledFile' = MarkScheduled(lastScheduledFile, f, n, tag)
      BY <1>2, <2>2, <3>1
    <3>3. lastScheduledFile'[f].seq = IF n > lastScheduledFile[f].seq THEN n
                                      ELSE lastScheduledFile[f].seq
      BY <3>2 DEF MarkScheduled, TypeOK, SchedTypeOK
    <3>4. r = n \/ (On(r, f) /\ r # n)
      BY <1>4
    <3>5. On(r, f) /\ r # n => r <= lastScheduledFile[f].seq
      BY DEF FileChain
    <3>6. r \in Int /\ lastScheduledFile[f].seq \in Nat /\ n \in Int
      BY <1>3, <1>7
    <3>7. r <= lastScheduledFile'[f].seq
      BY <3>3, <3>4, <3>5, <3>6
    <3>8. ASSUME NEW s \in Seqs, On(s, f)', r < s
          PROVE  r <= item'[s].fileDep
      <4>1. CASE s = n
        <5>1. r # n
          BY <1>3, <3>6, <3>8, <4>1
        <5> QED
          BY <1>2, <2>2, <3>1, <3>4, <3>5, <4>1, <5>1
      <4>2. CASE s # n
        <5>1. On(s, f) /\ s <= submitted
          BY <1>4, <3>8, <4>2 DEF FileCommands
        <5>2. r # n
          BY <1>3, <3>6, <3>8, <5>1
        <5> QED
          BY <1>2, <3>4, <3>8, <4>2, <5>1, <5>2 DEF FileChain
      <4> QED
        BY <4>1, <4>2
    <3> QED
      BY <3>7, <3>8
  <2> QED
    BY <2>1, <2>2
<1>9. \A s \in Seqs : /\ Launched(s)' <=> Launched(s) /\ s # n
                      /\ Finished(s)' <=> Finished(s) /\ s # n
                      /\ owner'[s] = "completing" <=> owner[s] = "completing" /\ s # n
  <2>1. owner[n] = "client"
    BY SubmitShape
  <2> QED
    BY <1>3, <2>1 DEF Launched, Finished
<1>10. FileDone'
  <2> SUFFICES ASSUME NEW r \in Seqs, NEW f \in FileIds, On(r, f)',
                      r <= lastCompletedFile[f]
               PROVE  Finished(r)' \/ owner'[r] = "completing"
    BY <1>2 DEF FileDone
  <2>1. r # n
    <3>1. lastCompletedFile[f] \in Nat /\ lastCompletedFile[f] <= submitted
      BY DEF FileReached, TypeOK, DepTypeOK
    <3> QED
      BY <1>3, <3>1
  <2> QED
    BY <1>4, <1>9, <2>1 DEF FileDone
<1>11. FileWaited'
  BY <1>2, <1>4, <1>9 DEF FileWaited
<1>12. FileSerial'
  <2> SUFFICES ASSUME NEW r \in Seqs, NEW s \in Seqs,
                      r < s, query'[r].file = query'[s].file, query'[s].file # NoFile,
                      Launched(s)'
               PROVE  Finished(r)'
    BY DEF FileSerial
  <2>1. s # n /\ Launched(s) /\ s <= submitted
    BY <1>4, <1>9 DEF FileCommands
  <2>2. r # n
    BY <1>3, <2>1
  <2> QED
    BY <1>4, <1>9, <2>1, <2>2 DEF FileSerial
<1>13. FileReached'
  BY <1>2, <1>3 DEF FileReached, TypeOK, DepTypeOK
<1> QED
  BY <1>6, <1>8, <1>10, <1>11, <1>12, <1>13

\* Steps that move items along, and complete nothing.
LEMMA QuietFileInv ==
    ASSUME TypeOK, Ownership, FileInv,
           query' = query, submitted' = submitted,
           \A s \in Seqs : item'[s].fileDep = item[s].fileDep,
           lastScheduledFile' = lastScheduledFile,
           lastCompletedFile' = lastCompletedFile,
           \A s \in Seqs : Launched(s)' <=> Launched(s),
           \A s \in Seqs : Finished(s) => Finished(s)',
           \A s \in Seqs : owner[s] = "completing" =>
                              Finished(s)' \/ owner'[s] = "completing"
    PROVE  FileInv'
BY DEF FileInv, FileCommands, FileChain, FileDone, FileWaited, FileReached, FileSerial, On

\* An operation that is handed out follows operations that are over: nothing is handed
\* out while a callback is at work.
LEMMA FetchFileInv == TypeOK /\ Ownership /\ RightPlace /\ FileInv /\ FetchStep => FileInv'
<1> SUFFICES ASSUME TypeOK, Ownership, RightPlace, FileInv, FetchStep PROVE FileInv'
  OBVIOUS
<1>1. /\ item' = item /\ lastScheduledFile' = lastScheduledFile
      /\ lastCompletedFile' = lastCompletedFile /\ mu # "completing"
  BY DEF FetchStep, FetchNothing, FetchBarrier, LoadWaits, FetchLoad, LoadWins,
         TableWaits, FetchTable, TableWins, FetchUnchanged, CanFetch, itemVars, depVars,
         schedVars, Launch, AddWait, AddWaitTable
<1>2. \A s \in Seqs : owner[s] # "completing"
  BY <1>1 DEF Ownership, CallbackOwned, Owned
<1>3. PICK lost \in SUBSET Seqs : Moves(lost) \/ \E x \in Seqs : HandsOut(x, lost)
  BY FetchShape
<1>4. CASE Moves(lost)
  <2>1. ASSUME NEW s \in Seqs
        PROVE  (Launched(s)' <=> Launched(s)) /\ (Finished(s) => Finished(s)')
    BY <1>4 DEF Moves, Breaks, SameStage, QueuedPlaces, Launched, Finished
  <2> QED
    BY <1>1, <1>2, <1>4, <2>1, QuietFileInv DEF Moves
<1>5. ASSUME NEW x \in Seqs, HandsOut(x, lost) PROVE FileInv'
  <2>1. query' = query /\ submitted' = submitted
    BY <1>5 DEF HandsOut
  <2>2. ASSUME NEW s \in Seqs
        PROVE  /\ Launched(s)' <=> Launched(s) \/ s = x
               /\ Finished(s)' <=> Finished(s)
               /\ Finished(s) => s # x
    BY <1>5 DEF HandsOut, Breaks, Launched, Finished
  <2>3. owner[x] # "fetched" /\ owner'[x] = "fetched" /\ owner[x] \in QueuedPlaces
    BY <1>5 DEF HandsOut, QueuedPlaces
  <2>4. ASSUME NEW f \in FileIds, On(x, f)
        PROVE  item[x].fileDep <= lastCompletedFile[f]
    <3>1. "Load" \notin BarrierTypes /\ "Dump" \notin BarrierTypes
      BY DEF BarrierTypes
    <3>2. owner[x] # "barriers"
      BY <2>3, <2>4, <3>1 DEF RightPlace, FileInv, FileCommands, On
    <3>3. ~FileBlocked(x)
      BY <2>3, <3>2, HandedOut DEF Waits
    <3>4. item[x].fileDep \in Nat /\ lastCompletedFile[f] \in Nat
      BY DEF TypeOK, ItemTypeOK, Item, DepTypeOK
    <3> QED
      BY <2>4, <3>3, <3>4 DEF FileBlocked, On
  <2>5. FileCommands' /\ FileChain' /\ FileReached'
    BY <1>1, <2>1 DEF FileInv, FileCommands, FileChain, FileReached, On
  <2>6. FileDone'
    BY <1>1, <1>2, <2>1, <2>2 DEF FileInv, FileDone, On
  <2>7. FileWaited'
    BY <1>1, <2>1, <2>2, <2>4 DEF FileInv, FileWaited, On
  <2>8. FileSerial'
    <3> SUFFICES ASSUME NEW r \in Seqs, NEW s \in Seqs,
                        r < s, query[r].file = query[s].file, query[s].file # NoFile,
                        Launched(s)'
                 PROVE  Finished(r)
      BY <2>1, <2>2 DEF FileSerial
    <3>1. CASE s # x
      BY <2>2, <3>1 DEF FileInv, FileSerial
    <3>2. CASE s = x
      <4> DEFINE f == query[x].file
      <4>1. f \in FileIds /\ On(x, f) /\ On(r, f)
        BY <3>2 DEF On, TypeOK, ClientTypeOK, Command
      <4>2. item[x].fileDep <= lastCompletedFile[f]
        BY <2>4, <4>1
      <4>3. r <= item[x].fileDep
        BY <3>2, <4>1 DEF FileInv, FileChain
      <4>4. r \in Int /\ item[x].fileDep \in Nat /\ lastCompletedFile[f] \in Nat
        BY <4>1, Numbers
      <4>5. r <= lastCompletedFile[f]
        BY <4>2, <4>3, <4>4
      <4> QED
        BY <1>2, <4>1, <4>5 DEF FileInv, FileDone
    <3> QED
      BY <3>1, <3>2
  <2> QED
    BY <2>5, <2>6, <2>7, <2>8 DEF FileInv
<1> QED
  BY <1>3, <1>4, <1>5

\* A completion on a file raises what has completed there, past operations that are
\* over.
LEMMA BeginFileInv ==
    ASSUME TypeOK, Ownership, FileInv, NEW x \in Seqs, BeginCompletion(x)
    PROVE  FileInv'
<1> DEFINE g == query[x].file
<1>1. /\ query' = query /\ submitted' = submitted
      /\ lastScheduledFile' = lastScheduledFile
      /\ mu = "free" /\ owner[x] = "fetched"
      /\ lastCompletedFile' = [lastCompletedFile EXCEPT ![g] =
                                  IF g # NoFile /\ x >= @ THEN x ELSE @]
  BY DEF BeginCompletion, clientVars, schedVars
<1>2. \A s \in Seqs : item'[s].fileDep = item[s].fileDep
  BY DEF BeginCompletion, TypeOK, ItemTypeOK, Item
<1>3. \A s \in Seqs : owner[s] # "completing"
  BY <1>1 DEF Ownership, CallbackOwned, Owned
<1>4. Moves({}) /\ owner'[x] = "completing"
  BY BeginShape
<1>5. ASSUME NEW s \in Seqs
      PROVE  (Launched(s)' <=> Launched(s)) /\ (Finished(s)' <=> Finished(s))
  BY <1>4 DEF Moves, Breaks, SameStage, QueuedPlaces, Launched, Finished
<1>6. /\ \A s \in Seqs : s \in Int
      /\ \A f \in FileIds : lastCompletedFile[f] \in Nat
      /\ g \in FileIds
  <2>1. g \in FileIds
    BY DEF TypeOK, ClientTypeOK, Command
  <2> QED
    BY <2>1, Numbers
<1>7. \A f \in FileIds :
         lastCompletedFile'[f] = IF f = g /\ g # NoFile /\ x >= lastCompletedFile[f]
                                 THEN x ELSE lastCompletedFile[f]
  BY <1>1, <1>6 DEF TypeOK, DepTypeOK
<1>8. FileCommands' /\ FileChain' /\ FileSerial'
  BY <1>1, <1>2, <1>5 DEF FileInv, FileCommands, FileChain, FileSerial, On
<1>9. FileReached'
  <2>1. submitted \in Nat /\ x <= submitted
    BY <1>1, <1>6 DEF TypeOK, ClientTypeOK, Ownership, ClientOwned, Owned
  <2> QED
    BY <1>1, <1>7, <2>1 DEF FileInv, FileReached
<1>10. FileWaited'
  <2> SUFFICES ASSUME NEW s \in Seqs, NEW f \in FileIds, On(s, f), Launched(s)
               PROVE  item[s].fileDep <= lastCompletedFile'[f]
    BY <1>1, <1>2, <1>5 DEF FileWaited, On
  <2>1. item[s].fileDep <= lastCompletedFile[f] /\ item[s].fileDep \in Nat
    BY DEF FileInv, FileWaited, TypeOK, ItemTypeOK, Item
  <2> QED
    BY <1>6, <1>7, <2>1
<1>11. FileDone'
  <2> SUFFICES ASSUME NEW r \in Seqs, NEW f \in FileIds, On(r, f),
                      r <= lastCompletedFile'[f]
               PROVE  Finished(r)' \/ owner'[r] = "completing"
    BY <1>1 DEF FileDone, On
  <2>1. CASE r <= lastCompletedFile[f]
    BY <1>3, <1>5, <2>1 DEF FileInv, FileDone
  <2>2. CASE ~(r <= lastCompletedFile[f])
    <3>1. f = g /\ r <= x
      BY <1>6, <1>7, <2>2
    <3>2. CASE r = x
      BY <1>4, <3>2
    <3>3. CASE r < x
      <4>1. Launched(x)
        BY <1>1 DEF Launched
      <4> QED
        BY <1>5, <3>1, <3>3, <4>1 DEF FileInv, FileSerial, On
    <3> QED
      BY <1>6, <3>1, <3>2, <3>3
  <2> QED
    BY <2>1, <2>2
<1> QED
  BY <1>8, <1>9, <1>10, <1>11 DEF FileInv

\* Whatever a callback does.
LEMMA CompletionFileInv == TypeOK /\ Ownership /\ FileInv /\ CompletionStep => FileInv'
<1> SUFFICES ASSUME TypeOK, Ownership, FileInv, NEW x \in Seqs,
                    \/ BeginCompletion(x)
                    \/ UpdateReadyFiles(x)
                    \/ \E t \in TableIds : UpdateReadyTables(t, x)
                    \/ FinishCompletion(x)
                    \/ Retire(x)
             PROVE  FileInv'
  BY DEF CompletionStep
<1>1. CASE BeginCompletion(x)
  BY <1>1, BeginFileInv
<1>2. CASE ~BeginCompletion(x)
  <2>1. /\ lastScheduledFile' = lastScheduledFile
        /\ lastCompletedFile' = lastCompletedFile
    BY <1>2 DEF UpdateReadyFiles, UpdateReadyTables, ReadyUnchanged, ToLoadQueue,
                ToTableQueue, ToTableWait, AddWaitTable, FinishCompletion, Retire,
                schedVars, depVars
  <2>2. \A s \in Seqs : item'[s].fileDep = item[s].fileDep
    <3>1. \/ item' = item
          \/ \E tab : item' = [item EXCEPT ![x].tableId = tab]
      <4>1. CASE UpdateReadyFiles(x)
        BY <4>1 DEF UpdateReadyFiles, ToTableQueue, ToTableWait
      <4>2. CASE \E t \in TableIds : UpdateReadyTables(t, x)
        BY <4>2 DEF UpdateReadyTables, ToTableQueue, ToTableWait
      <4>3. CASE FinishCompletion(x) \/ Retire(x)
        BY <4>3 DEF FinishCompletion, Retire
      <4> QED
        BY <1>2, <4>1, <4>2, <4>3
    <3>2. ASSUME NEW tab, item' = [item EXCEPT ![x].tableId = tab], NEW s \in Seqs
          PROVE  item'[s].fileDep = item[s].fileDep
      BY <3>2 DEF TypeOK, ItemTypeOK, Item
    <3> QED
      BY <3>1, <3>2
  <2>3. \/ Moves({}) /\ \A s \in Seqs : owner[s] = "completing" => owner'[s] = owner[s]
        \/ \E s \in Seqs : \/ Advances(s, "completing", "notified", 0)
                           \/ Advances(s, "notified", "completed", -1)
    <3>1. CompletionStep
      BY DEF CompletionStep
    <3>2. Moves({}) => \A s \in Seqs : owner[s] = "completing" => owner'[s] = owner[s]
      BY DEF Moves, SameStage, QueuedPlaces
    <3> QED
      BY <3>1, <3>2, CompletionShape
  <2>4. /\ query' = query /\ submitted' = submitted
        /\ \A s \in Seqs : /\ Launched(s)' <=> Launched(s)
                           /\ Finished(s) => Finished(s)'
                           /\ owner[s] = "completing" =>
                                 Finished(s)' \/ owner'[s] = "completing"
    BY <2>3 DEF Moves, Breaks, SameStage, QueuedPlaces, Advances, Launched, Finished
  <2> QED
    BY <2>1, <2>2, <2>4, QuietFileInv
<1> QED
  BY <1>1, <1>2

\* The files' part of the invariant.
LEMMA FileInvariant == Spec => []FileInv
<1>1. Init => FileInv
  <2> SUFFICES ASSUME Init PROVE FileInv
    OBVIOUS
  <2>1. \A s \in Seqs : query[s].file = NoFile /\ ~Launched(s)
    BY DEF Init, NoCommand, Launched
  <2>2. \A f \in FileIds : lastCompletedFile[f] <= submitted
    BY DEF Init
  <2> QED
    BY <2>1, <2>2 DEF FileInv, FileCommands, FileChain, FileDone, FileWaited,
                      FileReached, FileSerial, On
<1>2. TypeOK /\ Ownership /\ RightPlace /\ FileInv /\ [Next]_vars => FileInv'
  <2> SUFFICES ASSUME TypeOK, Ownership, RightPlace, FileInv, [Next]_vars PROVE FileInv'
    OBVIOUS
  <2>1. CASE SetReady \/ UNCHANGED vars
    <3>1. /\ query' = query /\ submitted' = submitted /\ item' = item /\ owner' = owner
          /\ lastScheduledFile' = lastScheduledFile
          /\ lastCompletedFile' = lastCompletedFile
      BY <2>1 DEF SetReady, vars, clientVars, itemVars, schedVars, depVars
    <3>2. \A s \in Seqs : (Launched(s)' <=> Launched(s)) /\ (Finished(s)' <=> Finished(s))
      BY <3>1 DEF Launched, Finished
    <3> QED
      BY <3>1, <3>2, QuietFileInv
  <2> QED
    BY <2>1, SubmitFileInv, FetchFileInv, CompletionFileInv DEF Next
<1>3. LineInv => RightPlace
  BY DEF LineInv
<1> QED
  BY <1>1, <1>2, <1>3, OwnershipInvariant, LineInvariant, PTL DEF Spec

\* The LOADs and DUMPs of one file are handed out in the order of the program, each
\* when the one before it is over.
THEOREM FileOperationsSerial == Spec => []FileSerial
<1>1. FileInv => FileSerial
  BY DEF FileInv
<1> QED
  BY <1>1, FileInvariant, PTL

-----------------------------------------------------------------------------
(* The refinement.                                                         *)

\* The status that the promise sees.
status == [s \in Seqs |-> StatusOf(owner[s])]

\* A barrier is handed out when nothing is in flight.
LEMMA NothingInFlight ==
    ASSUME TypeOK, RunningCount, running = 0, NEW s \in Seqs
    PROVE  ~InFlight(s)
<1>1. Cardinality(Flying) = 0
  BY DEF RunningCount, Flying
<1>2. Flying = {}
  BY <1>1, Counting, FS_EmptySet
<1> QED
  BY <1>2 DEF Flying

\* fetchBarrier hands out LIST or QUIT only when no other query is in flight.
THEOREM BarriersStartAlone == Spec => BarrierStartsAlone
<1>1. TypeOK /\ Ownership /\ RunningCount /\ [Next]_vars =>
         [\A b \in Seqs : owner[b] = "barriers" /\ owner'[b] = "fetched" =>
             \A s \in Seqs : ~InFlight(s)]_vars
  <2> SUFFICES ASSUME TypeOK, Ownership, RunningCount, Next,
                      NEW b \in Seqs, owner[b] = "barriers", owner'[b] = "fetched"
               PROVE  \A s \in Seqs : ~InFlight(s)
    OBVIOUS
  <2>1. CASE SubmitQuery
    BY <2>1, SubmitShape
  <2>2. CASE FetchStep
    <3>1. running = 0
      BY <2>2, HandedOut
    <3> QED
      BY <3>1, NothingInFlight
  <2>3. ~Moves({})
    BY DEF Moves, Breaks, SameStage, QueuedPlaces
  <2>4. ASSUME NEW x \in Seqs, NEW from, NEW to, NEW change, Advances(x, from, to, change),
               to # "fetched"
        PROVE  FALSE
    BY <2>4 DEF Advances
  <2>5. CASE CompletionStep
    BY <2>3, <2>4, <2>5, CompletionShape
  <2>6. CASE SetReady
    BY <2>3, <2>6, OtherShape
  <2> QED
    BY <2>1, <2>2, <2>5, <2>6 DEF Next
<1> QED
  BY <1>1, OwnershipInvariant, RunningCountExact, PTL DEF Spec, BarrierStartsAlone

\* An item that is handed out may start, in the words of the promise.
LEMMA HandedMayStart ==
    ASSUME TypeOK, Ownership, RunningCount, LineInv, FileInv, FileInv', FetchStep,
           NEW lost, NEW x \in Seqs, HandsOut(x, lost)
    PROVE  Promise!MayStart(x)
<1> USE DEF Promise!Seqs, Seqs
<1>1. owner[x] # "fetched" /\ owner'[x] = "fetched" /\ query' = query
  BY DEF HandsOut
<1>2. ASSUME NEW b \in Seqs, b < x, status[b] = "queued", query[b].type \in BarrierTypes
      PROVE  FALSE
  <2>1. owner[b] = "barriers"
    BY <1>2 DEF status, StatusOf, LineInv, RightPlace, QueuedPlaces, TypeOK, ItemTypeOK,
                Owners
  <2>2. x < b
    BY <1>2, <2>1, HandedBehind DEF LineInv
  <2>3. x \in Int /\ b \in Int
    BY Numbers
  <2> QED
    BY <1>2, <2>2, <2>3
<1>3. ASSUME query[x].type \in BarrierTypes, NEW r \in Seqs
      PROVE  status[r] \notin {"running", "reported"}
  <2>1. owner[x] = "barriers"
    BY <1>3 DEF HandsOut, LineInv, RightPlace, QueuedPlaces
  <2>2. running = 0
    BY <1>1, <2>1, HandedOut
  <2>3. ~InFlight(r)
    BY <2>2, NothingInFlight
  <2> QED
    BY <2>3 DEF status, StatusOf, InFlight
<1>4. ASSUME NEW r \in Seqs, r < x, query[r].file = query[x].file, query[r].file # NoFile
      PROVE  status[r] \in {"reported", "done"}
  <2>1. Launched(x)'
    BY <1>1 DEF Launched
  <2>2. Finished(r)'
    BY <1>1, <1>4, <2>1 DEF FileInv, FileSerial
  <2>3. Finished(r)
    BY <2>2 DEF HandsOut, Breaks, Finished
  <2> QED
    BY <2>3 DEF status, StatusOf, Finished
<1>5. \A b \in Promise!Seqs : b < x /\ status[b] = "queued" => ~Promise!IsBarrier(b)
  BY <1>2 DEF Promise!IsBarrier, Promise!BarrierTypes, BarrierTypes
<1>6. Promise!IsBarrier(x) => \A r \in Promise!Seqs : ~Promise!InFlight(r)
  BY <1>3 DEF Promise!IsBarrier, Promise!BarrierTypes, BarrierTypes, Promise!InFlight,
              status
<1>7. \A r \in Promise!Seqs : r < x /\ Promise!SameFile(r, x) => Promise!Over(r)
  BY <1>4 DEF Promise!SameFile, Promise!Over, status
<1> QED
  BY <1>5, <1>6, <1>7 DEF Promise!MayStart, status

\* The load that is lost was queued.
LEMMA BrokenLosable ==
    ASSUME TypeOK, LineInv, NEW lost, Breaks(lost)
    PROVE  /\ lost \in Promise!Losable
           /\ \A s \in lost : status[s] = "queued" /\ StatusOf(owner'[s]) = "lost"
<1> USE DEF Promise!Seqs, Seqs
<1>1. ASSUME NEW s \in lost
      PROVE  /\ s \in Seqs /\ query[s].type = "Load"
             /\ status[s] = "queued" /\ StatusOf(owner'[s]) = "lost"
  BY <1>1 DEF Breaks, LineInv, RightPlace, status, StatusOf
<1>2. lost = {} \/ \E l \in Seqs : lost = {l}
  BY DEF Breaks
<1> QED
  BY <1>1, <1>2 DEF Promise!Losable, status

\* Every step of the scheduler is a step of the promise, or changes nothing it shows.
LEMMA StepKeepsPromise ==
    TypeOK /\ Ownership /\ RunningCount /\ LineInv /\ FileInv /\ FileInv' /\ [Next]_vars
        => [Promise!Next]_(Promise!vars)
<1> SUFFICES ASSUME TypeOK, Ownership, RunningCount, LineInv, FileInv, FileInv',
                    [Next]_vars
             PROVE  [Promise!Next]_(Promise!vars)
  OBVIOUS
<1> USE DEF Promise!Seqs, Seqs
<1>1. ASSUME NEW lost, Moves(lost) PROVE Promise!Lose
  <2>1. lost \in Promise!Losable /\ \A s \in lost : StatusOf(owner'[s]) = "lost"
    BY <1>1, BrokenLosable DEF Moves
  <2>2. \A s \in Seqs \ lost : StatusOf(owner'[s]) = StatusOf(owner[s])
    BY <1>1 DEF Moves, SameStage, QueuedPlaces, StatusOf
  <2>3. status' = [r \in Seqs |-> IF r \in lost THEN "lost" ELSE status[r]]
    BY <2>1, <2>2 DEF status
  <2>4. query' = query /\ submitted' = submitted
    BY <1>1 DEF Moves
  <2> QED
    BY <2>1, <2>3, <2>4 DEF Promise!Lose, status
<1>2. ASSUME NEW lost, NEW x \in Seqs, HandsOut(x, lost), FetchStep
      PROVE  Promise!Start(x)
  <2>1. lost \in Promise!Losable /\ \A s \in lost : StatusOf(owner'[s]) = "lost"
    BY <1>2, BrokenLosable DEF HandsOut
  <2>2. /\ x \notin lost
        /\ StatusOf(owner[x]) = "queued" /\ StatusOf(owner'[x]) = "running"
    BY <1>2 DEF HandsOut, StatusOf
  <2>3. \A s \in Seqs \ (lost \cup {x}) : StatusOf(owner'[s]) = StatusOf(owner[s])
    BY <1>2 DEF HandsOut
  <2>4. status' = [r \in Seqs |-> IF r = x THEN "running"
                                  ELSE IF r \in lost THEN "lost" ELSE status[r]]
    BY <2>1, <2>2, <2>3 DEF status
  <2>5. query' = query /\ submitted' = submitted
    BY <1>2 DEF HandsOut
  <2>6. Promise!MayStart(x)
    BY <1>2, HandedMayStart
  <2> QED
    BY <2>1, <2>2, <2>4, <2>5, <2>6 DEF Promise!Start, status
<1>3. ASSUME NEW x \in Seqs, Advances(x, "completing", "notified", 0)
      PROVE  Promise!Report(x)
  <2>1. status' = [status EXCEPT ![x] = "reported"] /\ status[x] = "running"
    BY <1>3 DEF Advances, status, StatusOf
  <2> QED
    BY <1>3, <2>1 DEF Advances, Promise!Report, status
<1>4. ASSUME NEW x \in Seqs, Advances(x, "notified", "completed", -1)
      PROVE  Promise!Finish(x)
  <2>1. status' = [status EXCEPT ![x] = "done"] /\ status[x] = "reported"
    BY <1>4 DEF Advances, status, StatusOf
  <2> QED
    BY <1>4, <2>1 DEF Advances, Promise!Finish, status
<1>5. CASE SubmitQuery
  <2> DEFINE n == submitted + 1
  <2>1. /\ n \in Seqs /\ submitted' = n /\ submitted < MaxQueries
        /\ owner'[n] \in {"barriers", "loadQueue", "queue"}
        /\ \A s \in Seqs \ {n} : owner'[s] = owner[s]
        /\ \E q \in Commands : query' = [query EXCEPT ![n] = q]
    BY <1>5, SubmitShape
  <2>2. status' = [status EXCEPT ![n] = "queued"]
    BY <2>1 DEF status, StatusOf
  <2>3. Promise!Register
    BY <2>1, <2>2 DEF Promise!Register, status
  <2> QED
    BY <2>3 DEF Promise!Next
<1>6. CASE FetchStep
  <2>1. PICK lost \in SUBSET Seqs : Moves(lost) \/ \E x \in Seqs : HandsOut(x, lost)
    BY <1>6, FetchShape
  <2> QED
    BY <1>1, <1>2, <1>6, <2>1 DEF Promise!Next
<1>7. CASE CompletionStep
  BY <1>1, <1>3, <1>4, <1>7, CompletionShape DEF Promise!Next
<1>8. CASE SetReady \/ UNCHANGED vars
  BY <1>1, <1>8, OtherShape DEF Promise!Next
<1> QED
  BY <1>5, <1>6, <1>7, <1>8 DEF Next

\* The scheduler implements its promise: whatever the queues, the index, the heaps and
\* the callbacks do, a query is handed out once, behind the barriers and the operations
\* of its file that precede it, barriers alone, and only LOADs are lost.
THEOREM SchedulerKeepsPromise == Spec => KeepsPromise
<1>1. Init => Promise!Init
  <2> SUFFICES ASSUME Init PROVE Promise!Init
    OBVIOUS
  <2>1. status = [s \in Seqs |-> "none"]
    BY DEF Init, status, StatusOf
  <2> QED
    BY <2>1 DEF Init, Promise!Init, Promise!Seqs, Seqs, status
<1> QED
  BY <1>1, StepKeepsPromise, OwnershipInvariant, RunningCountExact, LineInvariant,
     FileInvariant, PTL DEF Spec, KeepsPromise, Promise!Spec

-----------------------------------------------------------------------------
(* The order of the dependencies.                                          *)

\* Item s depends on table t as its own table, or as the destination of a COPYTABLE.
NeedsOwn(s, t) == item[s].tableId = t /\ item[s].tableDep > 0
NeedsDst(s, t) == query[s].newTable = t /\ item[s].dstDep > 0
Needs(s, t)    == NeedsOwn(s, t) \/ NeedsDst(s, t)

\* Nothing is scheduled ahead of its registration, and an item waits for earlier ones.
DepsEarlier ==
    /\ \A f \in FileIds : lastScheduledFile[f].seq <= submitted
    /\ \A t \in TableIds : lastScheduledTable[t].seq <= submitted
    /\ \A s \in Seqs : /\ query[s].file # NoFile => item[s].fileDep < s
                       /\ item[s].tableDep < s

\* Only COPYTABLE has a destination, and a LOAD that takes over tables waits for none.
DepsShape ==
    \A s \in Seqs : /\ item[s].dstDep > 0 => query[s].type = "CopyTable"
                    /\ item[s].pendingTable # {} => item[s].tableDep = 0

\* What needs a table has marked it, and what needs it later waits for it.
TableChain ==
    \A r \in Seqs, t \in TableIds :
        Needs(r, t) =>
            /\ r <= lastScheduledTable[t].seq
            /\ \A s \in Seqs : r < s => /\ NeedsOwn(s, t) => r <= item[s].tableDep
                                        /\ NeedsDst(s, t) => r <= item[s].dstDep

ChainInv == DepsEarlier /\ DepsShape /\ TableChain

\* A table is marked with the new number, or keeps its mark.
LEMMA Marking ==
    ASSUME NEW marks \in [TableIds -> Mark], NEW key \in TableIds, NEW n \in Nat,
           NEW tag, \A t \in TableIds : marks[t].seq <= n
    PROVE  LET new == MarkScheduled(marks, key, n, tag)
           IN  /\ new[key].seq = n
               /\ \A t \in TableIds : t # key => new[t] = marks[t]
<1>1. \A t \in TableIds : marks[t].seq \in Nat
  BY DEF Mark
<1>2. CASE n > marks[key].seq
  BY <1>2 DEF MarkScheduled
<1>3. CASE ~(n > marks[key].seq)
  <2>1. marks[key].seq = n
    BY <1>1, <1>3
  <2> QED
    BY <1>3, <2>1 DEF MarkScheduled
<1> QED
  BY <1>2, <1>3

\* What registration notes of a new item: it waits for the last mark of its tables, and
\* marks the tables it needs.
LEMMA SubmitTables ==
    ASSUME TypeOK, DepsEarlier, NEW q \in Commands,
           \/ RegisterBarrier(q) \/ RegisterLoad(q) \/ RegisterDump(q)
           \/ RegisterDrop(q) \/ RegisterCopy(q) \/ RegisterOther(q)
    PROVE  LET n == submitted + 1
               new == item'[n]
           IN  /\ new.tableDep \in {0, lastScheduledTable[new.tableId].seq}
               /\ new.tableDep = 0 \/ lastScheduledTable'[new.tableId].seq = n
               /\ \/ new.dstDep = 0
                  \/ /\ q.type = "CopyTable"
                     /\ lastScheduledTable[q.newTable].seq <= new.dstDep
                     /\ lastScheduledTable'[q.newTable].seq = n
               /\ new.pendingTable # {} => new.tableDep = 0
               /\ \A t \in TableIds : \/ lastScheduledTable'[t] = lastScheduledTable[t]
                                      \/ lastScheduledTable'[t].seq = n
<1> DEFINE n == submitted + 1
<1>1. PICK it, place : RegisterItem(q, it, place)
  BY DEF RegisterBarrier, RegisterLoad, RegisterDump, RegisterDrop, RegisterCopy,
         RegisterOther, Enqueue
<1>2. n \in Seqs /\ n \in Nat /\ submitted \in Nat
  BY ConstantTypes, <1>1 DEF RegisterItem, TypeOK, ClientTypeOK, Seqs
<1>3. ASSUME NEW new, NEW p, RegisterItem(q, new, p) PROVE item'[n] = new
  BY <1>2, <1>3 DEF RegisterItem, TypeOK, ItemTypeOK
<1>4. /\ q.table \in TableIds /\ q.newTable \in TableIds /\ q.file \in FileIds
      /\ fileTableName[q.file] \in TableIds
  BY ConstantTypes DEF Command, TypeOK, ClientTypeOK
<1>5. /\ lastScheduledTable \in [TableIds -> Mark]
      /\ \A t \in TableIds : /\ lastScheduledTable[t].seq \in Nat
                             /\ lastScheduledTable[t].seq <= n
  BY <1>2 DEF TypeOK, SchedTypeOK, Mark, DepsEarlier
<1>6. ASSUME NEW t \in TableIds, NEW tag
      PROVE  LET new == MarkScheduled(lastScheduledTable, t, n, tag)
             IN  /\ new[t].seq = n
                 /\ \A u \in TableIds : u # t => new[u] = lastScheduledTable[u]
  BY <1>2, <1>5, Marking
<1>7. CASE RegisterBarrier(q) \/ RegisterOther(q)
  <2>1. \E t \in TableIds : \E p : RegisterItem(q, NewItem(t), p)
    BY <1>4, <1>7, ConstantTypes DEF RegisterBarrier, RegisterOther, Enqueue
  <2>2. \E t \in TableIds : item'[n] = NewItem(t)
    BY <1>3, <2>1
  <2>3. lastScheduledTable' = lastScheduledTable
    BY <1>7 DEF RegisterBarrier, RegisterOther, schedVars
  <2> QED
    BY <2>2, <2>3 DEF NewItem
<1>8. CASE RegisterLoad(q)
  <2> DEFINE tab  == fileTableName[q.file]
             prev == lastScheduledFile[q.file]
             pending == /\ prev.tag = "Dump"
                        /\ lastCompletedFile[q.file] < prev.seq
             pend == {t \in TableIds : pending /\ lastScheduledTable[t].tag = "Drop"}
             drop == /\ prev.seq > 0
                     /\ prev.tag = "Load"
                     /\ lastScheduledTable[tab].tag # "Drop"
             new == [NewItem(tab) EXCEPT
                      !.fileDep = prev.seq,
                      !.tableDep = IF pending THEN 0 ELSE lastScheduledTable[tab].seq,
                      !.pendingTable = pend,
                      !.dropped = drop]
  <2>1. /\ RegisterItem(q, new, "loadQueue")
        /\ lastScheduledTable' =
             IF pending
             THEN [t \in TableIds |-> IF t \in pend THEN [tag |-> "Nop", seq |-> n]
                                                    ELSE lastScheduledTable[t]]
             ELSE MarkScheduled(lastScheduledTable, tab, n, "Load")
    BY <1>8 DEF RegisterLoad
  <2>2. /\ new.tableDep = IF pending THEN 0 ELSE lastScheduledTable[tab].seq
        /\ new.dstDep = 0 /\ new.tableId = tab /\ new.pendingTable = pend
    BY DEF NewItem
  <2>3. item'[n] = new
    BY <1>3, <2>1
  <2>4. pend # {} => pending
    OBVIOUS
  <2> HIDE DEF new, pend, pending
  <2>5. CASE pending
    BY <1>4, <2>1, <2>2, <2>3, <2>5
  <2>6. CASE ~pending
    BY <1>4, <1>6, <2>1, <2>2, <2>3, <2>4, <2>6
  <2> QED
    BY <2>5, <2>6
<1>9. CASE RegisterDump(q) \/ RegisterDrop(q)
  <2> DEFINE seq  == lastScheduledTable[q.table].seq
             dump == [NewItem(q.table) EXCEPT !.fileDep = lastScheduledFile[q.file].seq,
                                              !.tableDep = seq]
             drop == [NewItem(q.table) EXCEPT !.tableDep = seq]
  <2>1. RegisterItem(q, dump, "queue") \/ RegisterItem(q, drop, "queue")
    BY <1>9 DEF RegisterDump, RegisterDrop, Enqueue
  <2>2. item'[n] = dump \/ item'[n] = drop
    BY <1>3, <2>1
  <2>3. /\ dump.tableDep = seq /\ dump.dstDep = 0 /\ dump.tableId = q.table
        /\ dump.pendingTable = {}
        /\ drop.tableDep = seq /\ drop.dstDep = 0 /\ drop.tableId = q.table
        /\ drop.pendingTable = {}
    BY DEF NewItem
  <2>4. \E tag : lastScheduledTable' = MarkScheduled(lastScheduledTable, q.table, n, tag)
    BY <1>9 DEF RegisterDump, RegisterDrop
  <2> HIDE DEF dump, drop
  <2> QED
    BY <1>4, <1>6, <2>2, <2>3, <2>4
<1>10. CASE RegisterCopy(q)
  <2> DEFINE src == MarkScheduled(lastScheduledTable, q.table, n, "CopyTable")
             new == [NewItem(q.table) EXCEPT
                       !.tableDep = lastScheduledTable[q.table].seq,
                       !.dstDep = src[q.newTable].seq]
  <2>1. /\ RegisterItem(q, new, "queue") /\ q.type = "CopyTable"
        /\ lastScheduledTable' = MarkScheduled(src, q.newTable, n, "CopyTable")
    BY <1>10 DEF RegisterCopy, Enqueue
  <2>2. item'[n] = new
    BY <1>3, <2>1
  <2>3. /\ new.tableDep = lastScheduledTable[q.table].seq
        /\ new.dstDep = src[q.newTable].seq
        /\ new.tableId = q.table /\ new.pendingTable = {}
    BY DEF NewItem
  <2>4. src[q.table].seq = n /\ \A u \in TableIds : u # q.table => src[u] = lastScheduledTable[u]
    BY <1>4, <1>6
  <2>5. src \in [TableIds -> Mark]
    BY <1>2, <1>4, <1>5, MarkScheduledType DEF QueryTypes, WriteTypes
  <2> HIDE DEF new, src
  <2>6. \A t \in TableIds : src[t].seq <= n
    BY <1>2, <1>5, <2>4
  <2>7. /\ lastScheduledTable'[q.newTable].seq = n
        /\ \A u \in TableIds : u # q.newTable => lastScheduledTable'[u] = src[u]
    BY <1>2, <1>4, <2>1, <2>5, <2>6, Marking
  <2>8. lastScheduledTable[q.newTable].seq <= src[q.newTable].seq
    BY <1>2, <1>4, <1>5, <2>4
  <2>9. lastScheduledTable'[q.table].seq = n
    BY <1>4, <2>4, <2>7
  <2>10. \A t \in TableIds : \/ lastScheduledTable'[t] = lastScheduledTable[t]
                             \/ lastScheduledTable'[t].seq = n
    BY <1>4, <2>4, <2>7
  <2> QED
    BY <2>1, <2>2, <2>3, <2>7, <2>8, <2>9, <2>10
<1> QED
  BY <1>7, <1>8, <1>9, <1>10

\* Registration keeps the order: the new item stands behind every mark.
LEMMA SubmitChain == TypeOK /\ Ownership /\ ChainInv /\ SubmitQuery => ChainInv'
<1> SUFFICES ASSUME TypeOK, Ownership, ChainInv, SubmitQuery PROVE ChainInv'
  OBVIOUS
<1> USE DEF ChainInv
<1> DEFINE n == submitted + 1
           new == item'[n]
<1>1. PICK q \in Commands :
         \/ RegisterBarrier(q) \/ RegisterLoad(q) \/ RegisterDump(q)
         \/ RegisterDrop(q) \/ RegisterCopy(q) \/ RegisterOther(q)
  BY DEF SubmitQuery
<1>2. /\ query' = [query EXCEPT ![n] = q]
      /\ \A s \in Seqs : s # n => item'[s] = item[s]
      /\ q.file # NoFile =>
           /\ q.file \in FileIds
           /\ new.fileDep = lastScheduledFile[q.file].seq
           /\ \E tag : lastScheduledFile' =
                 MarkScheduled(lastScheduledFile, q.file, n, tag)
      /\ q.file = NoFile => lastScheduledFile' = lastScheduledFile
  BY <1>1, SubmitFiles
<1>3. /\ new.tableDep \in {0, lastScheduledTable[new.tableId].seq}
      /\ new.tableDep = 0 \/ lastScheduledTable'[new.tableId].seq = n
      /\ \/ new.dstDep = 0
         \/ /\ q.type = "CopyTable"
            /\ lastScheduledTable[q.newTable].seq <= new.dstDep
            /\ lastScheduledTable'[q.newTable].seq = n
      /\ new.pendingTable # {} => new.tableDep = 0
      /\ \A t \in TableIds : \/ lastScheduledTable'[t] = lastScheduledTable[t]
                             \/ lastScheduledTable'[t].seq = n
  BY <1>1, SubmitTables
<1>4. /\ n \in Seqs /\ submitted' = n /\ submitted \in Nat /\ Seqs \subseteq Nat
  BY SubmitShape, ConstantTypes DEF TypeOK, ClientTypeOK, Seqs
<1>5. query'[n] = q /\ \A s \in Seqs : s # n => query'[s] = query[s]
  BY <1>2, <1>4 DEF TypeOK, ClientTypeOK
<1>6. /\ \A f \in FileIds : lastScheduledFile[f].seq \in Nat
      /\ \A t \in TableIds : lastScheduledTable[t].seq \in Nat
      /\ \A s \in Seqs : item[s].tableDep \in Nat /\ item[s].dstDep \in Nat
                         /\ item[s].tableId \in TableIds /\ query[s].newTable \in TableIds
  BY DEF TypeOK, SchedTypeOK, Mark, ItemTypeOK, Item, ClientTypeOK, Command
<1>7. /\ new.tableId \in TableIds /\ new.tableDep \in Nat /\ new.dstDep \in Nat
      /\ q.newTable \in TableIds
  <2>1. TypeOK'
    BY SubmitQueryType
  <2> QED
    BY <1>4, <2>1, ConstantTypes DEF TypeOK, ItemTypeOK, Item, Command
<1>8. DepsEarlier'
  <2>1. \A f \in FileIds : \/ lastScheduledFile'[f] = lastScheduledFile[f]
                           \/ lastScheduledFile'[f].seq = n
    <3>1. CASE q.file = NoFile
      BY <1>2, <3>1
    <3>2. CASE q.file # NoFile
      <4>1. PICK tag : lastScheduledFile' = MarkScheduled(lastScheduledFile, q.file, n, tag)
        BY <1>2, <3>2
      <4> QED
        BY <1>2, <3>2, <4>1 DEF MarkScheduled, TypeOK, SchedTypeOK
    <3> QED
      BY <3>1, <3>2
  <2>2. /\ q.file # NoFile => new.fileDep < n
        /\ new.tableDep < n
    BY <1>2, <1>3, <1>4, <1>6, <1>7 DEF DepsEarlier
  <2> QED
    BY <1>2, <1>3, <1>4, <1>5, <1>6, <2>1, <2>2 DEF DepsEarlier
<1>9. DepsShape'
  <2>1. ASSUME NEW s \in Seqs
        PROVE  /\ item'[s].dstDep > 0 => query'[s].type = "CopyTable"
               /\ item'[s].pendingTable # {} => item'[s].tableDep = 0
    <3>1. CASE s = n
      BY <1>3, <1>5, <1>7, <3>1
    <3>2. CASE s # n
      BY <1>2, <1>5, <3>2 DEF DepsShape
    <3> QED
      BY <3>1, <3>2
  <2> QED
    BY <2>1 DEF DepsShape
<1>10. TableChain'
  <2>1. \A s \in Seqs, t \in TableIds :
           s # n => (NeedsOwn(s, t)' <=> NeedsOwn(s, t)) /\ (NeedsDst(s, t)' <=> NeedsDst(s, t))
    BY <1>2, <1>5 DEF NeedsOwn, NeedsDst
  <2>2. \A s \in Seqs, t \in TableIds : Needs(s, t) => s <= submitted
    BY <1>4, <1>6 DEF TableChain, DepsEarlier
  <2> SUFFICES ASSUME NEW r \in Seqs, NEW t \in TableIds, Needs(r, t)'
               PROVE  /\ r <= lastScheduledTable'[t].seq
                      /\ \A s \in Seqs : r < s =>
                            /\ NeedsOwn(s, t)' => r <= item'[s].tableDep
                            /\ NeedsDst(s, t)' => r <= item'[s].dstDep
    BY DEF TableChain
  <2>3. CASE r = n
    <3>1. lastScheduledTable'[t].seq = n
      BY <1>3, <1>5, <2>3 DEF Needs, NeedsOwn, NeedsDst
    <3>2. ASSUME NEW s \in Seqs, r < s, Needs(s, t)' PROVE FALSE
      <4>1. s # n
        BY <1>4, <2>3, <3>2
      <4>2. Needs(s, t)
        BY <2>1, <3>2, <4>1 DEF Needs
      <4> QED
        BY <1>4, <2>2, <2>3, <3>2, <4>2
    <3> QED
      BY <1>4, <2>3, <3>1, <3>2 DEF Needs
  <2>4. CASE r # n
    <3>1. Needs(r, t) /\ r <= lastScheduledTable[t].seq /\ r <= submitted
      BY <2>1, <2>2, <2>4 DEF Needs, TableChain
    <3>2. r <= lastScheduledTable'[t].seq
      BY <1>3, <1>4, <3>1
    <3>3. ASSUME NEW s \in Seqs, r < s
          PROVE  /\ NeedsOwn(s, t)' => r <= item'[s].tableDep
                 /\ NeedsDst(s, t)' => r <= item'[s].dstDep
      <4>1. CASE s # n
        BY <1>2, <2>1, <3>1, <3>3, <4>1 DEF TableChain
      <4>2. CASE s = n
        <5>1. NeedsOwn(s, t)' => item'[s].tableDep = lastScheduledTable[t].seq
          BY <1>3, <1>7, <4>2 DEF NeedsOwn
        <5>2. NeedsDst(s, t)' => lastScheduledTable[t].seq <= item'[s].dstDep
          BY <1>3, <1>5, <1>7, <4>2 DEF NeedsDst
        <5> QED
          BY <1>4, <1>6, <1>7, <3>1, <4>2, <5>1, <5>2
      <4> QED
        BY <4>1, <4>2
    <3> QED
      BY <3>2, <3>3
  <2> QED
    BY <2>3, <2>4
<1> QED
  BY <1>8, <1>9, <1>10

\* What no step but registration changes.
DepsStay ==
    /\ query' = query /\ submitted' = submitted
    /\ lastScheduledFile' = lastScheduledFile
    /\ lastScheduledTable' = lastScheduledTable
    /\ \A s \in Seqs : /\ item'[s].fileDep = item[s].fileDep
                       /\ item'[s].tableDep = item[s].tableDep
                       /\ item'[s].dstDep = item[s].dstDep
                       /\ item'[s].pendingTable = item[s].pendingTable
                       /\ item[s].pendingTable = {} => item'[s].tableId = item[s].tableId

LEMMA QuietChain == ChainInv /\ DepsStay => ChainInv'
<1> SUFFICES ASSUME ChainInv, DepsStay PROVE ChainInv'
  OBVIOUS
<1> USE DEF ChainInv, DepsStay
<1>1. DepsEarlier' /\ DepsShape'
  BY DEF DepsEarlier, DepsShape
<1>2. \A s \in Seqs, t \in TableIds :
         (NeedsOwn(s, t)' <=> NeedsOwn(s, t)) /\ (NeedsDst(s, t)' <=> NeedsDst(s, t))
  BY DEF NeedsOwn, NeedsDst, DepsShape
<1>3. TableChain'
  BY <1>2 DEF TableChain, Needs
<1> QED
  BY <1>1, <1>3

\* fetchNext leaves the dependencies alone ...
LEMMA FetchDeps ==
    FetchStep => DepsStay /\ lastCompletedFile' = lastCompletedFile
                          /\ lastCompletedTable' = lastCompletedTable
BY DEF FetchStep, FetchNothing, FetchBarrier, LoadWaits, FetchLoad, LoadWins, TableWaits,
       FetchTable, TableWins, FetchUnchanged, clientVars, itemVars, schedVars, depVars,
       Launch, AddWait, AddWaitTable, DepsStay

\* ... and so does the callback, except that a LOAD that takes over tables learns its own.
LEMMA CompletionDeps == TypeOK /\ CompletionStep => DepsStay
<1> SUFFICES ASSUME TypeOK, NEW s \in Seqs,
                    \/ BeginCompletion(s)
                    \/ UpdateReadyFiles(s)
                    \/ \E t \in TableIds : UpdateReadyTables(t, s)
                    \/ FinishCompletion(s)
                    \/ Retire(s)
             PROVE  DepsStay
  BY DEF CompletionStep
<1>1. /\ query' = query /\ submitted' = submitted
      /\ lastScheduledFile' = lastScheduledFile
      /\ lastScheduledTable' = lastScheduledTable
  BY DEF BeginCompletion, UpdateReadyFiles, UpdateReadyTables, ReadyUnchanged,
         FinishCompletion, Retire, clientVars, schedVars
<1>2. \A q \in Seqs : item[q] \in Item
  BY DEF TypeOK, ItemTypeOK
<1>3. CASE BeginCompletion(s)
  <2>1. item' = [q \in Seqs |-> IF q \in Stale(s) THEN [item[q] EXCEPT !.dropped = TRUE]
                                ELSE item[q]]
    BY <1>3 DEF BeginCompletion
  <2> QED
    BY <1>1, <1>2, <2>1 DEF DepsStay, Item
<1>4. CASE UpdateReadyFiles(s)
  <2>1. \/ item' = item
        \/ /\ item[s].pendingTable # {}
           /\ item' = [item EXCEPT ![s].tableId = fileTableName[query[s].file]]
    BY <1>4 DEF UpdateReadyFiles, ToTableWait, ToTableQueue
  <2> QED
    BY <1>1, <1>2, <2>1 DEF DepsStay, TypeOK, ItemTypeOK, Item
<1>5. CASE (\E t \in TableIds : UpdateReadyTables(t, s)) \/ FinishCompletion(s) \/ Retire(s)
  <2>1. item' = item
    BY <1>5 DEF UpdateReadyTables, ToTableWait, ToTableQueue, FinishCompletion, Retire
  <2> QED
    BY <1>1, <2>1 DEF DepsStay
<1> QED
  BY <1>3, <1>4, <1>5

LEMMA ChainInvariant == Spec => []ChainInv
<1>1. Init => ChainInv
  <2> SUFFICES ASSUME Init PROVE ChainInv
    OBVIOUS
  <2>1. \A s \in Seqs : /\ item[s].tableDep = 0 /\ item[s].dstDep = 0
                        /\ query[s].file = NoFile
    BY DEF Init, NewItem, NoCommand
  <2>2. /\ \A f \in FileIds : lastScheduledFile[f].seq = 0
        /\ \A t \in TableIds : lastScheduledTable[t].seq = 0
        /\ submitted = 0
    BY DEF Init
  <2>3. \A s \in Seqs : 0 < s
    BY ConstantTypes DEF Seqs
  <2> QED
    BY <2>1, <2>2, <2>3 DEF ChainInv, DepsEarlier, DepsShape, TableChain, Needs,
                            NeedsOwn, NeedsDst
<1>2. SetReady \/ UNCHANGED vars => DepsStay
  BY DEF SetReady, vars, clientVars, itemVars, schedVars, DepsStay
<1>3. TypeOK /\ Ownership /\ ChainInv /\ [Next]_vars => ChainInv'
  BY <1>2, SubmitChain, QuietChain, FetchDeps, CompletionDeps DEF Next
<1> QED
  BY <1>1, <1>3, OwnershipInvariant, PTL DEF Spec

-----------------------------------------------------------------------------
(* The heaps.                                                              *)

WaitsForFile(s, f) == item[s].fileDep > lastCompletedFile[f]

WaitsForTable(s, t) ==
    \/ t = item[s].tableId /\ item[s].tableDep > lastCompletedTable[t]
    \/ t = query[s].newTable /\ item[s].dstDep > lastCompletedTable[t]

\* What waits in a heap is an item; what waits for a table needs it.
LEMMA WaitersNeed ==
    ASSUME TypeOK, NEW s \in Seqs, NEW t \in TableIds, WaitsForTable(s, t)
    PROVE  Needs(s, t)
<1>1. lastCompletedTable[t] \in Nat /\ item[s].tableDep \in Nat /\ item[s].dstDep \in Nat
  BY Numbers
<1> QED
  BY <1>1 DEF WaitsForTable, Needs, NeedsOwn, NeedsDst

\* As long as nothing completes, what waits goes on waiting, and what is put into a heap
\* has something to wait for.
LEMMA StillWaits ==
    ASSUME TypeOK, ChainInv, NoMissedWakeup, DepsStay,
           lastCompletedFile' = lastCompletedFile,
           lastCompletedTable' = lastCompletedTable,
           \A f \in FileIds : \A s \in waitingFile'[f] :
              s \in Seqs /\ (s \in waitingFile[f] \/ WaitsForFile(s, f)),
           \A t \in TableIds : \A s \in waitingTable'[t] :
              s \in Seqs /\ (s \in waitingTable[t] \/ WaitsForTable(s, t))
    PROVE  NoMissedWakeup'
<1>1. ASSUME NEW f \in FileIds, NEW s \in waitingFile'[f]
      PROVE  item'[s].fileDep > lastCompletedFile'[f]
  BY <1>1 DEF NoMissedWakeup, WaitsForFile, DepsStay
<1>2. ASSUME NEW t \in TableIds, NEW s \in waitingTable'[t]
      PROVE  \/ t = item'[s].tableId /\ item'[s].tableDep > lastCompletedTable'[t]
             \/ t = query'[s].newTable /\ item'[s].dstDep > lastCompletedTable'[t]
  <2>1. s \in Seqs /\ WaitsForTable(s, t)
    BY <1>2 DEF NoMissedWakeup, WaitsForTable
  <2>2. lastCompletedTable[t] \in Nat /\ item[s].tableDep \in Nat
    BY <2>1, Numbers
  <2>3. item[s].tableDep > lastCompletedTable[t] => item[s].pendingTable = {}
    BY <2>1, <2>2 DEF ChainInv, DepsShape
  <2> QED
    BY <2>1, <2>3 DEF WaitsForTable, DepsStay
<1> QED
  BY <1>1, <1>2 DEF NoMissedWakeup

\* addWait puts an item that Waits into the heap of what it waits for.
LEMMA AddedWaits ==
    ASSUME TypeOK, NEW x \in Seqs, Waits(x), AddWait(x)
    PROVE  /\ \A f \in FileIds : \A s \in waitingFile'[f] :
                 s \in Seqs /\ (s \in waitingFile[f] \/ WaitsForFile(s, f))
           /\ \A t \in TableIds : \A s \in waitingTable'[t] :
                 s \in Seqs /\ (s \in waitingTable[t] \/ WaitsForTable(s, t))
<1> USE DEF TypeOK, DepTypeOK
<1>1. CASE FileBlocked(x)
  BY <1>1 DEF AddWait, WaitsForFile, FileBlocked
<1>2. CASE ~FileBlocked(x) /\ SrcBlocked(x)
  BY <1>2 DEF AddWait, AddWaitTable, WaitsForTable, SrcBlocked
<1>3. CASE ~FileBlocked(x) /\ ~SrcBlocked(x)
  <2>1. DstBlocked(x)
    BY <1>3 DEF Waits
  <2> QED
    BY <1>3, <2>1 DEF AddWait, AddWaitTable, WaitsForTable, DstBlocked
<1> QED
  BY <1>1, <1>2, <1>3

LEMMA FetchWakes ==
    TypeOK /\ ChainInv /\ NoMissedWakeup /\ FetchStep => NoMissedWakeup'
<1> SUFFICES ASSUME TypeOK, ChainInv, NoMissedWakeup, FetchStep PROVE NoMissedWakeup'
  OBVIOUS
<1>1. CASE waitingFile' = waitingFile /\ waitingTable' = waitingTable
  BY <1>1, FetchDeps, StillWaits DEF TypeOK, DepTypeOK
<1>2. ASSUME NEW x \in Seqs, Waits(x), AddWait(x) PROVE NoMissedWakeup'
  BY <1>2, AddedWaits, FetchDeps, StillWaits
<1>3. CASE FetchNothing \/ FetchBarrier
  BY <1>1, <1>3 DEF FetchNothing, FetchBarrier, depVars
<1>4. ASSUME NEW t \in Eligible \cup {NoTable}, NEW passed \in SUBSET Blocked,
             \/ LoadWaits(t, passed) \/ FetchLoad(t, passed)
             \/ TableWaits(t, passed) \/ FetchTable(t, passed)
      PROVE  NoMissedWakeup'
  <2>1. CASE LoadWaits(t, passed)
    <3>1. LoadCand \in Seqs
      BY <2>1, CandidateTypes DEF LoadWaits, LoadWins, PreferLoad
    <3> QED
      BY <1>2, <2>1, <3>1 DEF LoadWaits
  <2>2. CASE TableWaits(t, passed)
    <3>1. Head(queue[t]) \in Seqs
      BY <1>4, <2>2, CandidateTypes DEF TableWaits, TableWins
    <3> QED
      BY <1>2, <2>2, <3>1 DEF TableWaits
  <2>3. CASE FetchLoad(t, passed) \/ FetchTable(t, passed)
    BY <1>1, <2>3 DEF FetchLoad, FetchTable, depVars
  <2> QED
    BY <1>4, <2>1, <2>2, <2>3
<1> QED
  BY <1>3, <1>4 DEF FetchStep

\* notifyCompleted for a file: of the operations on it that still wait, a later one waits
\* for a later number, so the first that is held back ends the release rightly.
LEMMA LeftInFile ==
    ASSUME TypeOK, Ownership, FileInv, ChainInv, NoMissedWakeup,
           NEW f \in FileIds, f # NoFile, NEW c \in Seqs, c >= lastCompletedFile[f],
           NEW s \in waitingFile[f], s \notin ReleasedFile(f, c)
    PROVE  item[s].fileDep > c
<1>1. PICK r \in waitingFile[f] : r <= s /\ item[r].fileDep > c
  BY DEF ReleasedFile, FileHeldBack
<1>2. /\ r \in Seqs /\ s \in Seqs /\ On(r, f) /\ On(s, f)
  BY <1>1 DEF Ownership, FilesOwned, OwnedWait, On
<1>3. /\ r \in Int /\ s \in Int /\ c \in Int
      /\ item[r].fileDep \in Nat /\ item[s].fileDep \in Nat
  BY <1>2, Numbers
<1>4. CASE r = s
  BY <1>1, <1>4
<1>5. CASE r # s
  <2>1. r < s /\ r <= item[s].fileDep
    BY <1>1, <1>2, <1>3, <1>5 DEF FileInv, FileChain
  <2>2. item[r].fileDep < r
    BY <1>2 DEF On, ChainInv, DepsEarlier
  <2> QED
    BY <1>1, <1>3, <2>1, <2>2
<1> QED
  BY <1>4, <1>5

\* notifyCompleted for a table, likewise.  A COPYTABLE is held back only by both of its
\* tables, a DUMP never: neither leaves anything behind that could go.
LEMMA LeftInTable ==
    ASSUME TypeOK, ChainInv, NoMissedWakeup,
           NEW t \in TableIds, NEW c \in Seqs, c >= lastCompletedTable[t],
           NEW s \in waitingTable[t], s \notin ReleasedTable(t, c)
    PROVE  \/ t = item[s].tableId /\ item[s].tableDep > c
           \/ t = query[s].newTable /\ item[s].dstDep > c
<1>1. PICK r \in waitingTable[t] : r <= s /\ TableHeldBack(r, c)
  BY DEF ReleasedTable
<1>2. r \in Seqs /\ s \in Seqs
  BY DEF TypeOK, DepTypeOK
<1>3. WaitsForTable(r, t) /\ WaitsForTable(s, t)
  BY DEF NoMissedWakeup, WaitsForTable
<1>4. /\ r \in Int /\ s \in Int /\ c \in Int /\ lastCompletedTable[t] \in Nat
      /\ item[r].tableDep \in Nat /\ item[s].tableDep \in Nat
      /\ item[r].dstDep \in Nat /\ item[s].dstDep \in Nat
  BY <1>2, Numbers
<1>5. item[r].tableDep > c /\ (query[r].type = "CopyTable" => item[r].dstDep > c)
  BY <1>1 DEF TableHeldBack
<1>6. CASE r = s
  <2>1. query[s].type # "CopyTable" => item[s].dstDep = 0
    BY <1>2, <1>4 DEF ChainInv, DepsShape
  <2> QED
    BY <1>3, <1>4, <1>5, <1>6, <2>1 DEF WaitsForTable
<1>7. CASE r # s
  <2>1. r < s /\ item[r].tableDep < r
    BY <1>1, <1>2, <1>4, <1>7 DEF ChainInv, DepsEarlier
  <2>2. Needs(r, t)
    BY <1>2, <1>3, WaitersNeed
  <2>3. /\ NeedsOwn(s, t) => r <= item[s].tableDep
        /\ NeedsDst(s, t) => r <= item[s].dstDep
    BY <1>2, <2>1, <2>2 DEF ChainInv, TableChain
  <2>4. NeedsOwn(s, t) \/ NeedsDst(s, t)
    BY <1>2, <1>3, WaitersNeed DEF Needs
  <2> QED
    BY <1>4, <1>5, <2>1, <2>3, <2>4 DEF NeedsOwn, NeedsDst
<1> QED
  BY <1>6, <1>7

-----------------------------------------------------------------------------
(* The steps.                                                              *)

\* Registration puts nothing into a heap and gives no item of a heap a new dependency.
LEMMA SubmitWakes == TypeOK /\ Ownership /\ NoMissedWakeup /\ SubmitQuery => NoMissedWakeup'
<1> SUFFICES ASSUME TypeOK, Ownership, NoMissedWakeup, SubmitQuery PROVE NoMissedWakeup'
  OBVIOUS
<1>1. PICK q \in Commands :
         \/ RegisterBarrier(q) \/ RegisterLoad(q) \/ RegisterDump(q)
         \/ RegisterDrop(q) \/ RegisterCopy(q) \/ RegisterOther(q)
  BY DEF SubmitQuery
<1>2. /\ query' = [query EXCEPT ![submitted + 1] = q]
      /\ \A s \in Seqs : s # submitted + 1 => item'[s] = item[s]
  BY <1>1, SubmitFiles
<1>3. /\ lastCompletedFile' = lastCompletedFile
      /\ lastCompletedTable' = lastCompletedTable
      /\ waitingFile' = waitingFile /\ waitingTable' = waitingTable
  BY <1>1 DEF RegisterBarrier, RegisterLoad, RegisterDump, RegisterDrop, RegisterCopy,
              RegisterOther, Enqueue, RegisterItem, depVars
<1>4. submitted + 1 \in Seqs /\ owner[submitted + 1] = "client"
  BY SubmitShape
<1>5. \A s \in Seqs : s # submitted + 1 => query'[s] = query[s]
  BY <1>2, <1>4 DEF TypeOK, ClientTypeOK
<1>6. \A f \in FileIds : \A s \in waitingFile[f] : s \in Seqs /\ s # submitted + 1
  BY <1>4 DEF Ownership, FilesOwned, OwnedWait
<1>7. \A t \in TableIds : \A s \in waitingTable[t] : s \in Seqs /\ s # submitted + 1
  BY <1>4 DEF Ownership, WaitersOwned, Spread, TypeOK, DepTypeOK
<1> QED
  BY <1>2, <1>3, <1>5, <1>6, <1>7 DEF NoMissedWakeup

\* What the start of the callback releases is gone, and what it leaves still waits.
LEMMA BeginWakes ==
    ASSUME TypeOK, Ownership, FileInv, ChainInv, NoMissedWakeup,
           NEW x \in Seqs, BeginCompletion(x)
    PROVE  NoMissedWakeup'
<1> DEFINE g     == query[x].file
           keys  == CompletedTables(x)
           files == IF g = NoFile THEN {} ELSE ReleasedFile(g, x)
<1>1. /\ lastCompletedFile' = [lastCompletedFile EXCEPT ![g] =
                                  IF g # NoFile /\ x >= @ THEN x ELSE @]
      /\ waitingFile' = [waitingFile EXCEPT ![g] = @ \ files]
      /\ lastCompletedTable' = [t \in TableIds |->
                                  IF t \in keys /\ x >= lastCompletedTable[t]
                                  THEN x ELSE lastCompletedTable[t]]
      /\ readyTable' = [t \in TableIds |-> IF t \in keys THEN ReleasedTable(t, x) ELSE {}]
      /\ waitingTable' = [t \in TableIds |-> waitingTable[t] \ readyTable'[t]]
  BY DEF BeginCompletion
<1>2. DepsStay
  BY CompletionDeps DEF CompletionStep
<1>3. g \in FileIds
  BY DEF TypeOK, ClientTypeOK, Command
<1>4. ASSUME NEW f \in FileIds, NEW s \in waitingFile'[f]
      PROVE  item'[s].fileDep > lastCompletedFile'[f]
  <2>1. /\ s \in waitingFile[f] /\ s \in Seqs
        /\ f = g /\ g # NoFile => s \notin ReleasedFile(f, x)
    BY <1>1, <1>3, <1>4 DEF TypeOK, DepTypeOK
  <2>2. lastCompletedFile'[f] = IF f = g /\ g # NoFile /\ x >= lastCompletedFile[f]
                                THEN x ELSE lastCompletedFile[f]
    BY <1>1, <1>3 DEF TypeOK, DepTypeOK
  <2>3. item[s].fileDep > lastCompletedFile'[f]
    <3>1. CASE f = g /\ g # NoFile /\ x >= lastCompletedFile[f]
      BY <2>1, <2>2, <3>1, LeftInFile
    <3>2. CASE ~(f = g /\ g # NoFile /\ x >= lastCompletedFile[f])
      BY <2>1, <2>2, <3>2 DEF NoMissedWakeup
    <3> QED
      BY <3>1, <3>2
  <2> QED
    BY <1>2, <2>1, <2>3 DEF DepsStay
<1>5. ASSUME NEW t \in TableIds, NEW s \in waitingTable'[t]
      PROVE  \/ t = item'[s].tableId /\ item'[s].tableDep > lastCompletedTable'[t]
             \/ t = query'[s].newTable /\ item'[s].dstDep > lastCompletedTable'[t]
  <2>1. /\ s \in waitingTable[t] /\ s \in Seqs
        /\ t \in keys => s \notin ReleasedTable(t, x)
    BY <1>1, <1>5 DEF TypeOK, DepTypeOK
  <2>2. lastCompletedTable'[t] = IF t \in keys /\ x >= lastCompletedTable[t]
                                 THEN x ELSE lastCompletedTable[t]
    BY <1>1
  <2> DEFINE c == lastCompletedTable'[t]
  <2>3. \/ t = item[s].tableId /\ item[s].tableDep > c
        \/ t = query[s].newTable /\ item[s].dstDep > c
    <3>1. CASE t \in keys /\ x >= lastCompletedTable[t]
      <4>1. c = x
        BY <2>2, <3>1
      <4>2. \/ t = item[s].tableId /\ item[s].tableDep > x
            \/ t = query[s].newTable /\ item[s].dstDep > x
        BY <2>1, <3>1, LeftInTable
      <4> QED
        BY <4>1, <4>2
    <3>2. CASE ~(t \in keys /\ x >= lastCompletedTable[t])
      <4>1. c = lastCompletedTable[t]
        BY <2>2, <3>2
      <4> QED
        BY <2>1, <4>1 DEF NoMissedWakeup
    <3> QED
      BY <3>1, <3>2
  <2>4. c \in Nat /\ item[s].tableDep \in Nat
    BY <2>1, <2>2, Numbers DEF Seqs
  <2>5. item[s].tableDep > c => item[s].pendingTable = {}
    BY <2>1, <2>4 DEF ChainInv, DepsShape
  <2> HIDE DEF c
  <2>6. \/ t = item'[s].tableId /\ item'[s].tableDep > c
        \/ t = query'[s].newTable /\ item'[s].dstDep > c
    BY <1>2, <2>1, <2>3, <2>5 DEF DepsStay
  <2> QED
    BY <2>6 DEF c
<1> QED
  BY <1>4, <1>5 DEF NoMissedWakeup

\* A released item goes on to a queue, or to the heap of a table it still waits for.
LEMMA ReadyWakes ==
    ASSUME TypeOK, ChainInv, NoMissedWakeup, NEW r \in Seqs,
           UpdateReadyFiles(r) \/ \E t \in TableIds : UpdateReadyTables(t, r)
    PROVE  NoMissedWakeup'
<1>1. DepsStay
  BY CompletionDeps DEF CompletionStep
<1>2. CASE depVars' = depVars
  BY <1>1, <1>2, StillWaits DEF depVars, TypeOK, DepTypeOK
<1>3. ASSUME NEW t \in TableIds, ToTableWait(t, r), WaitsForTable(r, t)
      PROVE  NoMissedWakeup'
  <2>1. /\ waitingTable' = [waitingTable EXCEPT ![t] = @ \cup {r}]
        /\ waitingFile' = waitingFile
        /\ lastCompletedFile' = lastCompletedFile
        /\ lastCompletedTable' = lastCompletedTable
    BY <1>3 DEF ToTableWait, AddWaitTable
  <2>2. \A f \in FileIds : \A s \in waitingFile'[f] : s \in Seqs /\ s \in waitingFile[f]
    BY <2>1 DEF TypeOK, DepTypeOK
  <2>3. \A u \in TableIds : \A s \in waitingTable'[u] :
           s \in Seqs /\ (s \in waitingTable[u] \/ WaitsForTable(s, u))
    BY <1>3, <2>1 DEF TypeOK, DepTypeOK
  <2> QED
    BY <1>1, <2>1, <2>2, <2>3, StillWaits
<1>4. item[r].tableId \in TableIds /\ query[r].newTable \in TableIds
  BY DEF TypeOK, ItemTypeOK, Item, ClientTypeOK, Command
<1>5. \/ depVars' = depVars
      \/ SrcBlocked(r) /\ ToTableWait(item[r].tableId, r)
      \/ DstBlocked(r) /\ ToTableWait(query[r].newTable, r)
  BY DEF UpdateReadyFiles, UpdateReadyTables, ToLoadQueue, ToTableQueue, depVars
<1> QED
  BY <1>2, <1>3, <1>4, <1>5 DEF WaitsForTable, SrcBlocked, DstBlocked

\* DependencyManager::notifyCompleted stops at the first item it has to hold back and
\* looks at nothing behind it; yet no item whose dependency is met is left in a heap,
\* where only the next completion of that file or table would find it.
THEOREM NoWakeupMissed == Spec => []NoMissedWakeup
<1>1. Init => NoMissedWakeup
  BY DEF Init, NoMissedWakeup
<1>2. TypeOK /\ Ownership /\ FileInv /\ ChainInv /\ NoMissedWakeup /\ [Next]_vars
        => NoMissedWakeup'
  <2> SUFFICES ASSUME TypeOK, Ownership, FileInv, ChainInv, NoMissedWakeup, [Next]_vars
               PROVE  NoMissedWakeup'
    OBVIOUS
  <2>1. CASE SubmitQuery
    BY <2>1, SubmitWakes
  <2>2. CASE FetchStep
    BY <2>2, FetchWakes
  <2>3. CASE SetReady \/ UNCHANGED vars
    BY <2>3 DEF SetReady, vars, clientVars, itemVars, depVars, NoMissedWakeup
  <2>4. CASE CompletionStep
    <3>1. PICK s \in Seqs : \/ BeginCompletion(s)
                            \/ UpdateReadyFiles(s)
                            \/ \E t \in TableIds : UpdateReadyTables(t, s)
                            \/ FinishCompletion(s)
                            \/ Retire(s)
      BY <2>4 DEF CompletionStep
    <3>2. CASE FinishCompletion(s) \/ Retire(s)
      BY <3>2 DEF FinishCompletion, Retire, clientVars, depVars, NoMissedWakeup
    <3> QED
      BY <3>1, <3>2, BeginWakes, ReadyWakes
  <2> QED
    BY <2>1, <2>2, <2>3, <2>4 DEF Next
<1> QED
  BY <1>1, <1>2, OwnershipInvariant, FileInvariant, ChainInvariant, PTL DEF Spec

-----------------------------------------------------------------------------
(* What creates a table.                                                   *)

\* The places of a query behind the queue of its table.
LeftPlaces == {"waitingFile", "waitingTable", "readyFile", "readyTable", "fetched",
               "completing", "notified", "completed"}

CallbackPlaces == {"completing", "notified", "completed"}

IsMade(t) == \E c \in Seqs : HasCreated(c, t)

\* Only a LOAD can be routed to another table than the one its query names.
OwnTable ==
    \A s \in Seqs :
        /\ query[s].type # "Load" =>
              item[s].tableId = query[s].table /\ item[s].pendingTable = {}
        /\ query[s].type \in BarrierTypes => query[s].table = Control

\* Only a LOAD or COPYTABLE that has been fetched registers tables.
RegistersOnly ==
    \A s \in Seqs : needRegister[s] =>
        query[s].type \in {"Load", "CopyTable"} /\ owner[s] # "client"

\* A table on the index, or parked, has been created ...
IndexedMade == \A t \in TableIds : index[t] # 0 \/ t \in waitingTables => IsMade(t)

\* ... and so has that of a query which has left the queue.
LeftMade ==
    \A s \in Seqs :
        owner[s] \in LeftPlaces /\ query[s].type \notin BarrierTypes \cup {"Load"} =>
            \E c \in Seqs : c # s /\ HasCreated(c, query[s].table)

MadeInv == OwnTable /\ RegistersOnly /\ IndexedMade /\ LeftMade

\* What a step after registration keeps.
MadeKept ==
    /\ DepsStay
    /\ \A s \in Seqs : owner[s] # "readyFile" => item'[s].tableId = item[s].tableId
    /\ \A s \in Seqs : /\ owner[s] \in CallbackPlaces => owner'[s] \in CallbackPlaces
                       /\ owner'[s] = "client" => owner[s] = "client"

LEMMA KeptFacts ==
    ASSUME MadeInv, MadeKept
    PROVE  /\ OwnTable'
           /\ \A c \in Seqs : \A t : HasCreated(c, t) => HasCreated(c, t)'
           /\ \A t : IsMade(t) => IsMade(t)'
           /\ needRegister' = needRegister => RegistersOnly'
<1>1. OwnTable'
  BY DEF MadeInv, MadeKept, DepsStay, OwnTable
<1>2. \A c \in Seqs : \A t : HasCreated(c, t) => HasCreated(c, t)'
  BY DEF MadeKept, DepsStay, HasCreated, CallbackPlaces
<1>3. \A t : IsMade(t) => IsMade(t)'
  BY <1>2 DEF IsMade
<1>4. needRegister' = needRegister => RegistersOnly'
  BY DEF MadeInv, MadeKept, DepsStay, RegistersOnly
<1> QED
  BY <1>1, <1>2, <1>3, <1>4

\* A step that takes no query out of the queue of its table.
LEMMA StillLeft ==
    ASSUME MadeInv, MadeKept,
           \A s \in Seqs : /\ owner'[s] \in LeftPlaces
                           /\ query[s].type \notin BarrierTypes \cup {"Load"}
                           => owner[s] \in LeftPlaces
    PROVE  LeftMade'
<1>1. \A c \in Seqs : \A t : HasCreated(c, t) => HasCreated(c, t)'
  BY KeptFacts
<1>2. query' = query
  BY DEF MadeKept, DepsStay
<1> QED
  BY <1>1, <1>2 DEF MadeInv, LeftMade

\* Registration neither indexes a table nor fetches a query.
LEMMA SubmitMade == TypeOK /\ Ownership /\ MadeInv /\ SubmitQuery => MadeInv'
<1> SUFFICES ASSUME TypeOK, Ownership, MadeInv, SubmitQuery PROVE MadeInv'
  OBVIOUS
<1> DEFINE n == submitted + 1
<1>1. PICK q \in Commands : \E it, place :
         /\ RegisterItem(q, it, place)
         /\ place \in {"barriers", "loadQueue", "queue"}
         /\ q.type # "Load" => it.tableId = q.table /\ it.pendingTable = {}
  <2>1. PICK q \in Commands :
           \/ RegisterBarrier(q) \/ RegisterLoad(q) \/ RegisterDump(q)
           \/ RegisterDrop(q) \/ RegisterCopy(q) \/ RegisterOther(q)
    BY DEF SubmitQuery
  <2>2. q.type \in BarrierTypes => q.table = Control
    BY CommandsAssumption
  <2> SUFFICES \E it, place :
                  /\ RegisterItem(q, it, place)
                  /\ place \in {"barriers", "loadQueue", "queue"}
                  /\ q.type # "Load" => it.tableId = q.table /\ it.pendingTable = {}
    OBVIOUS
  <2>3. CASE RegisterBarrier(q)
    BY <2>2, <2>3 DEF RegisterBarrier, NewItem
  <2>4. CASE RegisterLoad(q)
    BY <2>4 DEF RegisterLoad
  <2>5. CASE RegisterDump(q)
    <3> DEFINE d == [NewItem(q.table) EXCEPT
                       !.fileDep = lastScheduledFile[q.file].seq,
                       !.tableDep = lastScheduledTable[q.table].seq]
    <3>1. RegisterItem(q, d, "queue")
      BY <2>5 DEF RegisterDump, Enqueue
    <3>2. d.tableId = q.table /\ d.pendingTable = {}
      BY DEF NewItem
    <3> HIDE DEF d
    <3> QED
      BY <3>1, <3>2
  <2>6. CASE RegisterDrop(q)
    BY <2>6 DEF RegisterDrop, Enqueue, NewItem
  <2>7. CASE RegisterCopy(q)
    <3> DEFINE src == MarkScheduled(lastScheduledTable, q.table, n, "CopyTable")
               d   == [NewItem(q.table) EXCEPT
                         !.tableDep = lastScheduledTable[q.table].seq,
                         !.dstDep = src[q.newTable].seq]
    <3>1. RegisterItem(q, d, "queue")
      BY <2>7 DEF RegisterCopy, Enqueue
    <3>2. d.tableId = q.table /\ d.pendingTable = {}
      BY DEF NewItem
    <3> HIDE DEF d
    <3> QED
      BY <3>1, <3>2
  <2>8. CASE RegisterOther(q)
    BY <2>8 DEF RegisterOther, Enqueue, NewItem
  <2> QED
    BY <2>1, <2>3, <2>4, <2>5, <2>6, <2>7, <2>8
<1>2. PICK it, place :
         /\ RegisterItem(q, it, place)
         /\ place \in {"barriers", "loadQueue", "queue"}
         /\ q.type # "Load" => it.tableId = q.table /\ it.pendingTable = {}
  BY <1>1
<1>3. n \in Seqs /\ owner[n] = "client"
  BY <1>2, RegisterOwned
<1>4. /\ query'[n] = q /\ item'[n] = it /\ owner'[n] = place
      /\ \A s \in Seqs : s # n => /\ query'[s] = query[s] /\ item'[s] = item[s]
                                  /\ owner'[s] = owner[s]
      /\ needRegister' = needRegister /\ index' = index /\ waitingTables' = waitingTables
  BY <1>2, <1>3 DEF RegisterItem, TypeOK, ClientTypeOK, ItemTypeOK
<1>5. OwnTable'
  <2>1. q.type \in BarrierTypes => q.table = Control
    BY CommandsAssumption
  <2> QED
    BY <1>2, <1>3, <1>4, <2>1 DEF MadeInv, OwnTable
<1>6. RegistersOnly'
  BY <1>3, <1>4 DEF MadeInv, RegistersOnly
<1>7. \A c \in Seqs : \A t : HasCreated(c, t) => HasCreated(c, t)'
  BY <1>3, <1>4 DEF HasCreated
<1>8. IndexedMade'
  BY <1>4, <1>7 DEF MadeInv, IndexedMade, IsMade
<1>9. LeftMade'
  <2>1. \A s \in Seqs : owner'[s] \in LeftPlaces => s # n /\ owner[s] \in LeftPlaces
    BY <1>2, <1>4 DEF LeftPlaces
  <2> QED
    BY <1>4, <1>7, <2>1 DEF MadeInv, LeftMade
<1> QED
  BY <1>5, <1>6, <1>8, <1>9 DEF MadeInv

\* fetchNext.
LEMMA FetchKept == TypeOK /\ Ownership /\ FetchStep => MadeKept
<1> SUFFICES ASSUME TypeOK, Ownership, FetchStep PROVE MadeKept
  OBVIOUS
<1>1. item' = item
  BY DEF FetchStep, FetchNothing, FetchBarrier, LoadWaits, FetchLoad, TableWaits,
         FetchTable, Launch, itemVars
<1>2. ASSUME NEW lost, NEW x, HandsOut(x, lost), NEW s \in Seqs
      PROVE  /\ owner[s] \in CallbackPlaces => owner'[s] \in CallbackPlaces
             /\ owner'[s] = "client" => owner[s] = "client"
  BY <1>2 DEF HandsOut, Breaks, CallbackPlaces
<1>3. ASSUME NEW lost, Moves(lost), NEW s \in Seqs
      PROVE  /\ owner[s] \in CallbackPlaces => owner'[s] \in CallbackPlaces
             /\ owner'[s] = "client" => owner[s] = "client"
  BY <1>3 DEF Moves, Breaks, SameStage, QueuedPlaces, CallbackPlaces
<1> QED
  BY <1>1, <1>2, <1>3, FetchShape, FetchDeps DEF MadeKept

\* What leaves the queue of its table in fetchNext is the head of an indexed table.
LEMMA FetchLeft ==
    ASSUME TypeOK, Ownership, MadeInv, FetchStep,
           NEW s \in Seqs, owner[s] = "queue", owner'[s] # "queue"
    PROVE  IsMade(item[s].tableId)
<1>1. PICK t \in Eligible : t \in TableIds /\ \E o : Takes(t, o)
  <2>1. CASE FetchNothing
    BY <2>1 DEF FetchNothing, itemVars
  <2>2. CASE FetchBarrier
    <3>1. barriers # <<>> /\ owner' = [owner EXCEPT ![Head(barriers)] = "fetched"]
      BY <2>2 DEF FetchBarrier, BarrierMayGo
    <3>2. Head(barriers) \in Owned("barriers")
      BY <3>1, ListsTail DEF Ownership, BarriersOwned, TypeOK, LineTypeOK
    <3> QED
      BY <3>1, <3>2 DEF Owned, TypeOK, ItemTypeOK
  <2>3. ASSUME NEW t \in Eligible \cup {NoTable}, NEW passed \in SUBSET Blocked,
               LoadWaits(t, passed) \/ FetchLoad(t, passed)
        PROVE  FALSE
    <3>1. LoadCand = Head(loadQueue) /\ loadQueue # <<>>
      BY <2>3, CandidateTypes DEF LoadWaits, FetchLoad, LoadWins, PreferLoad
    <3>2. LoadCand \in Owned("loadQueue")
      BY <3>1, ListsTail DEF Ownership, LoadsOwned, TypeOK, LineTypeOK
    <3>3. \E o : owner' = [owner EXCEPT ![LoadCand] = o]
      BY <2>3 DEF LoadWaits, FetchLoad
    <3> QED
      BY <3>2, <3>3 DEF Owned, TypeOK, ItemTypeOK
  <2>4. ASSUME NEW t \in Eligible \cup {NoTable}, NEW passed \in SUBSET Blocked,
               TableWaits(t, passed) \/ FetchTable(t, passed)
        PROVE  t \in Eligible /\ t \in TableIds /\ \E o : Takes(t, o)
    BY <2>4, CandidateTypes DEF TableWaits, FetchTable, TableWins
  <2> QED
    BY <2>1, <2>2, <2>3, <2>4 DEF FetchStep
<1>2. index[t] # 0 /\ queue[t] # <<>>
  BY <1>1 DEF Eligible, Indexed
<1>3. s = Head(queue[t])
  <2>1. LoadCand = 0 \/ owner[LoadCand] = "loadQueue"
    <3> SUFFICES ASSUME LoadCand # 0 PROVE owner[LoadCand] = "loadQueue"
      OBVIOUS
    <3>1. LoadCand = Head(loadQueue) /\ loadQueue # <<>>
      BY CandidateTypes
    <3>2. LoadCand \in Owned("loadQueue")
      BY <3>1, ListsTail DEF Ownership, LoadsOwned, TypeOK, LineTypeOK
    <3> QED
      BY <3>2 DEF Owned
  <2>2. s # 0
    BY DEF Seqs
  <2>3. s # LoadCand
    BY <2>1, <2>2
  <2> QED
    BY <1>1, <2>3 DEF Takes
<1>4. s \in OwnedQueue(t)
  BY <1>1, <1>2, <1>3, ListsTail DEF Ownership, QueuesOwned, TypeOK, TableTypeOK
<1> QED
  BY <1>1, <1>2, <1>4 DEF OwnedQueue, MadeInv, IndexedMade

LEMMA FetchMade ==
    TypeOK /\ Ownership /\ RightPlace /\ MadeInv /\ FetchStep => MadeInv'
<1> SUFFICES ASSUME TypeOK, Ownership, RightPlace, MadeInv, FetchStep PROVE MadeInv'
  OBVIOUS
<1>1. MadeKept
  BY FetchKept
<1>2. query' = query
  BY <1>1 DEF MadeKept, DepsStay
<1>3. OwnTable' /\ \A t : IsMade(t) => IsMade(t)'
  BY <1>1, KeptFacts
<1>4. RegistersOnly'
  <2>1. ASSUME NEW x \in Seqs, Launch(x), owner'[x] = "fetched"
        PROVE  RegistersOnly'
    <3>1. \A s \in Seqs : needRegister'[s] =>
             query[s].type \in {"Load", "CopyTable"} /\ (s = x \/ owner[s] # "client")
      BY <2>1 DEF Launch, NeedRegister, MadeInv, RegistersOnly, TypeOK, ItemTypeOK
    <3> QED
      BY <1>1, <1>2, <2>1, <3>1 DEF RegistersOnly, MadeKept
  <2>2. CASE needRegister' = needRegister
    BY <1>1, <2>2, KeptFacts
  <2>3. CASE FetchBarrier
    <3>1. barriers # <<>> /\ Launch(Head(barriers))
          /\ owner' = [owner EXCEPT ![Head(barriers)] = "fetched"]
      BY <2>3 DEF FetchBarrier, BarrierMayGo
    <3>2. Head(barriers) \in Seqs
      BY <3>1 DEF TypeOK, LineTypeOK
    <3> QED
      BY <2>1, <3>1, <3>2 DEF TypeOK, ItemTypeOK
  <2>4. ASSUME NEW t \in Eligible \cup {NoTable}, NEW passed \in SUBSET Blocked,
               FetchLoad(t, passed)
        PROVE  RegistersOnly'
    <3>1. LoadCand \in Seqs /\ Launch(LoadCand)
          /\ owner' = [owner EXCEPT ![LoadCand] = "fetched"]
      BY <2>4, CandidateTypes DEF FetchLoad, LoadWins, PreferLoad, TypeOK, LineTypeOK
    <3> QED
      BY <2>1, <3>1 DEF TypeOK, ItemTypeOK
  <2>5. ASSUME NEW t \in Eligible \cup {NoTable}, NEW passed \in SUBSET Blocked,
               FetchTable(t, passed)
        PROVE  RegistersOnly'
    <3>1. Launch(Head(queue[t])) /\ Takes(t, "fetched") /\ Head(queue[t]) \in Seqs
      BY <2>5, CandidateTypes DEF FetchTable, TableWins, TypeOK, TableTypeOK
    <3> QED
      BY <2>1, <3>1 DEF Takes
  <2> QED
    BY <2>2, <2>3, <2>4, <2>5 DEF FetchStep, FetchNothing, LoadWaits, TableWaits, itemVars
<1>5. IndexedMade'
  <2>1. ASSUME NEW t \in TableIds, index'[t] # 0 \/ t \in waitingTables'
        PROVE  index[t] # 0 \/ t \in waitingTables
    <3>1. ASSUME NEW u, NEW passed \in SUBSET Blocked, GetFetched(u, passed)
          PROVE  index[t] # 0 \/ t \in waitingTables
      BY <2>1, <3>1 DEF GetFetched, Blocked, Indexed
    <3>2. CASE FetchBarrier
      BY <2>1, <3>2 DEF FetchBarrier, Unpark, Blocked, Indexed
    <3> QED
      BY <3>1, <3>2 DEF FetchStep, FetchNothing, LoadWaits, FetchLoad, LoadWins,
                        TableWaits, FetchTable, TableWins
  <2> QED
    BY <1>3, <2>1 DEF MadeInv, IndexedMade
<1>6. LeftMade'
  <2> SUFFICES ASSUME NEW s \in Seqs, owner'[s] \in LeftPlaces,
                      query[s].type \notin BarrierTypes \cup {"Load"}
               PROVE  \A t : t = query[s].table =>
                          \E c \in Seqs : c # s /\ HasCreated(c, t)'
    BY <1>2 DEF LeftMade
  <2>1. \A c \in Seqs : \A t : HasCreated(c, t) => HasCreated(c, t)'
    BY <1>1, KeptFacts
  <2>2. CASE owner[s] \in LeftPlaces
    BY <2>1, <2>2 DEF MadeInv, LeftMade
  <2>3. CASE owner[s] \notin LeftPlaces
    <3>1. owner[s] = "queue"
      <4>1. owner[s] \in {"barriers", "loadQueue", "queue"}
        BY <2>3, FetchShape DEF HandsOut, Moves, Breaks, SameStage, QueuedPlaces,
                                LeftPlaces
      <4> QED
        BY <4>1 DEF RightPlace, QueuedPlaces
    <3>2. IsMade(query[s].table)
      BY <3>1, FetchLeft DEF LeftPlaces, MadeInv, OwnTable
    <3>3. \A c \in Seqs : \A t : HasCreated(c, t) => c # s
      BY <3>1 DEF HasCreated
    <3> QED
      BY <2>1, <3>2, <3>3 DEF IsMade
  <2> QED
    BY <2>2, <2>3
<1> QED
  BY <1>3, <1>4, <1>5, <1>6 DEF MadeInv

\* The callback registers what its own query has created, indexes the table of a
\* released query, which has left the queue before, and its own.
LEMMA CompletionKept == TypeOK /\ Ownership /\ CompletionStep => MadeKept
<1> SUFFICES ASSUME TypeOK, Ownership, CompletionStep PROVE MadeKept
  OBVIOUS
<1>1. DepsStay
  BY CompletionDeps
<1>2. ASSUME NEW s \in Seqs
      PROVE  /\ owner[s] \in CallbackPlaces => owner'[s] \in CallbackPlaces
             /\ owner'[s] = "client" => owner[s] = "client"
  BY CompletionShape DEF Moves, Breaks, SameStage, Advances, QueuedPlaces,
                         CallbackPlaces
<1>3. \A s \in Seqs : owner[s] # "readyFile" => item'[s].tableId = item[s].tableId
  <2>1. PICK x \in Seqs : \/ BeginCompletion(x)
                          \/ UpdateReadyFiles(x)
                          \/ \E t \in TableIds : UpdateReadyTables(t, x)
                          \/ FinishCompletion(x)
                          \/ Retire(x)
    BY DEF CompletionStep
  <2>2. \A q \in Seqs : item[q] \in Item
    BY DEF TypeOK, ItemTypeOK
  <2>3. CASE BeginCompletion(x)
    BY <2>2, <2>3 DEF BeginCompletion, Item
  <2>4. CASE UpdateReadyFiles(x)
    <3>1. owner[x] = "readyFile"
      BY <2>4 DEF UpdateReadyFiles, Ownership, ReadyOwned, Owned
    <3>2. \/ item' = item
          \/ item' = [item EXCEPT ![x].tableId = fileTableName[query[x].file]]
      BY <2>4 DEF UpdateReadyFiles, ToTableWait, ToTableQueue
    <3> QED
      BY <3>1, <3>2 DEF TypeOK, ItemTypeOK
  <2>5. CASE (\E t \in TableIds : UpdateReadyTables(t, x)) \/ FinishCompletion(x)
             \/ Retire(x)
    BY <2>5 DEF UpdateReadyTables, ToTableWait, ToTableQueue, FinishCompletion, Retire
  <2> QED
    BY <2>1, <2>3, <2>4, <2>5
<1> QED
  BY <1>1, <1>2, <1>3 DEF MadeKept

LEMMA CompletionMade ==
    TypeOK /\ Ownership /\ RightPlace /\ MadeInv /\ CompletionStep => MadeInv'
<1> SUFFICES ASSUME TypeOK, Ownership, RightPlace, MadeInv, CompletionStep PROVE MadeInv'
  OBVIOUS
<1>1. MadeKept
  BY CompletionKept
<1>2. needRegister' = needRegister /\ waitingTables' = waitingTables
  BY DEF CompletionStep, BeginCompletion, UpdateReadyFiles, UpdateReadyTables,
         ReadyUnchanged, FinishCompletion, Retire, barrierVars
<1>3. /\ OwnTable' /\ RegistersOnly'
      /\ \A t : IsMade(t) => IsMade(t)'
  BY <1>1, <1>2, KeptFacts
<1>4. LeftMade'
  <2>1. \A s \in Seqs : owner'[s] \in LeftPlaces => owner[s] \in LeftPlaces \/ owner[s] \in
           {"barriers", "loadQueue"} \/ owner[s] = "queue"
    BY CompletionShape DEF Moves, Breaks, SameStage, Advances, QueuedPlaces, LeftPlaces
  <2>2. \A s \in Seqs : owner[s] \in {"barriers", "loadQueue", "queue"} =>
           owner'[s] = owner[s]
    <3>1. PICK x \in Seqs : \/ BeginCompletion(x)
                            \/ UpdateReadyFiles(x)
                            \/ \E t \in TableIds : UpdateReadyTables(t, x)
                            \/ FinishCompletion(x)
                            \/ Retire(x)
      BY DEF CompletionStep
    <3>2. CASE BeginCompletion(x)
      <4>1. /\ query[x].file \in FileIds /\ CompletedTables(x) \subseteq TableIds
        BY DEF TypeOK, ClientTypeOK, ItemTypeOK, Command, Item, CompletedTables
      <4>2. \A q \in Seqs :
               /\ q \in ReleasedFile(query[x].file, x) => owner[q] = "waitingFile"
               /\ q \in UNION {ReleasedTable(t, x) : t \in CompletedTables(x)} =>
                     owner[q] = "waitingTable"
        BY <4>1 DEF ReleasedFile, ReleasedTable, Ownership, FilesOwned, OwnedWait,
                    WaitersOwned, Spread
      <4> QED
        BY <3>2, <4>2 DEF BeginCompletion
    <3>3. CASE UpdateReadyFiles(x) \/ \E t \in TableIds : UpdateReadyTables(t, x)
      <4>1. owner[x] \in {"readyFile", "readyTable"}
        BY <3>3 DEF UpdateReadyFiles, UpdateReadyTables, Ownership, ReadyOwned, Owned,
                    Spread
      <4>2. \E o : owner' = [owner EXCEPT ![x] = o]
        BY <3>3 DEF UpdateReadyFiles, UpdateReadyTables, ToLoadQueue, ToTableQueue,
                    ToTableWait
      <4> QED
        BY <4>1, <4>2 DEF TypeOK, ItemTypeOK
    <3>4. CASE FinishCompletion(x) \/ Retire(x)
      <4>1. owner[x] \in {"completing", "notified"}
        BY <3>4 DEF FinishCompletion, Retire, Ownership, CallbackOwned, Owned
      <4>2. \E o : owner' = [owner EXCEPT ![x] = o]
        BY <3>4 DEF FinishCompletion, Retire
      <4> QED
        BY <4>1, <4>2 DEF TypeOK, ItemTypeOK
    <3> QED
      BY <3>1, <3>2, <3>3, <3>4
  <2>3. \A s \in Seqs : owner'[s] \in LeftPlaces => owner[s] \in LeftPlaces
    BY <2>1, <2>2 DEF LeftPlaces
  <2> QED
    BY <1>1, <2>3, StillLeft
<1>5. IndexedMade'
  <2> SUFFICES ASSUME NEW t \in TableIds, index'[t] # 0, index'[t] # index[t]
               PROVE  IsMade(t)'
    BY <1>2, <1>3 DEF MadeInv, IndexedMade
  <2>1. PICK x \in Seqs : \/ BeginCompletion(x)
                          \/ UpdateReadyFiles(x)
                          \/ \E u \in TableIds : UpdateReadyTables(u, x)
                          \/ FinishCompletion(x)
                          \/ Retire(x)
    BY DEF CompletionStep
  <2>2. query' = query
    BY <1>1 DEF MadeKept, DepsStay
  <2>3. item[x].tableId \in TableIds
    BY DEF TypeOK, ItemTypeOK, Item
  <2>4. ASSUME owner[x] \in LeftPlaces, query[x].type \notin BarrierTypes \cup {"Load"}
        PROVE  t = item[x].tableId => IsMade(t)'
    <3>1. IsMade(query[x].table) /\ item[x].tableId = query[x].table
      BY <2>4 DEF MadeInv, LeftMade, OwnTable, IsMade
    <3> QED
      BY <1>3, <3>1
  <2>5. CASE BeginCompletion(x)
    <3>1. t \in Registers(x) /\ owner[x] = "fetched" /\ owner'[x] = "completing"
      BY <2>5 DEF BeginCompletion
    <3>2. item'[x].tableId = item[x].tableId
      BY <1>1, <3>1 DEF MadeKept
    <3>3. query[x].type \in {"Load", "CopyTable"}
      BY <3>1 DEF Registers, MadeInv, RegistersOnly
    <3>4. CASE query[x].type = "Load"
      <4>1. HasCreated(x, t)'
        BY <2>2, <3>1, <3>2, <3>4 DEF Registers, HasCreated
      <4> QED
        BY <4>1 DEF IsMade
    <3>5. CASE query[x].type = "CopyTable" /\ t = query[x].newTable
      <4>1. HasCreated(x, t)'
        BY <2>2, <3>1, <3>5 DEF HasCreated
      <4> QED
        BY <4>1 DEF IsMade
    <3>6. CASE query[x].type = "CopyTable" /\ t = item[x].tableId
      BY <2>4, <3>1, <3>6 DEF LeftPlaces, BarrierTypes
    <3> QED
      BY <3>1, <3>3, <3>4, <3>5, <3>6 DEF Registers
  <2>6. CASE UpdateReadyFiles(x) \/ \E u \in TableIds : UpdateReadyTables(u, x)
    <3>1. owner[x] \in {"readyFile", "readyTable"}
      BY <2>6 DEF UpdateReadyFiles, UpdateReadyTables, Ownership, ReadyOwned, Owned,
                  Spread
    <3>2. query[x].type # "Load" /\ ToTableQueue(x)
      BY <2>6 DEF UpdateReadyFiles, UpdateReadyTables, ToLoadQueue, ToTableWait
    <3>3. query[x].type \notin BarrierTypes
      BY <3>1 DEF RightPlace, QueuedPlaces
    <3>4. t = item[x].tableId
      BY <3>2 DEF ToTableQueue, TypeOK, TableTypeOK
    <3> QED
      BY <2>4, <3>1, <3>2, <3>3, <3>4 DEF LeftPlaces
  <2>7. CASE FinishCompletion(x)
    <3>1. owner[x] = "completing" /\ owner'[x] = "notified"
      BY <2>7 DEF FinishCompletion, Ownership, CallbackOwned, Owned, TypeOK, ItemTypeOK
    <3>2. t = item[x].tableId /\ t # Control
      BY <2>3, <2>7 DEF FinishCompletion, IndexNext, TypeOK, TableTypeOK
    <3>3. query[x].type \notin BarrierTypes
      <4>1. "Load" \notin BarrierTypes
        BY DEF BarrierTypes
      <4> QED
        BY <3>2, <4>1 DEF MadeInv, OwnTable
    <3>4. CASE query[x].type = "Load"
      <4>1. HasCreated(x, t)
        BY <3>1, <3>2, <3>4 DEF HasCreated
      <4> QED
        BY <1>3, <4>1 DEF IsMade
    <3> QED
      BY <2>4, <3>1, <3>2, <3>3, <3>4 DEF LeftPlaces
  <2>8. CASE Retire(x)
    BY <2>8 DEF Retire, tableVars
  <2> QED
    BY <2>1, <2>5, <2>6, <2>7, <2>8
<1> QED
  BY <1>3, <1>4, <1>5 DEF MadeInv

\* A query that is queued for its table is never handed out before a LOAD or COPYTABLE
\* has been executed and has created the table: only its completion puts the table on
\* the index, and all other ways there start from a table that was on it.
THEOREM ServedOnlyWhenCreated == Spec => []ServedWhenCreated
<1>1. Init => MadeInv
  <2> SUFFICES ASSUME Init PROVE MadeInv
    OBVIOUS
  <2>1. \A s \in Seqs : /\ query[s] = NoCommand /\ item[s] = NewItem(Control)
                        /\ owner[s] = "client" /\ ~needRegister[s]
    BY DEF Init
  <2>2. \A t \in TableIds : index[t] = 0 /\ t \notin waitingTables
    BY DEF Init
  <2>3. OwnTable
    BY <2>1 DEF OwnTable, NoCommand, NewItem
  <2>4. RegistersOnly /\ LeftMade
    BY <2>1 DEF RegistersOnly, LeftMade, LeftPlaces
  <2> QED
    BY <2>2, <2>3, <2>4 DEF MadeInv, IndexedMade
<1>2. TypeOK /\ Ownership /\ LineInv /\ MadeInv /\ [Next]_vars => MadeInv'
  <2> SUFFICES ASSUME TypeOK, Ownership, RightPlace, MadeInv, [Next]_vars PROVE MadeInv'
    BY DEF LineInv
  <2>1. CASE SetReady \/ UNCHANGED vars
    <3>1. UNCHANGED <<query, itemVars, index, waitingTables>>
      BY <2>1 DEF SetReady, vars, clientVars, tableVars, barrierVars
    <3> QED
      BY <3>1 DEF itemVars, MadeInv, OwnTable, RegistersOnly, IndexedMade, LeftMade,
                  IsMade, HasCreated
  <2> QED
    BY <2>1, SubmitMade, FetchMade, CompletionMade DEF Next
<1>3. MadeInv => ServedWhenCreated
  BY DEF MadeInv, LeftMade, LeftPlaces, ServedWhenCreated, Launched
<1> QED
  BY <1>1, <1>2, <1>3, OwnershipInvariant, LineInvariant, PTL DEF Spec
=============================================================================
