--------------------------- MODULE TaskQueueOwners ---------------------------
(***************************************************************************)
(* No query is handed out twice and none is forgotten: every item of the   *)
(* scheduler is in exactly one of its structures, for every set of tables, *)
(* files and commands, every workload and every number of queries.         *)
(*                                                                         *)
(* The proof says it the other way round: each structure holds the items   *)
(* it owns, and a sequence holds each of them once.                        *)
(***************************************************************************)
EXTENDS TaskQueueProofs

\* The sequence q holds the members of S, each once.
Lists(q, S) == IsInjective(q) /\ Range(q) = S

Owned(o)      == {s \in Seqs : owner[s] = o}
OwnedQueue(t) == {s \in Seqs : owner[s] = "queue" /\ item[s].tableId = t}
OwnedWait(f)  == {s \in Seqs : owner[s] = "waitingFile" /\ query[s].file = f}

ClientOwned   == Owned("client") = {s \in Seqs : s > submitted}
BarriersOwned == Lists(barriers, Owned("barriers"))
LoadsOwned    == Lists(loadQueue, Owned("loadQueue"))
QueuesOwned   == \A t \in TableIds : Lists(queue[t], OwnedQueue(t))
FilesOwned    == \A f \in FileIds : waitingFile[f] = OwnedWait(f)

\* The items of owner o are spread over the sets of a function on the tables.
Spread(sets, o) ==
    /\ \A s \in Seqs : owner[s] = o <=> \E t \in TableIds : s \in sets[t]
    /\ \A s \in Seqs : \A t, u \in TableIds :
          s \in sets[t] /\ s \in sets[u] => t = u

WaitersOwned  == Spread(waitingTable, "waitingTable")
ReadyOwned    == readyFile = Owned("readyFile") /\ Spread(readyTable, "readyTable")
CallbackOwned == Owned("completing") = IF mu = "completing" THEN {current} ELSE {}

\* Only a callback has released items in its hands.
NothingReady == mu # "completing" =>
                    readyFile = {} /\ \A t \in TableIds : readyTable[t] = {}

Ownership == /\ ClientOwned /\ BarriersOwned /\ LoadsOwned /\ QueuesOwned
             /\ FilesOwned /\ WaitersOwned /\ ReadyOwned /\ CallbackOwned
             /\ NothingReady

\* OwnedOnce follows.
LEMMA OwnershipImplies == TypeOK /\ Ownership => OwnedOnce
<1> SUFFICES ASSUME TypeOK, Ownership PROVE OwnedOnce
  OBVIOUS
<1> USE DEF Ownership
<1>1. IsInjective(loadQueue) /\ IsInjective(barriers)
  BY DEF LoadsOwned, BarriersOwned, Lists
<1>2. \A t \in TableIds : IsInjective(queue[t])
  BY DEF QueuesOwned, Lists
<1>3. ASSUME NEW s \in Seqs
      PROVE  /\ owner[s] = "client" <=> s > submitted
             /\ owner[s] = "barriers" <=> s \in Range(barriers)
             /\ owner[s] = "loadQueue" <=> s \in Range(loadQueue)
             /\ owner[s] = "readyFile" <=> s \in readyFile
  BY DEF ClientOwned, BarriersOwned, LoadsOwned, ReadyOwned, Lists, Owned
<1>4. ASSUME NEW s \in Seqs, NEW t \in TableIds
      PROVE  (owner[s] = "queue" /\ item[s].tableId = t) <=> s \in Range(queue[t])
  BY DEF QueuesOwned, Lists, OwnedQueue
<1>5. ASSUME NEW s \in Seqs, NEW f \in FileIds
      PROVE  (owner[s] = "waitingFile" /\ query[s].file = f) <=> s \in waitingFile[f]
  BY DEF FilesOwned, OwnedWait
<1>6. ASSUME NEW s \in Seqs
      PROVE  /\ owner[s] = "waitingTable" <=> \E t \in TableIds : s \in waitingTable[t]
             /\ \A t, u \in TableIds : s \in waitingTable[t] \cap waitingTable[u] => t = u
             /\ owner[s] = "readyTable" <=> \E t \in TableIds : s \in readyTable[t]
             /\ \A t, u \in TableIds : s \in readyTable[t] \cap readyTable[u] => t = u
  BY DEF WaitersOwned, ReadyOwned, Spread
<1>7. ASSUME NEW s \in Seqs
      PROVE  owner[s] = "completing" <=> mu = "completing" /\ s = current
  BY DEF CallbackOwned, Owned, TypeOK, MuTypeOK
<1> QED
  BY <1>1, <1>2, <1>3, <1>4, <1>5, <1>6, <1>7, Zenon DEF OwnedOnce

-----------------------------------------------------------------------------
(* Sequences.                                                              *)

\* Appending an element the sequence does not hold.
LEMMA ListsAppend ==
    ASSUME NEW A, NEW q \in Seq(A), NEW S, Lists(q, S), NEW n \in A, n \notin S
    PROVE  Lists(Append(q, n), S \cup {n})
<1>1. /\ DOMAIN q = 1 .. Len(q) /\ Len(q) \in Nat
      /\ DOMAIN Append(q, n) = 1 .. Len(q) + 1
      /\ \A i \in 1 .. Len(q) : Append(q, n)[i] = q[i]
      /\ Append(q, n)[Len(q) + 1] = n
  OBVIOUS
<1>2. \A i \in 1 .. Len(q) : q[i] # n
  BY <1>1 DEF Lists, Range
<1>3. IsInjective(Append(q, n))
  BY <1>1, <1>2 DEF Lists, IsInjective
<1>4. Range(Append(q, n)) = S \cup {n}
  BY <1>1 DEF Lists, Range
<1> QED
  BY <1>3, <1>4 DEF Lists

\* Taking the front of the sequence.
LEMMA ListsTail ==
    ASSUME NEW A, NEW q \in Seq(A), q # <<>>, NEW S, Lists(q, S)
    PROVE  /\ Head(q) \in S
           /\ Lists(Tail(q), S \ {Head(q)})
<1>1. /\ DOMAIN q = 1 .. Len(q) /\ Len(q) \in Nat /\ Len(q) >= 1
      /\ Head(q) = q[1]
      /\ DOMAIN Tail(q) = 1 .. Len(q) - 1
      /\ \A i \in 1 .. Len(q) - 1 : Tail(q)[i] = q[i + 1]
  OBVIOUS
<1>2. Head(q) \in S
  BY <1>1 DEF Lists, Range
<1>3. IsInjective(Tail(q))
  BY <1>1 DEF Lists, IsInjective
<1>4. \A i \in 1 .. Len(q) - 1 : Tail(q)[i] \in S \ {Head(q)}
  BY <1>1 DEF Lists, IsInjective, Range
<1>5. ASSUME NEW x \in S \ {Head(q)}
      PROVE  \E i \in 1 .. Len(q) - 1 : Tail(q)[i] = x
  <2>1. PICK j \in 1 .. Len(q) : q[j] = x
    BY <1>1 DEF Lists, Range
  <2>2. j # 1
    BY <1>1, <2>1
  <2>3. j - 1 \in 1 .. Len(q) - 1 /\ (j - 1) + 1 = j
    BY <1>1, <2>2
  <2>4. Tail(q)[j - 1] = x
    BY <1>1, <2>1, <2>3
  <2> QED
    BY <2>3, <2>4
<1>6. Range(Tail(q)) = S \ {Head(q)}
  <2>1. Range(Tail(q)) = {Tail(q)[i] : i \in 1 .. Len(q) - 1}
    BY <1>1 DEF Range
  <2>2. Range(Tail(q)) \subseteq S \ {Head(q)}
    BY <2>1, <1>4
  <2>3. S \ {Head(q)} \subseteq Range(Tail(q))
    BY <2>1, <1>5
  <2> QED
    BY <2>2, <2>3
<1> QED
  BY <1>2, <1>3, <1>6 DEF Lists

\* Returning an element to the front.
LEMMA ListsCons ==
    ASSUME NEW A, NEW q \in Seq(A), NEW S, Lists(q, S), NEW r \in A, r \notin S
    PROVE  Lists(<<r>> \o q, S \cup {r})
<1> DEFINE p == <<r>> \o q
<1>1. /\ DOMAIN q = 1 .. Len(q) /\ Len(q) \in Nat
      /\ DOMAIN p = 1 .. Len(q) + 1
      /\ p[1] = r
      /\ \A i \in 2 .. Len(q) + 1 : p[i] = q[i - 1]
  OBVIOUS
<1>2. \A i \in 1 .. Len(q) : q[i] # r
  BY <1>1 DEF Lists, Range
<1>3. IsInjective(p)
  <2> SUFFICES ASSUME NEW i \in 1 .. Len(q) + 1, NEW j \in 1 .. Len(q) + 1,
                      p[i] = p[j], i # j
               PROVE  FALSE
    BY <1>1 DEF IsInjective
  <2>1. CASE i = 1
    BY <1>1, <1>2, <2>1
  <2>2. CASE j = 1
    BY <1>1, <1>2, <2>2
  <2>3. CASE i # 1 /\ j # 1
    <3>1. i - 1 \in DOMAIN q /\ j - 1 \in DOMAIN q /\ q[i - 1] = q[j - 1]
      BY <1>1, <2>3
    <3> QED
      BY <3>1 DEF Lists, IsInjective
  <2> QED
    BY <2>1, <2>2, <2>3
<1>4. \A i \in DOMAIN p : p[i] \in S \cup {r}
  BY <1>1 DEF Lists, Range
<1>5. ASSUME NEW x \in S
      PROVE  \E i \in DOMAIN p : p[i] = x
  <2>1. PICK j \in 1 .. Len(q) : q[j] = x
    BY <1>1 DEF Lists, Range
  <2>2. j + 1 \in 2 .. Len(q) + 1 /\ (j + 1) - 1 = j
    BY <1>1
  <2>3. p[j + 1] = x
    BY <1>1, <2>1, <2>2
  <2>4. j + 1 \in DOMAIN p
    BY <1>1, <2>2
  <2> QED
    BY <2>3, <2>4
<1>6. Range(p) = S \cup {r}
  BY <1>1, <1>4, <1>5 DEF Range
<1> QED
  BY <1>3, <1>6 DEF Lists

-----------------------------------------------------------------------------
(* Registration.                                                           *)

\* The item of a new query is new to every structure; the structures that do not
\* take it keep what they own.
LEMMA RegisterOwned ==
    ASSUME TypeOK, Ownership, NEW q \in Commands, NEW it, NEW place,
           RegisterItem(q, it, place),
           place \in {"barriers", "loadQueue", "queue"}
    PROVE  /\ submitted + 1 \in Seqs /\ owner[submitted + 1] = "client"
           /\ ClientOwned' /\ FilesOwned' /\ WaitersOwned' /\ ReadyOwned'
           /\ CallbackOwned' /\ NothingReady'
           /\ \A o \in {"barriers", "loadQueue"} :
                 Owned(o)' = IF o = place THEN Owned(o) \cup {submitted + 1} ELSE Owned(o)
           /\ \A t \in TableIds :
                 OwnedQueue(t)' = IF place = "queue" /\ t = it.tableId
                                  THEN OwnedQueue(t) \cup {submitted + 1}
                                  ELSE OwnedQueue(t)
<1> DEFINE n == submitted + 1
<1>1. n \in Seqs /\ submitted \in Nat
  BY ConstantTypes DEF RegisterItem, TypeOK, ClientTypeOK, Seqs
<1>2. owner[n] = "client"
  BY <1>1 DEF Ownership, ClientOwned, Owned
<1>3. /\ owner' = [owner EXCEPT ![n] = place] /\ item' = [item EXCEPT ![n] = it]
      /\ query' = [query EXCEPT ![n] = q] /\ submitted' = n
      /\ waitingFile' = waitingFile /\ waitingTable' = waitingTable
      /\ readyFile' = readyFile /\ readyTable' = readyTable
      /\ mu' = mu /\ current' = current
  BY DEF RegisterItem, depVars, muVars
<1>4. /\ owner'[n] = place /\ item'[n] = it /\ query'[n] = q
      /\ \A s \in Seqs : s # n => /\ owner'[s] = owner[s] /\ item'[s] = item[s]
                                  /\ query'[s] = query[s]
  BY <1>1, <1>3 DEF TypeOK, ClientTypeOK, ItemTypeOK
<1>5. ClientOwned'
  BY <1>1, <1>3, <1>4 DEF Ownership, ClientOwned, Owned, Seqs
<1>6. FilesOwned'
  BY <1>1, <1>2, <1>3, <1>4 DEF Ownership, FilesOwned, OwnedWait
<1>7. WaitersOwned'
  BY <1>2, <1>3, <1>4 DEF Ownership, WaitersOwned, Spread
<1>8. ReadyOwned'
  <2>1. readyFile' = Owned("readyFile")'
    BY <1>2, <1>3, <1>4 DEF Ownership, ReadyOwned, Owned
  <2>2. Spread(readyTable, "readyTable")'
    BY <1>2, <1>3, <1>4 DEF Ownership, ReadyOwned, Spread
  <2> QED
    BY <2>1, <2>2 DEF ReadyOwned
<1>9. CallbackOwned'
  BY <1>2, <1>3, <1>4 DEF Ownership, CallbackOwned, Owned
<1>10. NothingReady'
  BY <1>3 DEF Ownership, NothingReady
<1>11. \A o \in {"barriers", "loadQueue"} :
          Owned(o)' = IF o = place THEN Owned(o) \cup {n} ELSE Owned(o)
  BY <1>1, <1>2, <1>4 DEF Owned
<1>12. \A t \in TableIds :
          OwnedQueue(t)' = IF place = "queue" /\ t = it.tableId
                           THEN OwnedQueue(t) \cup {n} ELSE OwnedQueue(t)
  BY <1>1, <1>2, <1>4 DEF OwnedQueue
<1> QED
  BY <1>1, <1>2, <1>5, <1>6, <1>7, <1>8, <1>9, <1>10, <1>11, <1>12

\* ... and the one that takes it appends it.
LEMMA SubmitOwned == TypeOK /\ Ownership /\ SubmitQuery => Ownership'
<1> SUFFICES ASSUME TypeOK, Ownership, NEW q \in Commands,
                    \/ RegisterBarrier(q) \/ RegisterLoad(q) \/ RegisterDump(q)
                    \/ RegisterDrop(q) \/ RegisterCopy(q) \/ RegisterOther(q)
             PROVE  Ownership'
  BY DEF SubmitQuery
<1> DEFINE n == submitted + 1
<1>q. q \in Command
  BY ConstantTypes
<1>1. CASE RegisterBarrier(q)
  <2>1. /\ RegisterItem(q, NewItem(Control), "barriers")
        /\ barriers' = Append(barriers, n) /\ queue' = queue /\ loadQueue' = loadQueue
    BY <1>1 DEF RegisterBarrier
  <2>2. BarriersOwned'
    BY <2>1, RegisterOwned, ListsAppend
       DEF Ownership, BarriersOwned, Owned, TypeOK, LineTypeOK
  <2>3. LoadsOwned' /\ QueuesOwned'
    BY <2>1, RegisterOwned DEF Ownership, LoadsOwned, QueuesOwned
  <2> QED
    BY <2>1, <2>2, <2>3, RegisterOwned DEF Ownership
<1>2. CASE RegisterLoad(q)
  <2>1. PICK it : RegisterItem(q, it, "loadQueue")
    BY <1>2 DEF RegisterLoad
  <2>2. loadQueue' = Append(loadQueue, n) /\ queue' = queue /\ barriers' = barriers
    BY <1>2 DEF RegisterLoad
  <2>3. LoadsOwned'
    BY <2>1, <2>2, RegisterOwned, ListsAppend
       DEF Ownership, LoadsOwned, Owned, TypeOK, LineTypeOK
  <2>4. BarriersOwned' /\ QueuesOwned'
    BY <2>1, <2>2, RegisterOwned DEF Ownership, BarriersOwned, QueuesOwned
  <2> QED
    BY <2>1, <2>3, <2>4, RegisterOwned DEF Ownership
<1>3. ASSUME NEW it, it.tableId = q.table, Enqueue(q, it)
      PROVE  Ownership'
  <2>1. /\ RegisterItem(q, it, "queue")
        /\ queue' = [queue EXCEPT ![q.table] = Append(@, n)]
        /\ loadQueue' = loadQueue /\ barriers' = barriers
    BY <1>3 DEF Enqueue
  <2>2. QueuesOwned'
    <3> SUFFICES ASSUME NEW t \in TableIds PROVE Lists(queue'[t], OwnedQueue(t)')
      BY DEF QueuesOwned
    <3>1. queue[t] \in Seq(Seqs) /\ Lists(queue[t], OwnedQueue(t))
      BY DEF Ownership, QueuesOwned, TypeOK, TableTypeOK
    <3>2. CASE t = q.table
      <4>1. queue'[t] = Append(queue[t], n)
        BY <2>1, <3>2 DEF TypeOK, TableTypeOK
      <4>2. n \in Seqs /\ n \notin OwnedQueue(t)
            /\ OwnedQueue(t)' = OwnedQueue(t) \cup {n}
        BY <1>3, <2>1, <3>2, RegisterOwned DEF OwnedQueue
      <4> QED
        BY <3>1, <4>1, <4>2, ListsAppend
    <3>3. CASE t # q.table
      <4>1. queue'[t] = queue[t]
        BY <2>1, <3>3 DEF TypeOK, TableTypeOK
      <4>2. OwnedQueue(t)' = OwnedQueue(t)
        BY <1>3, <2>1, <3>3, RegisterOwned
      <4> QED
        BY <3>1, <4>1, <4>2
    <3> QED
      BY <3>2, <3>3
  <2>3. BarriersOwned' /\ LoadsOwned'
    BY <2>1, RegisterOwned DEF Ownership, BarriersOwned, LoadsOwned
  <2> QED
    BY <2>1, <2>2, <2>3, RegisterOwned DEF Ownership
<1>4. CASE RegisterDump(q) \/ RegisterDrop(q) \/ RegisterCopy(q) \/ RegisterOther(q)
  <2>1. \A d, e, g : /\ NewItem(q.table).tableId = q.table
                     /\ [NewItem(q.table) EXCEPT !.tableDep = e].tableId = q.table
                     /\ [NewItem(q.table) EXCEPT !.fileDep = d,
                           !.tableDep = e].tableId = q.table
                     /\ [NewItem(q.table) EXCEPT !.tableDep = e,
                           !.dstDep = g].tableId = q.table
    BY DEF NewItem
  <2>2. \/ Enqueue(q, NewItem(q.table))
        \/ \E d, e : \/ Enqueue(q, [NewItem(q.table) EXCEPT !.tableDep = e])
                     \/ Enqueue(q, [NewItem(q.table) EXCEPT !.fileDep = d,
                                     !.tableDep = e])
                     \/ Enqueue(q, [NewItem(q.table) EXCEPT !.tableDep = d,
                                     !.dstDep = e])
    BY <1>4 DEF RegisterDump, RegisterDrop, RegisterCopy, RegisterOther
  <2> QED
    BY <1>3, <2>1, <2>2
<1> QED
  BY <1>1, <1>2, <1>4

-----------------------------------------------------------------------------
(* fetchNext.                                                              *)

\* What a step of fetchNext leaves alone.
LEMMA FetchFrame ==
    ASSUME TypeOK, Ownership, CanFetch, FetchUnchanged, mu' # "completing",
           NEW M \in SUBSET Seqs,
           \A s \in M : /\ owner[s] \in {"barriers", "loadQueue", "queue"}
                       /\ owner'[s] \in {"fetched", "broken", "waitingFile", "waitingTable"},
           \A s \in Seqs \ M : owner'[s] = owner[s]
    PROVE  /\ ClientOwned' /\ ReadyOwned' /\ CallbackOwned' /\ NothingReady'
           /\ \A o \in {"barriers", "loadQueue"} : Owned(o)' = Owned(o) \ M
<1>1. /\ mu # "completing" /\ submitted' = submitted
      /\ readyFile' = readyFile /\ readyTable' = readyTable
  BY DEF CanFetch, FetchUnchanged, clientVars
<1>2. ASSUME NEW o \in {"client", "readyFile", "readyTable", "completing"},
             NEW s \in Seqs
      PROVE  owner'[s] = o <=> owner[s] = o
  OBVIOUS
<1>3. ClientOwned'
  BY <1>1, <1>2 DEF Ownership, ClientOwned, Owned
<1>4. ReadyOwned'
  <2>1. readyFile' = Owned("readyFile")'
    BY <1>1, <1>2 DEF Ownership, ReadyOwned, Owned
  <2>2. Spread(readyTable, "readyTable")'
    BY <1>1, <1>2 DEF Ownership, ReadyOwned, Spread
  <2> QED
    BY <2>1, <2>2 DEF ReadyOwned
<1>5. CallbackOwned'
  BY <1>1, <1>2 DEF Ownership, CallbackOwned, Owned
<1>6. NothingReady'
  BY <1>1 DEF Ownership, NothingReady
<1>7. \A o \in {"barriers", "loadQueue"} : Owned(o)' = Owned(o) \ M
  BY DEF Owned
<1> QED
  BY <1>3, <1>4, <1>5, <1>6, <1>7

\* A task that is handed out waits for nothing, so the heaps of the DependencyManager
\* keep what they own.
LEMMA FetchedWaits ==
    ASSUME TypeOK, Ownership, depVars' = depVars, query' = query,
           \A s \in Seqs : \A o \in {"waitingFile", "waitingTable"} :
              owner'[s] = o <=> owner[s] = o
    PROVE  FilesOwned' /\ WaitersOwned'
<1>1. waitingFile' = waitingFile /\ waitingTable' = waitingTable
  BY DEF depVars
<1>2. FilesOwned'
  BY <1>1 DEF Ownership, FilesOwned, OwnedWait
<1>3. WaitersOwned'
  BY <1>1 DEF Ownership, WaitersOwned, Spread
<1> QED
  BY <1>2, <1>3

\* addWait puts an item that waits for something into the heap of what it waits for.
LEMMA AddWaitOwned ==
    ASSUME TypeOK, Ownership, query' = query,
           NEW x \in Seqs, owner[x] \notin {"waitingFile", "waitingTable"},
           AddWait(x), owner'[x] = WaitOwner(x), Waits(x),
           \A s \in Seqs : \A o \in {"waitingFile", "waitingTable"} :
              s # x => (owner'[s] = o <=> owner[s] = o)
    PROVE  FilesOwned' /\ WaitersOwned'
<1>1. query[x].file \in FileIds /\ query[x].newTable \in TableIds
      /\ item[x].tableId \in TableIds
  BY DEF TypeOK, ClientTypeOK, ItemTypeOK, Command, Item
<1>2. CASE FileBlocked(x)
  <2>1. /\ waitingFile' = [waitingFile EXCEPT ![query[x].file] = @ \cup {x}]
        /\ waitingTable' = waitingTable /\ owner'[x] = "waitingFile"
    BY <1>2 DEF AddWait, WaitOwner
  <2>2. FilesOwned'
    BY <1>1, <2>1 DEF Ownership, FilesOwned, OwnedWait, TypeOK, DepTypeOK
  <2>3. WaitersOwned'
    BY <2>1 DEF Ownership, WaitersOwned, Spread
  <2> QED
    BY <2>2, <2>3
<1>3. CASE ~FileBlocked(x)
  <2>1. PICK t \in TableIds : AddWaitTable(t, x)
    BY <1>1, <1>3 DEF AddWait
  <2>2. /\ waitingTable' = [waitingTable EXCEPT ![t] = @ \cup {x}]
        /\ waitingFile' = waitingFile /\ owner'[x] = "waitingTable"
    BY <1>3, <2>1 DEF AddWaitTable, WaitOwner
  <2>3. FilesOwned'
    BY <2>2 DEF Ownership, FilesOwned, OwnedWait
  <2>4. \A u \in TableIds : waitingTable'[u] = IF u = t THEN waitingTable[u] \cup {x}
                                               ELSE waitingTable[u]
    BY <2>2 DEF TypeOK, DepTypeOK
  <2>5. \A u \in TableIds : x \notin waitingTable[u]
    BY DEF Ownership, WaitersOwned, Spread
  <2>6. WaitersOwned'
    BY <2>2, <2>4, <2>5 DEF Ownership, WaitersOwned, Spread
  <2> QED
    BY <2>3, <2>6
<1> QED
  BY <1>2, <1>3

\* The callers of getFetched keep what the index keeps; the owners do not change.
LEMMA FetchNothingOwned == TypeOK /\ Ownership /\ FetchNothing => Ownership'
<1> SUFFICES ASSUME TypeOK, Ownership, FetchNothing PROVE Ownership'
  OBVIOUS
<1>1. /\ CanFetch /\ FetchUnchanged /\ mu' = "free" /\ owner' = owner /\ item' = item
      /\ queue' = queue /\ loadQueue' = loadQueue /\ barriers' = barriers
      /\ depVars' = depVars /\ query' = query
  BY DEF FetchNothing, FetchUnchanged, clientVars, itemVars
<1>2. /\ ClientOwned' /\ ReadyOwned' /\ CallbackOwned' /\ NothingReady'
      /\ \A o \in {"barriers", "loadQueue"} : Owned(o)' = Owned(o)
  <2>1. \A o \in {"barriers", "loadQueue"} : Owned(o) \ {} = Owned(o)
    OBVIOUS
  <2> QED
    BY <1>1, <2>1, FetchFrame, {} \in SUBSET Seqs
<1>3. FilesOwned' /\ WaitersOwned'
  BY <1>1, FetchedWaits
<1>4. BarriersOwned' /\ LoadsOwned'
  BY <1>1, <1>2 DEF Ownership, BarriersOwned, LoadsOwned
<1>5. QueuesOwned'
  BY <1>1 DEF Ownership, QueuesOwned, OwnedQueue
<1> QED
  BY <1>2, <1>3, <1>4, <1>5 DEF Ownership

\* The barrier at the head of the line is handed out.
LEMMA FetchBarrierOwned == TypeOK /\ Ownership /\ FetchBarrier => Ownership'
<1> SUFFICES ASSUME TypeOK, Ownership, FetchBarrier PROVE Ownership'
  OBVIOUS
<1> DEFINE b == Head(barriers)
<1>1. /\ CanFetch /\ FetchUnchanged /\ mu' = "free" /\ item' = item
      /\ queue' = queue /\ loadQueue' = loadQueue /\ barriers' = Tail(barriers)
      /\ depVars' = depVars /\ query' = query /\ barriers # <<>>
      /\ owner' = [owner EXCEPT ![b] = "fetched"]
  BY DEF FetchBarrier, FetchUnchanged, clientVars, Launch, BarrierMayGo
<1>2. b \in Owned("barriers") /\ Lists(Tail(barriers), Owned("barriers") \ {b})
  BY <1>1, ListsTail DEF Ownership, BarriersOwned, TypeOK, LineTypeOK
<1>3. /\ b \in Seqs /\ owner[b] = "barriers" /\ owner'[b] = "fetched"
      /\ \A s \in Seqs : s # b => owner'[s] = owner[s]
  BY <1>1, <1>2 DEF Owned, TypeOK, ItemTypeOK
<1>4. /\ ClientOwned' /\ ReadyOwned' /\ CallbackOwned' /\ NothingReady'
      /\ \A o \in {"barriers", "loadQueue"} : Owned(o)' = Owned(o) \ {b}
  <2>1. {b} \in SUBSET Seqs
    BY <1>3
  <2> QED
    BY <1>1, <1>3, <2>1, FetchFrame
<1>5. FilesOwned' /\ WaitersOwned'
  BY <1>1, <1>3, FetchedWaits
<1>6. BarriersOwned'
  BY <1>1, <1>2, <1>4 DEF BarriersOwned
<1>7. LoadsOwned'
  <2>1. Owned("loadQueue") \ {b} = Owned("loadQueue")
    BY <1>3 DEF Owned
  <2> QED
    BY <1>1, <1>4, <2>1 DEF Ownership, LoadsOwned
<1>8. QueuesOwned'
  <2>1. \A t \in TableIds : OwnedQueue(t)' = OwnedQueue(t)
    BY <1>1, <1>3 DEF OwnedQueue
  <2> QED
    BY <1>1, <2>1 DEF Ownership, QueuesOwned
<1> QED
  BY <1>4, <1>5, <1>6, <1>7, <1>8 DEF Ownership

\* The front of the load queue is handed out or waits.
LEMMA LoadWinsOwned ==
    ASSUME TypeOK, Ownership, NEW t \in Eligible \cup {NoTable},
           NEW passed \in SUBSET Blocked,
           LoadWaits(t, passed) \/ FetchLoad(t, passed)
    PROVE  Ownership'
<1> DEFINE x == Head(loadQueue)
<1>1. LoadWins(t, passed) /\ LoadCand = x /\ loadQueue # <<>>
  BY CandidateTypes DEF LoadWaits, FetchLoad, LoadWins, PreferLoad
<1>2. /\ CanFetch /\ FetchUnchanged /\ item' = item /\ query' = query
      /\ queue' = queue /\ loadQueue' = Tail(loadQueue) /\ barriers' = barriers
  BY <1>1 DEF LoadWins, LoadWaits, FetchLoad, Launch, FetchUnchanged, clientVars
<1>3. x \in Owned("loadQueue") /\ Lists(Tail(loadQueue), Owned("loadQueue") \ {x})
  BY <1>1, ListsTail DEF Ownership, LoadsOwned, TypeOK, LineTypeOK
<1>4. /\ mu' # "completing"
      /\ owner' = [owner EXCEPT ![x] = IF Waits(x) THEN WaitOwner(x) ELSE "fetched"]
  BY <1>1 DEF LoadWaits, FetchLoad, Launch
<1>5. WaitOwner(x) \in {"waitingFile", "waitingTable"}
  BY DEF WaitOwner
<1>6. /\ x \in Seqs /\ owner[x] = "loadQueue"
      /\ owner'[x] = IF Waits(x) THEN WaitOwner(x) ELSE "fetched"
      /\ \A s \in Seqs : s # x => owner'[s] = owner[s]
  BY <1>3, <1>4 DEF Owned, TypeOK, ItemTypeOK
<1>7. /\ ClientOwned' /\ ReadyOwned' /\ CallbackOwned' /\ NothingReady'
      /\ \A o \in {"barriers", "loadQueue"} : Owned(o)' = Owned(o) \ {x}
  <2>1. {x} \in SUBSET Seqs
    BY <1>6
  <2>2. \A s \in {x} : /\ owner[s] \in {"barriers", "loadQueue", "queue"}
                       /\ owner'[s] \in {"fetched", "broken", "waitingFile", "waitingTable"}
    BY <1>5, <1>6
  <2>3. \A s \in Seqs \ {x} : owner'[s] = owner[s]
    BY <1>6
  <2> QED
    BY <1>2, <1>4, <2>1, <2>2, <2>3, FetchFrame
<1>8. FilesOwned' /\ WaitersOwned'
  <2>1. CASE Waits(x)
    <3>1. AddWait(x) /\ owner'[x] = WaitOwner(x)
      BY <1>1, <1>6, <2>1 DEF LoadWaits, FetchLoad
    <3> QED
      BY <1>2, <1>6, <2>1, <3>1, AddWaitOwned
  <2>2. CASE ~Waits(x)
    <3>1. depVars' = depVars
      BY <1>1, <2>2 DEF LoadWaits, FetchLoad
    <3> QED
      BY <1>2, <1>6, <2>2, <3>1, FetchedWaits
  <2> QED
    BY <2>1, <2>2
<1>9. LoadsOwned'
  BY <1>2, <1>3, <1>7 DEF LoadsOwned
<1>10. BarriersOwned'
  <2>1. Owned("barriers") \ {x} = Owned("barriers")
    BY <1>6 DEF Owned
  <2> QED
    BY <1>2, <1>7, <2>1 DEF Ownership, BarriersOwned
<1>11. QueuesOwned'
  <2>1. \A u \in TableIds : OwnedQueue(u)' = OwnedQueue(u)
    BY <1>2, <1>5, <1>6 DEF OwnedQueue
  <2> QED
    BY <1>2, <2>1 DEF Ownership, QueuesOwned
<1> QED
  BY <1>7, <1>8, <1>9, <1>10, <1>11 DEF Ownership

\* The front of a table's queue is handed out or waits; a load candidate is lost.
LEMMA TableWinsOwned ==
    ASSUME TypeOK, Ownership, NEW t \in Eligible \cup {NoTable},
           NEW passed \in SUBSET Blocked,
           TableWaits(t, passed) \/ FetchTable(t, passed)
    PROVE  Ownership'
<1> DEFINE x == Head(queue[t])
           lost == IF LoadCand = 0 THEN {} ELSE {LoadCand}
<1>1. TableWins(t, passed)
  BY DEF TableWaits, FetchTable
<1>2. t \in TableIds /\ queue[t] # <<>> /\ queue[t] \in Seq(Seqs)
  BY <1>1, CandidateTypes DEF TableWins, TypeOK, TableTypeOK
<1>3. /\ CanFetch /\ FetchUnchanged /\ item' = item /\ query' = query
      /\ queue' = [queue EXCEPT ![t] = Tail(@)] /\ barriers' = barriers
      /\ loadQueue' = IF LoadCand = 0 THEN loadQueue ELSE Tail(loadQueue)
  BY <1>1 DEF TableWins, PopFront, TableWaits, FetchTable, Launch, FetchUnchanged,
              clientVars
<1>4. x \in OwnedQueue(t) /\ Lists(Tail(queue[t]), OwnedQueue(t) \ {x})
  BY <1>2, ListsTail DEF Ownership, QueuesOwned
<1>5. /\ lost \subseteq Owned("loadQueue")
      /\ Lists(loadQueue', Owned("loadQueue") \ lost)
  <2>1. CASE LoadCand = 0
    <3>1. Owned("loadQueue") \ lost = Owned("loadQueue")
      BY <2>1
    <3> QED
      BY <1>3, <2>1, <3>1 DEF Ownership, LoadsOwned
  <2>2. CASE LoadCand # 0
    <3>1. LoadCand = Head(loadQueue) /\ loadQueue # <<>>
      BY <2>2, CandidateTypes
    <3> QED
      BY <1>3, <2>2, <3>1, ListsTail DEF Ownership, LoadsOwned, TypeOK, LineTypeOK
  <2> QED
    BY <2>1, <2>2
<1>6. x \in Seqs /\ owner[x] = "queue" /\ item[x].tableId = t
  BY <1>4 DEF OwnedQueue
<1>7. \A s \in lost : s \in Seqs /\ owner[s] = "loadQueue"
  BY <1>5 DEF Owned
<1>8. \A s \in Seqs : s = LoadCand <=> s \in lost
  <2>1. 0 \notin Seqs
    BY DEF Seqs
  <2> QED
    BY <2>1
<1>9. /\ owner'[x] = IF Waits(x) THEN WaitOwner(x) ELSE "fetched"
      /\ \A s \in lost : owner'[s] = "broken"
      /\ \A s \in Seqs \ ({x} \cup lost) : owner'[s] = owner[s]
      /\ mu' # "completing"
  BY <1>6, <1>7, <1>8 DEF TableWaits, FetchTable, Takes, Launch
<1>10. WaitOwner(x) \in {"waitingFile", "waitingTable"}
  BY DEF WaitOwner
<1>11. /\ ClientOwned' /\ ReadyOwned' /\ CallbackOwned' /\ NothingReady'
       /\ \A o \in {"barriers", "loadQueue"} : Owned(o)' = Owned(o) \ ({x} \cup lost)
  <2>1. {x} \cup lost \in SUBSET Seqs
    BY <1>6, <1>7
  <2>2. \A s \in {x} \cup lost :
           /\ owner[s] \in {"barriers", "loadQueue", "queue"}
           /\ owner'[s] \in {"fetched", "broken", "waitingFile", "waitingTable"}
    BY <1>6, <1>7, <1>9, <1>10
  <2> HIDE DEF lost, x
  <2> QED
    BY <1>3, <1>9, <2>1, <2>2, FetchFrame
<1>12. FilesOwned' /\ WaitersOwned'
  <2>1. \A s \in Seqs : \A o \in {"waitingFile", "waitingTable"} :
           s # x => (owner'[s] = o <=> owner[s] = o)
    BY <1>7, <1>9
  <2>2. CASE Waits(x)
    <3>1. AddWait(x) /\ owner'[x] = WaitOwner(x)
      BY <1>9, <2>2 DEF TableWaits, FetchTable
    <3> QED
      BY <1>3, <1>6, <2>1, <2>2, <3>1, AddWaitOwned
  <2>3. CASE ~Waits(x)
    <3>1. depVars' = depVars
      BY <2>3 DEF TableWaits, FetchTable
    <3> QED
      BY <1>3, <1>6, <1>9, <2>1, <2>3, <3>1, FetchedWaits
  <2> QED
    BY <2>2, <2>3
<1>13. LoadsOwned'
  <2>1. Owned("loadQueue") \ ({x} \cup lost) = Owned("loadQueue") \ lost
    BY <1>6 DEF Owned
  <2> QED
    BY <1>5, <1>11, <2>1 DEF LoadsOwned
<1>14. BarriersOwned'
  <2>1. Owned("barriers") \ ({x} \cup lost) = Owned("barriers")
    BY <1>6, <1>7 DEF Owned
  <2> QED
    BY <1>3, <1>11, <2>1 DEF Ownership, BarriersOwned
<1>15. QueuesOwned'
  <2> SUFFICES ASSUME NEW u \in TableIds PROVE Lists(queue'[u], OwnedQueue(u)')
    BY DEF QueuesOwned
  <2>1. OwnedQueue(u)' = OwnedQueue(u) \ {x}
    BY <1>3, <1>6, <1>7, <1>9, <1>10 DEF OwnedQueue
  <2>2. CASE u = t
    <3>1. queue'[u] = Tail(queue[t])
      BY <1>3, <2>2 DEF TypeOK, TableTypeOK
    <3> QED
      BY <1>4, <2>1, <2>2, <3>1
  <2>3. CASE u # t
    <3>1. queue'[u] = queue[u]
      BY <1>3, <2>3 DEF TypeOK, TableTypeOK
    <3>2. OwnedQueue(u) \ {x} = OwnedQueue(u)
      BY <1>6, <2>3 DEF OwnedQueue
    <3> QED
      BY <2>1, <3>1, <3>2 DEF Ownership, QueuesOwned
  <2> QED
    BY <2>2, <2>3
<1> QED
  BY <1>11, <1>12, <1>13, <1>14, <1>15 DEF Ownership

\* Whatever fetchNext does.
LEMMA FetchOwned == TypeOK /\ Ownership /\ FetchStep => Ownership'
BY FetchNothingOwned, FetchBarrierOwned, LoadWinsOwned, TableWinsOwned DEF FetchStep

-----------------------------------------------------------------------------
(* The callback.                                                           *)

\* While no callback holds mu, nothing is released and not yet placed.
LEMMA NothingReadyYet ==
    ASSUME Ownership, mu = "free", NEW q \in Seqs
    PROVE  owner[q] \notin {"readyFile", "readyTable"}
BY DEF Ownership, NothingReady, ReadyOwned, Owned, Spread

\* The heaps give up what the completion releases, to the callback.
LEMMA BeginOwned ==
    ASSUME TypeOK, Ownership, NEW s \in Seqs, BeginCompletion(s)
    PROVE  Ownership'
<1> DEFINE f     == query[s].file
           files == IF f = NoFile THEN {} ELSE ReleasedFile(f, s)
           keys  == CompletedTables(s)
           freed == UNION {ReleasedTable(t, s) : t \in keys}
<1>1. /\ f \in FileIds /\ query[s].newTable \in TableIds
      /\ item[s].tableId \in TableIds /\ item[s].pendingTable \subseteq TableIds
  BY DEF TypeOK, ClientTypeOK, ItemTypeOK, Command, Item
<1>2. keys \subseteq TableIds
  BY <1>1 DEF CompletedTables
<1>3. /\ mu = "free" /\ owner[s] = "fetched" /\ mu' = "completing" /\ current' = s
      /\ query' = query /\ submitted' = submitted
      /\ queue' = queue /\ loadQueue' = loadQueue /\ barriers' = barriers
      /\ readyFile' = files
      /\ waitingFile' = [waitingFile EXCEPT ![f] = @ \ files]
      /\ readyTable' = [t \in TableIds |-> IF t \in keys THEN ReleasedTable(t, s)
                                           ELSE {}]
      /\ waitingTable' = [t \in TableIds |-> waitingTable[t] \ readyTable'[t]]
  BY DEF BeginCompletion, clientVars, loadVars, barrierVars
<1>4. \A q \in Seqs : owner'[q] = IF q = s THEN "completing"
                                  ELSE IF q \in files THEN "readyFile"
                                  ELSE IF q \in freed THEN "readyTable"
                                  ELSE owner[q]
  BY DEF BeginCompletion
<1>5. \A q \in Seqs : item'[q].tableId = item[q].tableId
  BY DEF BeginCompletion, TypeOK, ItemTypeOK, Item
<1>6. files \subseteq OwnedWait(f)
  BY <1>1 DEF ReleasedFile, Ownership, FilesOwned
<1>7. \A q \in files : q \in Seqs /\ owner[q] = "waitingFile" /\ query[q].file = f
  BY <1>6 DEF OwnedWait
<1>8. /\ \A t \in keys : ReleasedTable(t, s) \subseteq waitingTable[t]
      /\ \A q \in freed : \E t \in keys : q \in ReleasedTable(t, s)
      /\ \A t \in keys : ReleasedTable(t, s) \subseteq freed
  BY DEF ReleasedTable
<1>9. \A q \in freed : q \in Seqs /\ owner[q] = "waitingTable"
  <2>1. \A t \in TableIds : waitingTable[t] \subseteq Seqs
    BY DEF TypeOK, DepTypeOK
  <2> QED
    BY <1>2, <1>8, <2>1 DEF Ownership, WaitersOwned, Spread
<1> HIDE DEF files, freed
<1>10. ASSUME NEW q \in Seqs,
              NEW o \in {"client", "barriers", "loadQueue", "queue"}
       PROVE  owner'[q] = o <=> owner[q] = o
  BY <1>3, <1>4, <1>7, <1>9
<1>11. ClientOwned' /\ BarriersOwned' /\ LoadsOwned'
  BY <1>3, <1>10 DEF Ownership, ClientOwned, BarriersOwned, LoadsOwned, Owned
<1>12. QueuesOwned'
  <2>1. \A t \in TableIds : OwnedQueue(t)' = OwnedQueue(t)
    BY <1>5, <1>10 DEF OwnedQueue
  <2> QED
    BY <1>3, <2>1 DEF Ownership, QueuesOwned
<1>13. FilesOwned'
  <2> SUFFICES ASSUME NEW g \in FileIds PROVE waitingFile'[g] = OwnedWait(g)'
    BY DEF FilesOwned
  <2>1. waitingFile'[g] = IF g = f THEN waitingFile[g] \ files ELSE waitingFile[g]
    BY <1>1, <1>3 DEF TypeOK, DepTypeOK
  <2>2. OwnedWait(g)' = OwnedWait(g) \ files
    BY <1>3, <1>4, <1>9 DEF OwnedWait
  <2>3. g # f => OwnedWait(g) \ files = OwnedWait(g)
    BY <1>7 DEF OwnedWait
  <2> QED
    BY <2>1, <2>2, <2>3 DEF Ownership, FilesOwned
<1>14. \A q \in Seqs : owner'[q] = "waitingTable" <=> owner[q] = "waitingTable" /\ q \notin freed
  BY <1>3, <1>4, <1>7, <1>9
<1>15. \A q \in Seqs : owner'[q] = "readyTable" <=> q \in freed
  BY <1>3, <1>4, <1>7, <1>9, NothingReadyYet
<1>16. \A t \in TableIds : /\ readyTable'[t] = IF t \in keys THEN ReleasedTable(t, s)
                                               ELSE {}
                           /\ waitingTable'[t] = waitingTable[t] \ readyTable'[t]
  BY <1>3
<1>17. WaitersOwned'
  <2>1. ASSUME NEW q \in Seqs, NEW t \in TableIds, q \in waitingTable[t]
        PROVE  q \in freed <=> q \in readyTable'[t]
    BY <1>2, <1>8, <1>16, <2>1 DEF Ownership, WaitersOwned, Spread
  <2> QED
    BY <1>14, <1>16, <2>1 DEF Ownership, WaitersOwned, Spread
<1>18. ReadyOwned'
  <2>1. readyFile' = Owned("readyFile")'
    BY <1>3, <1>4, <1>7, <1>9, NothingReadyYet DEF Owned
  <2>2. Spread(readyTable, "readyTable")'
    BY <1>2, <1>8, <1>15, <1>16 DEF Ownership, WaitersOwned, Spread
  <2> QED
    BY <2>1, <2>2 DEF ReadyOwned
<1>19. CallbackOwned'
  <2>1. \A q \in Seqs : owner[q] # "completing"
    BY <1>3 DEF Ownership, CallbackOwned, Owned
  <2> QED
    BY <1>3, <1>4, <2>1 DEF CallbackOwned, Owned
<1>20. NothingReady'
  BY <1>3 DEF NothingReady
<1> QED
  BY <1>11, <1>12, <1>13, <1>17, <1>18, <1>19, <1>20 DEF Ownership

\* A released item finds its new place; what the callback still holds is up to the
\* two callers.
LEMMA ReleaseOwned ==
    ASSUME TypeOK, Ownership, NEW r \in Seqs, owner[r] \in {"readyFile", "readyTable"},
           mu = "completing", ReadyUnchanged,
           \A s \in Seqs : s # r => item'[s].tableId = item[s].tableId,
           \/ ToLoadQueue(r) \/ ToTableQueue(r)
           \/ \E t \in TableIds : ToTableWait(t, r)
    PROVE  /\ ClientOwned' /\ BarriersOwned' /\ LoadsOwned' /\ QueuesOwned'
           /\ FilesOwned' /\ WaitersOwned' /\ CallbackOwned' /\ NothingReady'
           /\ owner'[r] \in {"loadQueue", "queue", "waitingTable"}
           /\ \A s \in Seqs : s # r => owner'[s] = owner[s]
<1>1. /\ query' = query /\ submitted' = submitted /\ barriers' = barriers
      /\ mu' = mu /\ current' = current
  BY DEF ReadyUnchanged, clientVars, barrierVars
<1>2. /\ owner'[r] \in {"loadQueue", "queue", "waitingTable"}
      /\ \A s \in Seqs : s # r => owner'[s] = owner[s]
  BY DEF ToLoadQueue, ToTableQueue, ToTableWait, TypeOK, ItemTypeOK
<1>3. ClientOwned' /\ BarriersOwned'
  <2>1. ClientOwned'
    BY <1>1, <1>2 DEF Ownership, ClientOwned, Owned
  <2>2. Owned("barriers")' = Owned("barriers")
    BY <1>2 DEF Owned
  <2> QED
    BY <1>1, <2>1, <2>2 DEF Ownership, BarriersOwned
<1>4. CallbackOwned'
  BY <1>1, <1>2 DEF Ownership, CallbackOwned, Owned
<1>5. NothingReady'
  BY <1>1 DEF NothingReady
<1>6. FilesOwned'
  <2>1. waitingFile' = waitingFile
    BY DEF ToLoadQueue, ToTableQueue, ToTableWait, AddWaitTable, depVars
  <2> QED
    BY <1>1, <1>2, <2>1 DEF Ownership, FilesOwned, OwnedWait
<1>7. LoadsOwned' /\ QueuesOwned' /\ WaitersOwned'
  <2>1. CASE ToLoadQueue(r)
    <3>1. /\ loadQueue' = <<r>> \o loadQueue /\ owner'[r] = "loadQueue"
          /\ queue' = queue /\ waitingTable' = waitingTable
      BY <2>1 DEF ToLoadQueue, TypeOK, ItemTypeOK, depVars
    <3>2. Owned("loadQueue")' = Owned("loadQueue") \cup {r} /\ r \notin Owned("loadQueue")
      BY <1>2, <3>1 DEF Owned
    <3>3. LoadsOwned'
      BY <3>1, <3>2, ListsCons DEF Ownership, LoadsOwned, TypeOK, LineTypeOK
    <3>4. \A t \in TableIds : OwnedQueue(t)' = OwnedQueue(t)
      BY <1>2, <3>1 DEF OwnedQueue
    <3>5. QueuesOwned'
      BY <3>1, <3>4 DEF Ownership, QueuesOwned
    <3>6. WaitersOwned'
      BY <1>2, <3>1 DEF Ownership, WaitersOwned, Spread
    <3> QED
      BY <3>3, <3>5, <3>6
  <2>2. CASE ToTableQueue(r)
    <3> DEFINE tab == item[r].tableId
    <3>1. /\ loadQueue' = loadQueue /\ owner'[r] = "queue" /\ item' = item
          /\ queue' = [queue EXCEPT ![tab] = <<r>> \o @] /\ waitingTable' = waitingTable
      BY <2>2 DEF ToTableQueue, TypeOK, ItemTypeOK, depVars
    <3>2. Owned("loadQueue")' = Owned("loadQueue")
      BY <1>2, <3>1 DEF Owned
    <3>3. LoadsOwned'
      BY <3>1, <3>2 DEF Ownership, LoadsOwned
    <3>4. ASSUME NEW t \in TableIds PROVE Lists(queue'[t], OwnedQueue(t)')
      <4>1. queue[t] \in Seq(Seqs) /\ Lists(queue[t], OwnedQueue(t))
        BY DEF Ownership, QueuesOwned, TypeOK, TableTypeOK
      <4>2. CASE t = tab
        <5>1. queue'[t] = <<r>> \o queue[t]
          BY <3>1, <4>2 DEF TypeOK, TableTypeOK
        <5>2. OwnedQueue(t)' = OwnedQueue(t) \cup {r} /\ r \notin OwnedQueue(t)
          BY <1>2, <3>1, <4>2 DEF OwnedQueue
        <5> QED
          BY <4>1, <5>1, <5>2, ListsCons
      <4>3. CASE t # tab
        <5>1. queue'[t] = queue[t]
          BY <3>1, <4>3 DEF TypeOK, TableTypeOK
        <5>2. OwnedQueue(t)' = OwnedQueue(t)
          BY <1>2, <3>1, <4>3 DEF OwnedQueue
        <5> QED
          BY <4>1, <5>1, <5>2
      <4> QED
        BY <4>2, <4>3
    <3>5. WaitersOwned'
      BY <1>2, <3>1 DEF Ownership, WaitersOwned, Spread
    <3> QED
      BY <3>3, <3>4, <3>5 DEF QueuesOwned
  <2>3. ASSUME NEW t \in TableIds, ToTableWait(t, r)
        PROVE  LoadsOwned' /\ QueuesOwned' /\ WaitersOwned'
    <3>1. /\ loadQueue' = loadQueue /\ owner'[r] = "waitingTable" /\ queue' = queue
          /\ waitingTable' = [waitingTable EXCEPT ![t] = @ \cup {r}]
      BY <2>3 DEF ToTableWait, AddWaitTable, TypeOK, ItemTypeOK
    <3>2. Owned("loadQueue")' = Owned("loadQueue")
      BY <1>2, <3>1 DEF Owned
    <3>3. \A u \in TableIds : OwnedQueue(u)' = OwnedQueue(u)
      BY <1>2, <3>1 DEF OwnedQueue
    <3>4. \A u \in TableIds : waitingTable'[u] = IF u = t THEN waitingTable[u] \cup {r}
                                                 ELSE waitingTable[u]
      BY <3>1 DEF TypeOK, DepTypeOK
    <3>5. \A u \in TableIds : r \notin waitingTable[u]
      BY DEF Ownership, WaitersOwned, Spread
    <3>6. WaitersOwned'
      BY <1>2, <3>1, <3>4, <3>5 DEF Ownership, WaitersOwned, Spread
    <3> QED
      BY <3>1, <3>2, <3>3, <3>6 DEF Ownership, LoadsOwned, QueuesOwned
  <2> QED
    BY <2>1, <2>2, <2>3
<1> QED
  BY <1>2, <1>3, <1>4, <1>5, <1>6, <1>7

\* ... from the file the completed task has finished with,
LEMMA ReadyFilesOwned ==
    ASSUME TypeOK, Ownership, NEW r \in Seqs, UpdateReadyFiles(r)
    PROVE  Ownership'
<1>1. /\ mu = "completing" /\ ReadyUnchanged /\ readyTable' = readyTable
      /\ readyFile' = readyFile \ {r} /\ r \in readyFile
  BY DEF UpdateReadyFiles
<1>2. owner[r] = "readyFile"
  BY <1>1 DEF Ownership, ReadyOwned, Owned
<1>3. \A s \in Seqs : s # r => item'[s].tableId = item[s].tableId
  BY DEF UpdateReadyFiles, ToTableWait, ToTableQueue, TypeOK, ItemTypeOK
<1>4. item[r].tableId \in TableIds
  BY DEF TypeOK, ItemTypeOK, Item
<1>5. \/ ToLoadQueue(r) \/ ToTableQueue(r)
      \/ \E t \in TableIds : ToTableWait(t, r)
  BY <1>4 DEF UpdateReadyFiles
<1>6. /\ owner'[r] \in {"loadQueue", "queue", "waitingTable"}
      /\ \A s \in Seqs : s # r => owner'[s] = owner[s]
  BY <1>1, <1>2, <1>3, <1>5, ReleaseOwned
<1>7. ReadyOwned'
  <2>1. readyFile' = Owned("readyFile")'
    BY <1>1, <1>6 DEF Ownership, ReadyOwned, Owned
  <2>2. Spread(readyTable, "readyTable")'
    BY <1>1, <1>2, <1>6 DEF Ownership, ReadyOwned, Spread
  <2> QED
    BY <2>1, <2>2 DEF ReadyOwned
<1> QED
  BY <1>1, <1>2, <1>3, <1>5, <1>7, ReleaseOwned DEF Ownership

\* ... and from a table.
LEMMA ReadyTablesOwned ==
    ASSUME TypeOK, Ownership, NEW r \in Seqs, NEW t \in TableIds,
           UpdateReadyTables(t, r)
    PROVE  Ownership'
<1>1. /\ mu = "completing" /\ ReadyUnchanged /\ readyFile' = readyFile
      /\ readyTable' = [readyTable EXCEPT ![t] = @ \ {r}] /\ r \in readyTable[t]
  BY DEF UpdateReadyTables
<1>2. owner[r] = "readyTable"
  BY <1>1 DEF Ownership, ReadyOwned, Spread
<1>3. \A s \in Seqs : s # r => item'[s].tableId = item[s].tableId
  BY DEF UpdateReadyTables, ToTableWait, ToTableQueue, TypeOK, ItemTypeOK
<1>4. item[r].tableId \in TableIds /\ query[r].newTable \in TableIds
  BY DEF TypeOK, ClientTypeOK, ItemTypeOK, Item, Command
<1>5. \/ ToLoadQueue(r) \/ ToTableQueue(r)
      \/ \E u \in TableIds : ToTableWait(u, r)
  BY <1>4 DEF UpdateReadyTables
<1>6. /\ owner'[r] \in {"loadQueue", "queue", "waitingTable"}
      /\ \A s \in Seqs : s # r => owner'[s] = owner[s]
  BY <1>1, <1>2, <1>3, <1>5, ReleaseOwned
<1>7. ReadyOwned'
  <2>1. readyFile' = Owned("readyFile")'
    BY <1>1, <1>2, <1>6 DEF Ownership, ReadyOwned, Owned
  <2>2. \A u \in TableIds : readyTable'[u] = IF u = t THEN readyTable[u] \ {r}
                                             ELSE readyTable[u]
    BY <1>1 DEF TypeOK, MuTypeOK
  <2>3. Spread(readyTable, "readyTable")'
    BY <1>1, <1>2, <1>6, <2>2 DEF Ownership, ReadyOwned, Spread
  <2> QED
    BY <2>1, <2>3 DEF ReadyOwned
<1> QED
  BY <1>1, <1>2, <1>3, <1>5, <1>7, ReleaseOwned DEF Ownership

\* A task that ends its callback is in none of the structures.
LEMMA EndOwned ==
    ASSUME TypeOK, Ownership, NEW s \in Seqs, FinishCompletion(s) \/ Retire(s)
    PROVE  Ownership'
<1>1. /\ query' = query /\ submitted' = submitted /\ item' = item /\ queue' = queue
      /\ loadQueue' = loadQueue /\ barriers' = barriers
      /\ waitingFile' = waitingFile /\ waitingTable' = waitingTable
      /\ readyFile' = readyFile /\ readyTable' = readyTable
  BY DEF FinishCompletion, Retire, clientVars, loadVars, barrierVars, depVars, muVars,
         tableVars
<1>2. \A q \in Seqs : owner'[q] = IF q = s
                                  THEN IF owner[s] = "notified" THEN "completed"
                                       ELSE "notified"
                                  ELSE owner[q]
  <2>1. CASE FinishCompletion(s)
    <3>1. owner[s] = "completing"
      BY <2>1 DEF FinishCompletion, Ownership, CallbackOwned, Owned
    <3> QED
      BY <2>1, <3>1 DEF FinishCompletion, TypeOK, ItemTypeOK
  <2>2. CASE Retire(s)
    BY <2>2 DEF Retire, TypeOK, ItemTypeOK
  <2> QED
    BY <2>1, <2>2
<1>3. owner[s] \in {"completing", "notified"}
  BY DEF FinishCompletion, Retire, Ownership, CallbackOwned, Owned
<1>4. \A q \in Seqs, o \in {"client", "barriers", "loadQueue", "queue", "waitingFile",
                            "waitingTable", "readyFile", "readyTable"} :
         owner'[q] = o <=> owner[q] = o
  BY <1>2, <1>3
<1>5. ClientOwned' /\ BarriersOwned' /\ LoadsOwned'
  BY <1>1, <1>4 DEF Ownership, ClientOwned, BarriersOwned, LoadsOwned, Owned
<1>6. QueuesOwned'
  BY <1>1, <1>4 DEF Ownership, QueuesOwned, OwnedQueue
<1>7. FilesOwned' /\ WaitersOwned'
  <2>1. FilesOwned'
    BY <1>1, <1>4 DEF Ownership, FilesOwned, OwnedWait
  <2>2. WaitersOwned'
    BY <1>1, <1>4 DEF Ownership, WaitersOwned, Spread
  <2> QED
    BY <2>1, <2>2
<1>8. ReadyOwned'
  <2>1. readyFile' = Owned("readyFile")'
    BY <1>1, <1>4 DEF Ownership, ReadyOwned, Owned
  <2>2. Spread(readyTable, "readyTable")'
    BY <1>1, <1>4 DEF Ownership, ReadyOwned, Spread
  <2> QED
    BY <2>1, <2>2 DEF ReadyOwned
<1>9. CallbackOwned'
  <2>1. CASE FinishCompletion(s)
    <3>1. mu = "completing" /\ s = current /\ mu' = "free"
      BY <2>1 DEF FinishCompletion, UnlockMu
    <3> QED
      BY <1>2, <3>1 DEF Ownership, CallbackOwned, Owned
  <2>2. CASE Retire(s)
    <3>1. mu' = mu /\ current' = current /\ owner[s] = "notified"
      BY <2>2 DEF Retire, muVars
    <3> QED
      BY <1>2, <3>1 DEF Ownership, CallbackOwned, Owned
  <2> QED
    BY <2>1, <2>2
<1>10. NothingReady'
  BY <1>1 DEF FinishCompletion, Retire, muVars, Ownership, NothingReady
<1> QED
  BY <1>5, <1>6, <1>7, <1>8, <1>9, <1>10 DEF Ownership

\* Whatever a callback does.
LEMMA CompletionOwned == TypeOK /\ Ownership /\ CompletionStep => Ownership'
BY BeginOwned, ReadyFilesOwned, ReadyTablesOwned, EndOwned DEF CompletionStep

-----------------------------------------------------------------------------
\* The structures start empty.
LEMMA InitOwned == Init => Ownership
<1> SUFFICES ASSUME Init PROVE Ownership
  OBVIOUS
<1> USE DEF Init
<1>1. ClientOwned
  BY DEF ClientOwned, Owned, Seqs
<1>2. Lists(<<>>, {})
  BY DEF Lists, IsInjective, Range
<1>3. /\ Owned("barriers") = {} /\ Owned("loadQueue") = {}
      /\ \A t \in TableIds : OwnedQueue(t) = {}
  BY DEF Owned, OwnedQueue
<1>4. BarriersOwned /\ LoadsOwned /\ QueuesOwned
  BY <1>2, <1>3 DEF BarriersOwned, LoadsOwned, QueuesOwned
<1>5. FilesOwned /\ WaitersOwned
  BY DEF FilesOwned, OwnedWait, WaitersOwned, Spread
<1>6. ReadyOwned /\ CallbackOwned /\ NothingReady
  BY DEF ReadyOwned, Spread, CallbackOwned, Owned, NothingReady
<1> QED
  BY <1>1, <1>4, <1>5, <1>6 DEF Ownership

\* No step disturbs the ownership.
LEMMA NextOwned == TypeOK /\ Ownership /\ [Next]_vars => Ownership'
<1> SUFFICES ASSUME TypeOK, Ownership, [Next]_vars PROVE Ownership'
  OBVIOUS
<1>1. CASE SetReady \/ UNCHANGED vars
  <2>1. /\ query' = query /\ submitted' = submitted /\ item' = item
        /\ owner' = owner /\ queue' = queue /\ loadQueue' = loadQueue
        /\ barriers' = barriers /\ waitingFile' = waitingFile
        /\ waitingTable' = waitingTable /\ readyFile' = readyFile
        /\ readyTable' = readyTable /\ mu' = mu /\ current' = current
    BY <1>1 DEF SetReady, vars, clientVars, itemVars, tableVars, loadVars, barrierVars,
                depVars, muVars
  <2>2. ClientOwned' /\ BarriersOwned' /\ LoadsOwned' /\ CallbackOwned' /\ NothingReady'
    BY <2>1 DEF Ownership, ClientOwned, BarriersOwned, LoadsOwned, CallbackOwned,
                NothingReady, Owned
  <2>3. QueuesOwned' /\ FilesOwned'
    BY <2>1 DEF Ownership, QueuesOwned, FilesOwned, OwnedQueue, OwnedWait
  <2>4. WaitersOwned' /\ ReadyOwned'
    BY <2>1 DEF Ownership, WaitersOwned, ReadyOwned, Spread, Owned
  <2> QED
    BY <2>2, <2>3, <2>4 DEF Ownership
<1> QED
  BY <1>1, SubmitOwned, FetchOwned, CompletionOwned DEF Next

\* In every state each structure of the scheduler holds what it owns.
LEMMA OwnershipInvariant == Spec => [](TypeOK /\ Ownership)
BY TypeCorrect, InitOwned, NextOwned, PTL DEF Spec

\* Every item that registerTask accepted and no worker has is in exactly one structure
\* of the scheduler, once: no query is handed out twice and none is forgotten.
THEOREM EveryItemOwnedOnce == Spec => []OwnedOnce
BY OwnershipInvariant, OwnershipImplies, PTL
=============================================================================
