----------------------------- MODULE GlobalIndex -----------------------------
(***************************************************************************)
(* Class GlobalIndex (scheduler/GlobalIndex.cpp): a std::priority_queue of *)
(* keys.  upsert pushes a new key and makes the table's earlier ones stale *)
(* by their version; pickBest pops until the top is not stale.             *)
(*                                                                         *)
(* KeyCmp compares stamps only when they differ by the quantum or more, so *)
(* it is not transitive, and what the heap yields depends on how it is     *)
(* kept.  std::push_heap and std::pop_heap are therefore modelled as the   *)
(* library does them: a new key rises from the end; to pop, the hole at    *)
(* the top sinks to a leaf and the last key rises from there.              *)
(*                                                                         *)
(* Each iteration of pickBest's loop is a step; mu is held throughout, so  *)
(* nothing comes in between (picking).                                     *)
(***************************************************************************)
EXTENDS Integers, Sequences, FiniteSets

CONSTANTS Tables, NoTable, Heads, NoHead, Quantum, MaxTick,
    MaxVersion,     \* bound: how often a table is indexed
    MaxKeys         \* bound: the size of the heap

VARIABLES
    heap,           \* std::priority_queue: the children of i are 2i and 2i + 1
    latestVersion,  \* the version of a table's last key
    fetchTick,      \* TaskQueue::fetchTick, the source of the stamps
    picking,        \* pickBest is in its loop
    picked          \* what it returned last

vars == <<heap, latestVersion, fetchTick, picking, picked>>

Key == [head : Heads, stamp : 0 .. MaxTick, version : 1 .. MaxVersion]

ASSUME HeadsAssumption ==
    /\ \A h \in Heads : h.table \in Tables /\ h.seq \in Nat /\ h.pri \in Nat
    /\ \A g, h \in Heads : g.seq = h.seq => g = h
    /\ NoTable \notin Tables /\ NoHead \notin Heads
ASSUME LimitsAssumption ==
    /\ Quantum \in Nat \ {0} /\ MaxTick \in Nat
    /\ MaxVersion \in Nat /\ MaxKeys \in Nat

\* The index has its types, and no key is of a version its table has not had.
GITypeOK ==
    /\ heap \in Seq(Key) /\ Len(heap) <= MaxKeys
    /\ latestVersion \in [Tables -> 0 .. MaxVersion]
    /\ fetchTick \in 0 .. MaxTick
    /\ picking \in BOOLEAN
    /\ picked \in Tables \cup {NoTable}

Init == /\ heap = <<>>
        /\ latestVersion = [t \in Tables |-> 0]
        /\ fetchTick = 0
        /\ picking = FALSE
        /\ picked = NoTable

-----------------------------------------------------------------------------
(* The order of the keys and the heap.                                     *)

Distance(a, b) == IF a > b THEN a - b ELSE b - a

\* Mutant: the waiting time comes before the priority.
WaitsFirst(k, l) ==
    IF Distance(k.stamp, l.stamp) >= Quantum THEN k.stamp > l.stamp
    ELSE IF k.head.pri # l.head.pri THEN k.head.pri > l.head.pri
    ELSE k.head.seq > l.head.seq

\* Mutant: later queries come first.
LaterFirst(k, l) ==
    IF k.head.pri # l.head.pri THEN k.head.pri > l.head.pri
    ELSE IF Distance(k.stamp, l.stamp) >= Quantum THEN k.stamp > l.stamp
    ELSE k.head.seq < l.head.seq

\* KeyCmp: key k is served after l.
KeyCmp(k, l) ==
    IF k.head.pri # l.head.pri THEN k.head.pri > l.head.pri
    ELSE IF Distance(k.stamp, l.stamp) >= Quantum THEN k.stamp > l.stamp
    ELSE k.head.seq > l.head.seq

Parent(i) == i \div 2

\* i, its parent, ... up to the root.
PathTo[i \in Nat] == IF i = 0 THEN {} ELSE {i} \cup PathTo[Parent(i)]

\* Key k rises from the hole i: the keys it passes move down one level.
Rise(h, i, k) ==
    LET stays(j) == j = 1 \/ ~KeyCmp(h[Parent(j)], k)
        stop == CHOOSE j \in PathTo[i] :
                   stays(j) /\ \A l \in PathTo[i] : stays(l) => l <= j
    IN  [j \in DOMAIN h |-> IF j = stop THEN k
                            ELSE IF j \in PathTo[i] /\ j > stop THEN h[Parent(j)]
                            ELSE h[j]]

PushHeap(h, k) == Rise(Append(h, k), Len(h) + 1, k)

\* The child that moves up into the hole i: the right one unless it is worse.
BetterChild(h, i) ==
    IF 2 * i + 1 <= Len(h) /\ ~KeyCmp(h[2 * i + 1], h[2 * i])
    THEN 2 * i + 1 ELSE 2 * i

\* The positions that a hole at the top passes as it sinks to a leaf.
SinkPath(h) ==
    {j \in DOMAIN h : \A l \in PathTo[j] \ {1} : l = BetterChild(h, Parent(l))}

PopHeap(h) ==
    LET rest == SubSeq(h, 1, Len(h) - 1)
        path == SinkPath(rest)
        leaf == CHOOSE j \in path : \A l \in path : l <= j
        sunk == [j \in DOMAIN rest |->
                   IF j \in path /\ j # leaf THEN rest[BetterChild(rest, j)]
                   ELSE rest[j]]
    IN  IF rest = <<>> THEN <<>> ELSE Rise(sunk, leaf, h[Len(h)])

-----------------------------------------------------------------------------
(* The operations.                                                         *)

\* Mutant: the key carries the version after the one that is recorded.
KeyAhead(h) == [head |-> h, stamp |-> fetchTick,
                version |-> latestVersion[h.table] + 2]

NewKey(h) == [head |-> h, stamp |-> fetchTick,
              version |-> latestVersion[h.table] + 1]

\* Mutant: the version of a table moves on for its first key only.
upsertOneVersion(h) ==
    /\ ~picking
    /\ Len(heap) < MaxKeys
    /\ heap' = PushHeap(heap, [NewKey(h) EXCEPT !.version = 1])
    /\ latestVersion' = [latestVersion EXCEPT ![h.table] = 1]
    /\ UNCHANGED <<fetchTick, picking, picked>>

upsert(h) ==
    /\ ~picking
    /\ latestVersion[h.table] < MaxVersion /\ Len(heap) < MaxKeys
    /\ heap' = PushHeap(heap, NewKey(h))
    /\ latestVersion' = [latestVersion EXCEPT ![h.table] = @ + 1]
    /\ UNCHANGED <<fetchTick, picking, picked>>

Current(k) == k.version = latestVersion[k.head.table]

\* A stale key is discarded, and pickBest goes on.
PickStale ==
    /\ heap # <<>> /\ ~Current(heap[1])
    /\ heap' = PopHeap(heap)
    /\ picking' = TRUE
    /\ UNCHANGED <<latestVersion, fetchTick, picked>>

PickTop ==
    /\ heap # <<>> /\ Current(heap[1])
    /\ heap' = PopHeap(heap)
    /\ picked' = heap[1].head.table
    /\ picking' = FALSE
    /\ UNCHANGED <<latestVersion, fetchTick>>

PickNothing ==
    /\ heap = <<>>
    /\ picked' = NoTable
    /\ picking' = FALSE
    /\ UNCHANGED <<heap, latestVersion, fetchTick>>

pickBest == PickStale \/ PickTop \/ PickNothing

\* fetchNext and fetchBarrier count what they hand out.
Tick == /\ ~picking
        /\ fetchTick < MaxTick
        /\ fetchTick' = fetchTick + 1
        /\ UNCHANGED <<heap, latestVersion, picking, picked>>

Next == (\E h \in Heads : upsert(h)) \/ pickBest \/ Tick

Spec == Init /\ [][Next]_vars

-----------------------------------------------------------------------------
(* Properties.                                                             *)

CurrentKeys(t) == {i \in DOMAIN heap : heap[i].head.table = t /\ Current(heap[i])}

\* However often a table is indexed while older keys of it are still in the heap, and
\* whatever pushes and pops do to the heap, at most one key of a table is current: a
\* table is not picked twice for one upsert.
OneCurrentKey == \A t \in Tables : Cardinality(CurrentKeys(t)) <= 1

\* KeyCmp is not an order, so the heap may lose the heap property; what survives is
\* that no key lies below one of lower priority, and so priorities are respected.
PriorityHeap ==
    \A i \in DOMAIN heap : i > 1 => heap[Parent(i)].head.pri <= heap[i].head.pri

\* The refinement mapping: a table is indexed under the head of its current key.
Live == [t \in Tables |-> IF CurrentKeys(t) = {} THEN NoHead
                          ELSE heap[CHOOSE i \in CurrentKeys(t) : TRUE].head]

Index == INSTANCE TableIndex WITH live <- Live

\* The heap with its stale keys implements the index the scheduler relies on (Picks in
\* TaskQueue): pickBest forgets no table, yields none twice, and respects priorities
\* always and the order of the program while all stamps lie within the quantum.
ImplementsIndex == Index!Spec

=============================================================================
