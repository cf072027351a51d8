-------------------------- MODULE GlobalIndexProofs --------------------------
(***************************************************************************)
(* The heap of the GlobalIndex, for every set of tables and queries, every *)
(* quantum and every bound: it keeps its types, a table has at most one    *)
(* current key, no key lies below one of lower priority, and the heap with *)
(* its stale keys implements the index of module TableIndex.               *)
(*                                                                         *)
(* KeyCmp is no order, so nothing follows from "it is a heap".  RiseOrders *)
(* and PopOrders say what std::push_heap and std::pop_heap keep: any       *)
(* transitive relation that KeyCmp refines.  That is the order of the      *)
(* priorities always, and the order by priority and sequence number while  *)
(* no two stamps differ by the quantum.                                    *)
(*                                                                         *)
(* PathTo is a recursive function; the facts about it follow by            *)
(* StrongInduction (module Induction).                                     *)
(***************************************************************************)
EXTENDS GlobalIndex, Induction, FunctionTheorems, SequenceTheorems

-----------------------------------------------------------------------------
(* Paths.                                                                  *)

\* The parent of a position.
LEMMA ParentType ==
    ASSUME NEW i \in Nat \ {0}
    PROVE  /\ Parent(i) \in Nat /\ Parent(i) < i
           /\ i = 2 * Parent(i) \/ i = 2 * Parent(i) + 1
           /\ i > 1 => Parent(i) >= 1
BY DEF Parent

\* PathTo is a function that satisfies its equation: i's path is what every set with i
\* that is closed under Parent contains.
LEMMA PathEquation ==
    \A i \in Nat : PathTo[i] = IF i = 0 THEN {} ELSE {i} \cup PathTo[Parent(i)]
<1> DEFINE Closed(P) == \A j \in P : Parent(j) \in P
           F == [i \in Nat |-> {j \in Nat \ {0} :
                                  \A P \in SUBSET Nat : i \in P /\ Closed(P) => j \in P}]
           Step(f) == [i \in Nat |-> IF i = 0 THEN {} ELSE {i} \cup f[Parent(i)]]
<1>1. ASSUME NEW i \in Nat PROVE F[i] = IF i = 0 THEN {} ELSE {i} \cup F[Parent(i)]
  <2>1. CASE i = 0
    <3>1. {0} \in SUBSET Nat /\ Closed({0})
      BY DEF Parent
    <3> QED BY <2>1, <3>1
  <2>2. CASE i # 0
    <3>1. Parent(i) \in Nat
      BY <2>2, ParentType
    <3>2. i \in F[i]
      BY <2>2
    <3>3. ASSUME NEW j \in F[Parent(i)] PROVE j \in F[i]
      BY <3>1, <3>3
    <3>4. ASSUME NEW j \in F[i], j # i PROVE j \in F[Parent(i)]
      <4>1. SUFFICES ASSUME NEW P \in SUBSET Nat, Parent(i) \in P, Closed(P) PROVE j \in P
        BY <3>1
      <4>2. P \cup {i} \in SUBSET Nat /\ Closed(P \cup {i})
        BY <4>1
      <4> QED BY <3>4, <4>2
    <3> HIDE DEF F
    <3>5. F[i] = {i} \cup F[Parent(i)]
      BY <3>2, <3>3, <3>4
    <3> QED BY <2>2, <3>5
  <2> QED BY <2>1, <2>2
<1> HIDE DEF F
<1>2. F = Step(F)
  <2>1. F = [i \in Nat |-> F[i]]
    BY DEF F
  <2> QED BY <1>1, <2>1
<1>3. PathTo = CHOOSE f : f = Step(f)
  BY DEF PathTo
<1>4. PathTo = Step(PathTo)
  <2> HIDE DEF Step
  <2> QED BY <1>2, <1>3
<1> QED BY <1>4

\* One step of a path.
LEMMA PathStep ==
    /\ PathTo[0] = {}
    /\ \A i \in Nat \ {0} : PathTo[i] = {i} \cup PathTo[Parent(i)]
BY PathEquation

\* A path lies between the root and its end, and contains both.
LEMMA PathRange ==
    \A i \in Nat : PathTo[i] \subseteq 1 .. i /\ (i > 0 => 1 \in PathTo[i] /\ i \in PathTo[i])
<1> DEFINE Good == {i \in Nat : /\ PathTo[i] \subseteq 1 .. i
                                /\ i > 0 => 1 \in PathTo[i] /\ i \in PathTo[i]}
<1>1. ASSUME NEW i \in Nat, \A m \in Nat : m < i => m \in Good
      PROVE  i \in Good
  <2>1. CASE i = 0
    BY <2>1, PathStep
  <2>2. CASE i = 1
    <3>1. Parent(1) = 0
      BY DEF Parent
    <3> QED BY <2>2, <3>1, PathStep
  <2>3. CASE i > 1
    <3>1. Parent(i) \in Good /\ Parent(i) \in Nat /\ Parent(i) < i /\ Parent(i) > 0
      BY <1>1, <2>3, ParentType
    <3>2. PathTo[i] = {i} \cup PathTo[Parent(i)]
      BY <2>3, PathStep
    <3> QED BY <2>3, <3>1, <3>2
  <2> QED BY <2>1, <2>2, <2>3
<1> HIDE DEF Good
<1>2. \A i \in Nat : i \in Good
  BY <1>1, StrongInduction
<1> QED BY <1>2 DEF Good

\* With a position the path contains its parent.
LEMMA PathUp ==
    \A i \in Nat : \A j \in PathTo[i] : j > 1 => Parent(j) \in PathTo[i]
<1> DEFINE Good == {i \in Nat : \A j \in PathTo[i] : j > 1 => Parent(j) \in PathTo[i]}
<1>1. ASSUME NEW i \in Nat, \A m \in Nat : m < i => m \in Good
      PROVE  i \in Good
  <2>1. CASE i = 0
    BY <2>1, PathStep
  <2>2. CASE i > 0
    <3>1. Parent(i) \in Good /\ Parent(i) \in Nat /\ (i > 1 => Parent(i) > 0)
      BY <1>1, <2>2, ParentType
    <3>2. PathTo[i] = {i} \cup PathTo[Parent(i)]
      BY <2>2, PathStep
    <3>3. i > 1 => Parent(i) \in PathTo[i]
      BY <3>1, <3>2, PathRange
    <3> QED BY <3>1, <3>2, <3>3
  <2> QED BY <2>1, <2>2
<1> HIDE DEF Good
<1>2. \A i \in Nat : i \in Good
  BY <1>1, StrongInduction
<1> QED BY <1>2 DEF Good

\* Every position of a path but its end has a child on it.
LEMMA PathDown ==
    \A i \in Nat : \A j \in PathTo[i] :
        j # i => \E c \in PathTo[i] : c > j /\ Parent(c) = j
<1> DEFINE Good == {i \in Nat : \A j \in PathTo[i] :
                        j # i => \E c \in PathTo[i] : c > j /\ Parent(c) = j}
<1>1. ASSUME NEW i \in Nat, \A m \in Nat : m < i => m \in Good
      PROVE  i \in Good
  <2>1. CASE i = 0
    BY <2>1, PathStep
  <2>2. CASE i > 0
    <3>1. Parent(i) \in Good /\ Parent(i) \in Nat /\ Parent(i) < i
      BY <1>1, <2>2, ParentType
    <3>2. PathTo[i] = {i} \cup PathTo[Parent(i)]
      BY <2>2, PathStep
    <3>3. ASSUME NEW j \in PathTo[i], j # i
          PROVE  \E c \in PathTo[i] : c > j /\ Parent(c) = j
      <4>1. CASE j = Parent(i)
        BY <3>1, <3>2, <4>1
      <4>2. CASE j # Parent(i)
        BY <3>1, <3>2, <3>3, <4>2
      <4> QED BY <4>1, <4>2
    <3> QED BY <3>3
  <2> QED BY <2>1, <2>2
<1> HIDE DEF Good
<1>2. \A i \in Nat : i \in Good
  BY <1>1, StrongInduction
<1> QED BY <1>2 DEF Good

\* A path has one position at each level.
LEMMA PathChain ==
    \A i \in Nat : \A j, l \in PathTo[i] : l < j => l <= Parent(j)
<1> DEFINE Good == {i \in Nat : \A j, l \in PathTo[i] : l < j => l <= Parent(j)}
<1>1. ASSUME NEW i \in Nat, \A m \in Nat : m < i => m \in Good
      PROVE  i \in Good
  <2>1. CASE i = 0
    BY <2>1, PathStep
  <2>2. CASE i > 0
    <3>1. Parent(i) \in Good /\ Parent(i) \in Nat /\ Parent(i) < i
      BY <1>1, <2>2, ParentType
    <3>2. PathTo[i] = {i} \cup PathTo[Parent(i)]
      BY <2>2, PathStep
    <3>3. PathTo[Parent(i)] \subseteq 1 .. Parent(i)
      BY <3>1, PathRange
    <3>4. ASSUME NEW j \in PathTo[i], NEW l \in PathTo[i], l < j
          PROVE  l <= Parent(j)
      <4>1. CASE j = i
        BY <3>1, <3>2, <3>3, <3>4, <4>1
      <4>2. CASE j # i
        BY <3>1, <3>2, <3>3, <3>4, <4>2
      <4> QED BY <4>1, <4>2
    <3> QED BY <3>4
  <2> QED BY <2>1, <2>2
<1> HIDE DEF Good
<1>2. \A i \in Nat : i \in Good
  BY <1>1, StrongInduction
<1> QED BY <1>2 DEF Good

-----------------------------------------------------------------------------
(* A key rises.                                                            *)

\* What Rise(h, i, k) = r does: the key comes to rest at stop, what was on the path
\* from there moves down one level, everything else stays.
RisesTo(h, i, k, stop, r) ==
    /\ stop \in PathTo[i]
    /\ stop > 1 => ~KeyCmp(h[Parent(stop)], k)
    /\ \A l \in PathTo[i] : l > stop => KeyCmp(h[Parent(l)], k)
    /\ DOMAIN r = DOMAIN h
    /\ r[stop] = k
    /\ \A j \in PathTo[i] : j > stop => r[j] = h[Parent(j)]
    /\ \A j \in DOMAIN h : j \notin PathTo[i] \/ j < stop => r[j] = h[j]

LEMMA RiseStops ==
    ASSUME NEW n \in Nat, NEW h, DOMAIN h = 1 .. n, NEW i \in 1 .. n, NEW k
    PROVE  \E stop \in PathTo[i] : RisesTo(h, i, k, stop, Rise(h, i, k))
<1> DEFINE stays(j) == j = 1 \/ ~KeyCmp(h[Parent(j)], k)
           Stays == {j \in PathTo[i] : stays(j)}
           last(j) == stays(j) /\ \A l \in PathTo[i] : stays(l) => l <= j
           stop == CHOOSE j \in PathTo[i] : last(j)
<1>1. PathTo[i] \subseteq 1 .. i /\ 1 \in PathTo[i] /\ i \in Nat
  BY PathRange
<1>2. Stays \in SUBSET (1 .. i) /\ Stays # {}
  BY <1>1
<1>3. PICK j \in Stays : \A l \in Stays : l <= j
  <2> HIDE DEF Stays
  <2> QED BY <1>1, <1>2, GreatestOf
<1>4. \E l \in PathTo[i] : last(l)
  BY <1>3
<1>5. stop \in PathTo[i] /\ last(stop)
  <2> HIDE DEF last
  <2> QED BY <1>4
<1>6. Rise(h, i, k) = [l \in 1 .. n |-> IF l = stop THEN k
                            ELSE IF l \in PathTo[i] /\ l > stop THEN h[Parent(l)]
                            ELSE h[l]]
  BY DEF Rise
<1> HIDE DEF stop, stays
<1>7. PathTo[i] \subseteq 1 .. n /\ stop \in 1 .. n
  BY <1>1, <1>5
<1>8. stop > 1 => ~KeyCmp(h[Parent(stop)], k)
  BY <1>5 DEF stays
<1>9. ASSUME NEW l \in PathTo[i], l > stop PROVE KeyCmp(h[Parent(l)], k)
  <2>1. ~stays(l)
    BY <1>5, <1>7, <1>9
  <2> QED BY <2>1 DEF stays
<1> QED BY <1>5, <1>6, <1>7, <1>8, <1>9 DEF RisesTo

\* Rise permutes: every key but the hole's is still there, once, and k is.
LEMMA RisePermutes ==
    ASSUME NEW n \in Nat, NEW h, DOMAIN h = 1 .. n, NEW i \in 1 .. n, NEW k
    PROVE  /\ DOMAIN Rise(h, i, k) = 1 .. n
           /\ \E s \in Bijection(1 .. n, 1 .. n) :
                 \A j \in 1 .. n : Rise(h, i, k)[j] = IF s[j] = i THEN k ELSE h[s[j]]
<1> DEFINE r == Rise(h, i, k)
<1>1. PICK stop \in PathTo[i] : RisesTo(h, i, k, stop, r)
  BY RiseStops
<1> HIDE DEF r
<1> DEFINE from(j) == IF j = stop THEN i
                      ELSE IF j \in PathTo[i] /\ j > stop THEN Parent(j) ELSE j
           s == [j \in 1 .. n |-> from(j)]
<1>2. PathTo[i] \subseteq 1 .. i /\ PathTo[i] \subseteq 1 .. n /\ i \in PathTo[i] /\ i \in Nat
  BY PathRange
<1>3. ASSUME NEW j \in PathTo[i], j > stop
      PROVE  Parent(j) \in PathTo[i] /\ Parent(j) < i /\ Parent(j) >= stop /\ Parent(j) < j
  <2>1. Parent(j) \in PathTo[i] /\ Parent(j) < j
    BY <1>2, <1>3, PathUp, ParentType
  <2>2. Parent(j) >= stop
    BY <1>2, <1>3, PathChain
  <2> QED BY <1>2, <2>1, <2>2
<1>4. s \in [1 .. n -> 1 .. n]
  BY <1>2, <1>3
<1>5. ASSUME NEW j \in 1 .. n, NEW l \in 1 .. n, j < l PROVE from(j) # from(l)
  <2>1. CASE j = stop
    BY <1>2, <1>3, <1>5, <2>1
  <2>2. CASE l = stop
    BY <1>2, <1>3, <1>5, <2>2
  <2>3. CASE j # stop /\ l # stop
    <3>1. CASE j \in PathTo[i] /\ j > stop /\ l \in PathTo[i] /\ l > stop
      <4>1. j <= Parent(l) /\ Parent(j) < j /\ Parent(l) \in Nat /\ Parent(j) \in Nat
        BY <1>2, <1>3, <1>5, <3>1, PathChain
      <4> QED BY <1>2, <2>3, <3>1, <4>1
    <3>2. CASE ~(j \in PathTo[i] /\ j > stop) \/ ~(l \in PathTo[i] /\ l > stop)
      BY <1>2, <1>3, <1>5, <2>3, <3>2
    <3> QED BY <3>1, <3>2
  <2> QED BY <2>1, <2>2, <2>3
<1>6. \A j, l \in 1 .. n : from(j) = from(l) => j = l
  <2> HIDE DEF from
  <2> QED BY <1>5
<1>7. ASSUME NEW l \in 1 .. n PROVE \E j \in 1 .. n : from(j) = l
  <2>1. CASE l = i
    BY <1>2, <2>1
  <2>2. CASE l # i /\ l \in PathTo[i] /\ l >= stop
    <3>1. PICK c \in PathTo[i] : c > l /\ Parent(c) = l
      BY <1>2, <2>2, PathDown
    <3>2. c \in 1 .. n /\ from(c) = l
      BY <1>2, <2>2, <3>1
    <3> QED BY <3>2
  <2>3. CASE l # i /\ ~(l \in PathTo[i] /\ l >= stop)
    BY <1>2, <2>3
  <2> QED BY <2>1, <2>2, <2>3
<1>8. s \in Bijection(1 .. n, 1 .. n)
  <2> HIDE DEF from
  <2> QED BY <1>4, <1>6, <1>7 DEF Bijection, Injection, Surjection, IsInjective
<1>9. ASSUME NEW j \in 1 .. n PROVE r[j] = IF s[j] = i THEN k ELSE h[s[j]]
  <2>1. s[j] = from(j)
    OBVIOUS
  <2>2. CASE j = stop
    BY <1>1, <2>1, <2>2 DEF RisesTo
  <2>3. CASE j \in PathTo[i] /\ j > stop
    BY <1>1, <1>2, <1>3, <2>1, <2>3 DEF RisesTo
  <2>4. CASE j # stop /\ ~(j \in PathTo[i] /\ j > stop)
    <3>1. j # i /\ (j \notin PathTo[i] \/ j < stop)
      BY <1>2, <2>4
    <3> QED BY <1>1, <1>2, <2>1, <2>4, <3>1 DEF RisesTo
  <2> QED BY <2>2, <2>3, <2>4
<1>10. DOMAIN r = 1 .. n
  BY <1>1 DEF RisesTo
<1> HIDE DEF s
<1> QED BY <1>8, <1>9, <1>10 DEF r

\* If a leaf is the hole and every other key is no better than its parent in some
\* transitive relation that KeyCmp refines, so it is after a key has risen from there.
LEMMA RiseOrders ==
    ASSUME NEW n \in Nat, NEW h, DOMAIN h = 1 .. n, NEW i \in 1 .. n, 2 * i > n,
           NEW E, NEW k \in E, \A j \in 1 .. n : j # i => h[j] \in E,
           NEW Le,
           \A a, b, c \in E : <<a, b>> \in Le /\ <<b, c>> \in Le => <<a, c>> \in Le,
           \A a, b \in E : KeyCmp(a, b) => <<b, a>> \in Le,
           \A a, b \in E : ~KeyCmp(a, b) => <<a, b>> \in Le,
           \A j \in 2 .. n : j # i => <<h[Parent(j)], h[j]>> \in Le
    PROVE  \A j \in 2 .. n : <<Rise(h, i, k)[Parent(j)], Rise(h, i, k)[j]>> \in Le
<1> DEFINE r == Rise(h, i, k)
<1>1. PICK stop \in PathTo[i] : RisesTo(h, i, k, stop, r)
  BY RiseStops
<1> HIDE DEF r
<1> USE <1>1 DEF RisesTo
<1>2. PathTo[i] \subseteq 1 .. i /\ PathTo[i] \subseteq 1 .. n /\ i \in PathTo[i] /\ i \in Nat
  BY PathRange
<1>3. ASSUME NEW j \in 2 .. n
      PROVE  <<r[Parent(j)], r[j]>> \in Le
  <2> DEFINE p == Parent(j)
  <2>1. p \in 1 .. n /\ p < j /\ 2 * p <= j /\ p # i
    BY ParentType
  <2>2. j \in PathTo[i] => p \in PathTo[i]
    BY <1>2, PathUp
  <2> HIDE DEF p
  <2>3. CASE j \in PathTo[i] /\ j > stop
    <3>1. r[j] = h[p] /\ p >= stop /\ p \in PathTo[i] /\ h[p] \in E
      BY <1>2, <2>1, <2>2, <2>3, PathChain DEF p
    <3>2. CASE p = stop
      <4>1. r[p] = k /\ KeyCmp(h[p], k)
        BY <2>3, <3>2 DEF p
      <4> QED BY <3>1, <4>1 DEF p
    <3>3. CASE p > stop
      <4>1. r[p] = h[Parent(p)] /\ p \in 2 .. n
        BY <1>2, <2>1, <3>1, <3>3
      <4> QED BY <2>1, <3>1, <4>1 DEF p
    <3> QED BY <1>2, <2>1, <3>1, <3>2, <3>3
  <2>4. CASE j = stop
    <3>1. r[j] = k /\ r[p] = h[p] /\ ~KeyCmp(h[p], k)
      BY <1>2, <2>1, <2>4 DEF p
    <3> QED BY <2>1, <3>1 DEF p
  <2>5. CASE j \in PathTo[i] /\ j < stop
    <3>1. r[j] = h[j] /\ r[p] = h[p] /\ j # i
      BY <1>2, <2>1, <2>5
    <3> QED BY <3>1 DEF p
  <2>6. CASE j \notin PathTo[i]
    <3>1. r[j] = h[j] /\ j # i /\ h[j] \in E /\ h[p] \in E /\ <<h[p], h[j]>> \in Le
      BY <1>2, <2>1, <2>6 DEF p
    <3>2. CASE p \notin PathTo[i] \/ p < stop
      <4>1. r[p] = h[p]
        BY <2>1, <3>2
      <4> QED BY <3>1, <4>1 DEF p
    <3>3. CASE p = stop
      <4>1. PICK c \in PathTo[i] : c > p /\ Parent(c) = p
        BY <1>2, <2>1, <3>3, PathDown
      <4>2. KeyCmp(h[p], k)
        BY <3>3, <4>1
      <4>3. <<k, h[p]>> \in Le /\ r[p] = k
        BY <3>1, <3>3, <4>2
      <4> QED BY <3>1, <4>3 DEF p
    <3>4. CASE p \in PathTo[i] /\ p > stop
      <4>1. r[p] = h[Parent(p)] /\ p \in 2 .. n
        BY <1>2, <2>1, <3>4
      <4>2. <<h[Parent(p)], h[p]>> \in Le
        BY <2>1, <4>1
      <4>3. Parent(p) \in 1 .. n /\ Parent(p) # i
        BY <2>1, <4>1, ParentType
      <4> QED BY <3>1, <4>1, <4>2, <4>3 DEF p
    <3> QED BY <1>2, <2>1, <3>2, <3>3, <3>4
  <2> QED BY <1>2, <2>3, <2>4, <2>5, <2>6
<1> QED BY <1>3 DEF r

-----------------------------------------------------------------------------
(* The hole sinks.                                                         *)

Leaf(h) == CHOOSE j \in SinkPath(h) : \A l \in SinkPath(h) : l <= j

\* The better child is a child, and the other one is no better.
LEMMA BetterChildOf ==
    ASSUME NEW n \in Nat, NEW h, Len(h) = n, NEW j \in 1 .. n, 2 * j <= n
    PROVE  LET b == BetterChild(h, j) IN
           /\ b \in 1 .. n /\ b > j /\ Parent(b) = j
           /\ \A c \in 1 .. n : Parent(c) = j /\ c # b =>
                 \/ c = b + 1 /\ KeyCmp(h[c], h[b])
                 \/ b = c + 1 /\ ~KeyCmp(h[b], h[c])
BY DEF BetterChild, Parent

\* The hole sinks to a leaf; it passes a position if and only if it passes the parent
\* and the position is the better child.
LEMMA SinkFacts ==
    ASSUME NEW n \in Nat \ {0}, NEW h, DOMAIN h = 1 .. n, Len(h) = n
    PROVE  LET path == SinkPath(h) IN
           /\ path \subseteq 1 .. n /\ 1 \in path
           /\ \A j \in 2 .. n : j \in path <=>
                 Parent(j) \in path /\ j = BetterChild(h, Parent(j))
           /\ Leaf(h) \in path /\ 2 * Leaf(h) > n
           /\ \A j \in path : j # Leaf(h) => 2 * j <= n
<1> DEFINE path == SinkPath(h)
<1>1. path \subseteq 1 .. n
  BY DEF SinkPath
<1>2. 1 \in path
  <2>1. PathTo[1] \subseteq 1 .. 1
    BY PathRange
  <2> QED BY <2>1 DEF SinkPath
<1>3. ASSUME NEW j \in 2 .. n
      PROVE  j \in path <=> Parent(j) \in path /\ j = BetterChild(h, Parent(j))
  <2>1. PathTo[j] = {j} \cup PathTo[Parent(j)] /\ j # 1 /\ Parent(j) \in 1 .. n
    BY PathStep, ParentType
  <2> QED BY <2>1 DEF SinkPath
<1>4. path \in SUBSET (1 .. n) /\ path # {}
  BY <1>1, <1>2
<1> HIDE DEF path
<1>5. \E j \in path : \A l \in path : l <= j
  BY <1>4, GreatestOf
<1>6. /\ Leaf(h) \in path /\ \A l \in path : l <= Leaf(h)
      /\ Leaf(h) \in 1 .. n /\ \A l \in path : l \in 1 .. n
  <2>1. Leaf(h) \in path /\ \A l \in path : l <= Leaf(h)
    BY <1>5 DEF Leaf, path
  <2> HIDE DEF Leaf
  <2> QED BY <1>1, <2>1
<1>7. ASSUME NEW j \in path, 2 * j <= n PROVE BetterChild(h, j) \in path
  <2>1. BetterChild(h, j) \in 2 .. n /\ Parent(BetterChild(h, j)) = j
    BY <1>1, <1>7, BetterChildOf
  <2> QED BY <1>3, <1>7, <2>1
<1>8. 2 * Leaf(h) > n
  <2>1. SUFFICES ASSUME 2 * Leaf(h) <= n PROVE FALSE
    BY <1>1, <1>6
  <2>2. BetterChild(h, Leaf(h)) > Leaf(h) /\ BetterChild(h, Leaf(h)) \in 1 .. n
    BY <1>1, <1>6, <2>1, BetterChildOf
  <2>3. BetterChild(h, Leaf(h)) \in path
    BY <1>6, <1>7, <2>1
  <2> QED BY <1>1, <1>6, <2>2, <2>3
<1> DEFINE Good == {m \in Nat : m \in path => \A a \in path : a < m => BetterChild(h, a) <= m}
<1>9. ASSUME NEW m \in Nat, \A l \in Nat : l < m => l \in Good
      PROVE  m \in Good
  <2>1. SUFFICES ASSUME m \in path, NEW a \in path, a < m PROVE BetterChild(h, a) <= m
    OBVIOUS
  <2>2. a \in 1 .. n /\ m \in 2 .. n
    BY <1>1, <2>1
  <2>3. Parent(m) \in path /\ m = BetterChild(h, Parent(m))
    BY <1>3, <2>1, <2>2
  <2>4. Parent(m) \in Nat /\ Parent(m) < m
    BY <2>2, ParentType
  <2>5. CASE a < Parent(m)
    <3>1. Parent(m) \in Good
      BY <1>9, <2>4
    <3>2. BetterChild(h, a) <= Parent(m)
      BY <2>3, <2>5, <3>1
    <3>3. BetterChild(h, a) \in Int
      BY <2>2 DEF BetterChild
    <3> QED BY <2>4, <3>2, <3>3
  <2>6. CASE a = Parent(m)
    BY <2>3, <2>4, <2>6
  <2>7. CASE a > Parent(m)
    <3>1. a \in Good
      BY <1>9, <2>1, <2>2
    <3>2. BetterChild(h, Parent(m)) <= a
      BY <2>3, <2>7, <3>1
    <3> QED BY <2>1, <2>2, <2>3, <3>2
  <2> QED BY <2>2, <2>4, <2>5, <2>6, <2>7
<1> HIDE DEF Good
<1>10. \A m \in Nat : m \in Good
  BY <1>9, StrongInduction
<1>11. ASSUME NEW j \in path, j # Leaf(h) PROVE 2 * j <= n
  <2>1. j < Leaf(h) /\ j \in 1 .. n /\ Leaf(h) \in 1 .. n
    BY <1>1, <1>6, <1>11
  <2>2. BetterChild(h, j) <= Leaf(h)
    BY <1>6, <1>10, <2>1 DEF Good
  <2>3. BetterChild(h, j) >= 2 * j
    BY <2>1 DEF BetterChild
  <2>4. BetterChild(h, j) \in Int
    BY <2>1 DEF BetterChild
  <2> QED BY <2>1, <2>2, <2>3, <2>4
<1> QED BY <1>1, <1>2, <1>3, <1>6, <1>8, <1>11 DEF path

\* The keys after the hole has sunk to the leaf.
Sunk(h) == [j \in DOMAIN h |-> IF j \in SinkPath(h) /\ j # Leaf(h)
                               THEN h[BetterChild(h, j)] ELSE h[j]]

\* The heap without its last key is the one that sinks.
LEMMA PopHeapIs ==
    ASSUME NEW S, NEW h \in Seq(S), h # <<>>
    PROVE  LET rest == SubSeq(h, 1, Len(h) - 1) IN
           /\ rest \in Seq(S) /\ Len(rest) = Len(h) - 1
           /\ DOMAIN rest = 1 .. (Len(h) - 1)
           /\ \A j \in 1 .. (Len(h) - 1) : rest[j] = h[j]
           /\ PopHeap(h) = IF rest = <<>> THEN <<>>
                           ELSE Rise(Sunk(rest), Leaf(rest), h[Len(h)])
<1> DEFINE rest == SubSeq(h, 1, Len(h) - 1)
<1>1. Len(h) \in Nat \ {0}
  OBVIOUS
<1>2. /\ rest \in Seq(S) /\ Len(rest) = Len(h) - 1
      /\ DOMAIN rest = 1 .. (Len(h) - 1)
      /\ \A j \in 1 .. (Len(h) - 1) : rest[j] = h[j]
  <2> DEFINE m == Len(h) - 1
  <2>1. m \in Nat /\ \A j \in 1 .. m : h[j] \in S
    BY <1>1
  <2> HIDE DEF m
  <2>2. /\ SubSeq(h, 1, m) \in Seq(S)
        /\ Len(SubSeq(h, 1, m)) = IF 1 <= m THEN m - 1 + 1 ELSE 0
        /\ \A j \in 1 .. m - 1 + 1 : SubSeq(h, 1, m)[j] = h[1 + j - 1]
    BY <2>1, SubSeqProperties
  <2>3. Len(SubSeq(h, 1, m)) = m /\ m - 1 + 1 = m
    BY <2>1, <2>2
  <2>4. \A j \in 1 .. m : SubSeq(h, 1, m)[j] = h[j]
    BY <2>1, <2>2, <2>3
  <2>5. rest = SubSeq(h, 1, m)
    BY DEF m
  <2> HIDE DEF rest
  <2>6. DOMAIN rest = 1 .. m
    BY <2>2, <2>3, <2>5
  <2> QED BY <2>2, <2>3, <2>4, <2>5, <2>6 DEF m
<1> HIDE DEF rest
<1>3. PopHeap(h) = IF rest = <<>> THEN <<>> ELSE Rise(Sunk(rest), Leaf(rest), h[Len(h)])
  BY DEF PopHeap, Sunk, Leaf, rest
<1> QED BY <1>2, <1>3 DEF rest

\* Popping permutes: every key but the top is still there, once.
LEMMA PopPermutes ==
    ASSUME NEW S, NEW h \in Seq(S), h # <<>>
    PROVE  /\ DOMAIN PopHeap(h) = 1 .. (Len(h) - 1)
           /\ \E s \in Bijection(1 .. (Len(h) - 1), 2 .. Len(h)) :
                 \A j \in 1 .. (Len(h) - 1) : PopHeap(h)[j] = h[s[j]]
<1> DEFINE n == Len(h)
           m == Len(h) - 1
           rest == SubSeq(h, 1, m)
           path == SinkPath(rest)
           leaf == Leaf(rest)
<1>1. n \in Nat \ {0} /\ m \in Nat /\ n = m + 1
  OBVIOUS
<1>2. /\ rest \in Seq(S) /\ Len(rest) = m /\ DOMAIN rest = 1 .. m
      /\ \A j \in 1 .. m : rest[j] = h[j]
      /\ PopHeap(h) = IF rest = <<>> THEN <<>> ELSE Rise(Sunk(rest), leaf, h[n])
  BY PopHeapIs
<1> HIDE DEF n, m, rest, path, leaf
<1>3. CASE m = 0
  <2>1. rest = <<>> /\ PopHeap(h) = <<>> /\ 1 .. m = {} /\ 2 .. n = {}
    BY <1>1, <1>2, <1>3
  <2> DEFINE s == [j \in 1 .. m |-> j]
  <2>2. s \in Bijection(1 .. m, 2 .. n)
    BY <2>1 DEF Bijection, Injection, Surjection, IsInjective
  <2>3. DOMAIN PopHeap(h) = 1 .. m /\ \A j \in 1 .. m : PopHeap(h)[j] = h[s[j]]
    BY <2>1
  <2> QED BY <2>2, <2>3 DEF m, n
<1>4. CASE m > 0
  <2>1. /\ path \subseteq 1 .. m /\ 1 \in path
        /\ \A j \in 2 .. m : j \in path <=>
              Parent(j) \in path /\ j = BetterChild(rest, Parent(j))
        /\ leaf \in path
        /\ \A j \in path : j # leaf => 2 * j <= m
    BY <1>1, <1>2, <1>4, SinkFacts DEF path, leaf
  <2> DEFINE better(j) == BetterChild(rest, j)
             from(j) == IF j = leaf THEN n
                        ELSE IF j \in path THEN better(j) ELSE j
             t == [j \in 1 .. m |-> from(j)]
  <2>2. ASSUME NEW j \in path, j # leaf
        PROVE  better(j) \in path /\ better(j) \in 2 .. m /\ Parent(better(j)) = j
    <3>1. better(j) \in 2 .. m /\ Parent(better(j)) = j
      BY <1>1, <1>2, <2>1, <2>2, BetterChildOf
    <3> QED BY <2>1, <2>2, <3>1
  <2> HIDE DEF better
  <2>3. t \in [1 .. m -> 2 .. n]
    BY <1>1, <2>1, <2>2
  <2>4. \A j, l \in 1 .. m : from(j) = from(l) => j = l
    BY <1>1, <2>1, <2>2
  <2>5. ASSUME NEW c \in 2 .. n PROVE \E j \in 1 .. m : from(j) = c
    <3>1. CASE c = n
      BY <2>1, <3>1
    <3>2. CASE c # n /\ c \notin path
      BY <1>1, <2>1, <3>2
    <3>3. CASE c # n /\ c \in path
      <4>1. c \in 2 .. m
        BY <1>1, <3>3
      <4>2. Parent(c) \in path /\ c = better(Parent(c))
        BY <2>1, <3>3, <4>1 DEF better
      <4>3. Parent(c) # leaf
        <5>1. 2 * Leaf(rest) > m
          BY <1>1, <1>2, <1>4, SinkFacts
        <5>2. c \in Nat \ {0} /\ c <= m
          BY <1>1, <4>1
        <5>4. Parent(c) \in Nat /\ 2 * Parent(c) <= c
          BY <5>2, ParentType
        <5>3. leaf \in Nat
          BY <2>1
        <5> QED BY <1>1, <5>1, <5>2, <5>3, <5>4 DEF leaf
      <4> QED BY <2>1, <4>2, <4>3
    <3> QED BY <3>1, <3>2, <3>3
  <2>6. t \in Bijection(1 .. m, 2 .. n)
    <3> HIDE DEF from
    <3> QED BY <2>3, <2>4, <2>5 DEF Bijection, Injection, Surjection, IsInjective
  <2>7. /\ DOMAIN Sunk(rest) = 1 .. m
        /\ \A j \in 1 .. m : j # leaf => Sunk(rest)[j] = h[t[j]]
    <3>1. ASSUME NEW j \in 1 .. m, j # leaf PROVE Sunk(rest)[j] = h[t[j]]
      <4>1. CASE j \in path
        <5>1. Sunk(rest)[j] = rest[better(j)] /\ t[j] = better(j)
          BY <1>2, <3>1, <4>1 DEF Sunk, path, leaf, better
        <5> QED BY <1>2, <2>2, <3>1, <4>1, <5>1
      <4>2. CASE j \notin path
        BY <1>2, <3>1, <4>2 DEF Sunk, path, leaf
      <4> QED BY <4>1, <4>2
    <3>2. DOMAIN Sunk(rest) = 1 .. m
      BY <1>2 DEF Sunk
    <3> QED BY <3>1, <3>2
  <2>8. t[leaf] = n
    BY <2>1
  <2>9. leaf \in 1 .. m /\ rest # <<>>
    BY <1>2, <1>4, <2>1
  <2>10. PICK s \in Bijection(1 .. m, 1 .. m) :
            /\ DOMAIN Rise(Sunk(rest), leaf, h[n]) = 1 .. m
            /\ \A j \in 1 .. m : Rise(Sunk(rest), leaf, h[n])[j] =
                                   IF s[j] = leaf THEN h[n] ELSE Sunk(rest)[s[j]]
    BY <1>1, <2>7, <2>9, RisePermutes
  <2> HIDE DEF t
  <2> DEFINE u == [j \in 1 .. m |-> t[s[j]]]
  <2>11. s \in [1 .. m -> 1 .. m]
    BY <2>10 DEF Bijection, Injection
  <2>12. u \in Bijection(1 .. m, 2 .. n)
    <3>1. u \in [1 .. m -> 2 .. n]
      BY <2>3, <2>11
    <3>2. \A j, l \in 1 .. m : s[j] = s[l] => j = l
      BY <2>10, <2>11 DEF Bijection, Injection, IsInjective
    <3>3. \A j, l \in 1 .. m : t[j] = t[l] => j = l
      BY <2>3, <2>6 DEF Bijection, Injection, IsInjective
    <3>4. \A c \in 2 .. n : \E j \in 1 .. m : u[j] = c
      BY <2>6, <2>10 DEF Bijection, Surjection
    <3>5. \A j, l \in 1 .. m : u[j] = u[l] => j = l
      BY <2>11, <3>2, <3>3
    <3> HIDE DEF u
    <3> QED BY <3>1, <3>4, <3>5 DEF Bijection, Injection, Surjection, IsInjective
  <2>13. ASSUME NEW j \in 1 .. m PROVE PopHeap(h)[j] = h[u[j]]
    BY <1>2, <2>7, <2>8, <2>9, <2>10, <2>11
  <2>14. DOMAIN PopHeap(h) = 1 .. m
    BY <1>2, <2>9, <2>10
  <2> HIDE DEF u
  <2> QED BY <2>12, <2>13, <2>14 DEF m, n
<1> QED BY <1>1, <1>3, <1>4

\* A relation that KeyCmp refines on S: transitive, and a key that is served after
\* another is not before it.
Refined(Le, S) ==
    /\ \A a, b, c \in S : <<a, b>> \in Le /\ <<b, c>> \in Le => <<a, c>> \in Le
    /\ \A a, b \in S : KeyCmp(a, b) => <<b, a>> \in Le
    /\ \A a, b \in S : ~KeyCmp(a, b) => <<a, b>> \in Le

\* No key of the heap is before its parent.
Ordered(Le, h) == \A j \in 2 .. Len(h) : <<h[Parent(j)], h[j]>> \in Le

\* Popping keeps what KeyCmp refines.
LEMMA PopOrders ==
    ASSUME NEW S, NEW h \in Seq(S), h # <<>>, NEW Le, Refined(Le, S), Ordered(Le, h)
    PROVE  \A j \in 2 .. (Len(h) - 1) : <<PopHeap(h)[Parent(j)], PopHeap(h)[j]>> \in Le
<1> DEFINE n == Len(h)
           m == Len(h) - 1
           rest == SubSeq(h, 1, m)
           path == SinkPath(rest)
           leaf == Leaf(rest)
           sunk == Sunk(rest)
<1>1. n \in Nat \ {0} /\ m \in Nat /\ n = m + 1 /\ h[n] \in S /\ \A j \in 1 .. m : h[j] \in S
  OBVIOUS
<1>2. /\ Len(rest) = m /\ DOMAIN rest = 1 .. m
      /\ \A j \in 1 .. m : rest[j] = h[j]
      /\ PopHeap(h) = IF rest = <<>> THEN <<>> ELSE Rise(sunk, leaf, h[n])
  BY PopHeapIs
<1>3. \A j \in 2 .. m : <<h[Parent(j)], h[j]>> \in Le
  BY <1>1 DEF Ordered, n
<1> HIDE DEF n, m, rest, path, leaf, sunk
<1>4. SUFFICES ASSUME m > 1
               PROVE  \A j \in 2 .. m : <<PopHeap(h)[Parent(j)], PopHeap(h)[j]>> \in Le
  BY <1>1 DEF m
<1>5. /\ path \subseteq 1 .. m /\ 1 \in path
      /\ \A j \in 2 .. m : j \in path <=>
            Parent(j) \in path /\ j = BetterChild(rest, Parent(j))
      /\ leaf \in path /\ 2 * leaf > m
      /\ \A j \in path : j # leaf => 2 * j <= m
  BY <1>1, <1>2, <1>4, SinkFacts DEF path, leaf
<1> DEFINE better(j) == BetterChild(rest, j)
<1>6. ASSUME NEW j \in path, j # leaf
      PROVE  /\ better(j) \in 2 .. m /\ Parent(better(j)) = j
             /\ \A c \in 2 .. m : Parent(c) = j /\ c # better(j) =>
                   <<rest[better(j)], rest[c]>> \in Le
  <2>1. 2 * j <= m /\ j \in 1 .. m
    BY <1>5, <1>6
  <2>2. LET b == better(j) IN
        /\ b \in 1 .. m /\ b > j /\ Parent(b) = j
        /\ \A c \in 1 .. m : Parent(c) = j /\ c # b =>
              \/ c = b + 1 /\ KeyCmp(rest[c], rest[b])
              \/ b = c + 1 /\ ~KeyCmp(rest[b], rest[c])
    BY <1>1, <1>2, <2>1, BetterChildOf
  <2> HIDE DEF better
  <2>3. better(j) \in 2 .. m /\ Parent(better(j)) = j
    BY <2>1, <2>2
  <2>4. ASSUME NEW c \in 2 .. m, Parent(c) = j, c # better(j)
        PROVE  <<rest[better(j)], rest[c]>> \in Le
    <3>1. KeyCmp(rest[c], rest[better(j)]) \/ ~KeyCmp(rest[better(j)], rest[c])
      BY <2>2, <2>4
    <3>2. rest[c] \in S /\ rest[better(j)] \in S
      BY <1>1, <1>2, <2>2
    <3> QED BY <3>1, <3>2 DEF Refined
  <2> QED BY <2>3, <2>4
<1> HIDE DEF better
<1>7. DOMAIN sunk = 1 .. m
  BY <1>2 DEF sunk, Sunk
<1>8. ASSUME NEW j \in 1 .. m
      PROVE  sunk[j] = IF j \in path /\ j # leaf THEN rest[better(j)] ELSE rest[j]
  BY <1>2, <1>8 DEF sunk, Sunk, path, leaf, better
<1>9. \A j \in 1 .. m : sunk[j] \in S
  BY <1>1, <1>2, <1>6, <1>8
<1>10. ASSUME NEW j \in 2 .. m, j # leaf
       PROVE  <<sunk[Parent(j)], sunk[j]>> \in Le
  <2> DEFINE p == Parent(j)
  <2>1. p \in 1 .. m /\ p # leaf
    <3>1. j \in Nat \ {0} /\ j > 1 /\ j <= m
      BY <1>1
    <3>2. p \in Nat /\ p >= 1 /\ p < j /\ 2 * p <= j
      BY <3>1, ParentType
    <3> HIDE DEF p
    <3> QED BY <1>1, <1>5, <3>1, <3>2
  <2>2. CASE p \in path /\ j \in path
    <3>1. sunk[p] = rest[j]
      BY <1>5, <1>8, <2>1, <2>2 DEF better
    <3>2. sunk[j] = rest[better(j)] /\ better(j) \in 2 .. m /\ Parent(better(j)) = j
      BY <1>6, <1>8, <1>10, <2>2
    <3>3. <<h[j], h[better(j)]>> \in Le
      BY <1>3, <3>2
    <3> QED BY <1>2, <3>1, <3>2, <3>3
  <2>3. CASE p \in path /\ j \notin path
    <3>1. sunk[p] = rest[better(p)] /\ sunk[j] = rest[j]
      BY <1>8, <2>1, <2>3
    <3>2. j # better(p)
      BY <1>5, <2>3 DEF better
    <3> QED BY <1>6, <2>1, <2>3, <3>1, <3>2
  <2>4. CASE p \notin path
    <3>1. j \notin path
      BY <1>5, <2>4
    <3>2. sunk[p] = h[p] /\ sunk[j] = h[j]
      BY <1>2, <1>8, <2>1, <2>4, <3>1
    <3> QED BY <1>3, <3>2
  <2> QED BY <2>2, <2>3, <2>4
<1>11. leaf \in 1 .. m /\ rest # <<>>
  BY <1>2, <1>4, <1>5
<1>12. \A j \in 2 .. m : <<Rise(sunk, leaf, h[n])[Parent(j)], Rise(sunk, leaf, h[n])[j]>> \in Le
  <2>1. /\ \A a, b, c \in S : <<a, b>> \in Le /\ <<b, c>> \in Le => <<a, c>> \in Le
        /\ \A a, b \in S : KeyCmp(a, b) => <<b, a>> \in Le
        /\ \A a, b \in S : ~KeyCmp(a, b) => <<a, b>> \in Le
    BY DEF Refined
  <2>2. \A j \in 1 .. m : j # leaf => sunk[j] \in S
    BY <1>9
  <2> QED BY <1>1, <1>5, <1>7, <1>10, <1>11, <2>1, <2>2, RiseOrders
<1> QED BY <1>2, <1>11, <1>12

\* Pushing permutes: the keys are still there, once, and the new one is.
LEMMA PushPermutes ==
    ASSUME NEW S, NEW h \in Seq(S), NEW k \in S
    PROVE  /\ DOMAIN PushHeap(h, k) = 1 .. (Len(h) + 1)
           /\ \E s \in Bijection(1 .. (Len(h) + 1), 1 .. (Len(h) + 1)) :
                 \A j \in 1 .. (Len(h) + 1) :
                    PushHeap(h, k)[j] = IF s[j] = Len(h) + 1 THEN k ELSE h[s[j]]
<1> DEFINE n == Len(h) + 1
           g == Append(h, k)
<1>1. n \in Nat /\ n \in 1 .. n /\ DOMAIN g = 1 .. n /\ \A j \in 1 .. n : j # n => g[j] = h[j]
  OBVIOUS
<1>2. PushHeap(h, k) = Rise(g, n, k)
  BY DEF PushHeap
<1> HIDE DEF n, g
<1>3. /\ DOMAIN Rise(g, n, k) = 1 .. n
      /\ \E s \in Bijection(1 .. n, 1 .. n) :
            \A j \in 1 .. n : Rise(g, n, k)[j] = IF s[j] = n THEN k ELSE g[s[j]]
  BY <1>1, RisePermutes
<1>4. \A s \in Bijection(1 .. n, 1 .. n) : \A j \in 1 .. n : s[j] \in 1 .. n
  BY DEF Bijection, Injection
<1> QED BY <1>1, <1>2, <1>3, <1>4 DEF n

\* Pushing keeps what KeyCmp refines.
LEMMA PushOrders ==
    ASSUME NEW S, NEW h \in Seq(S), NEW k \in S, NEW Le, Refined(Le, S), Ordered(Le, h)
    PROVE  \A j \in 2 .. (Len(h) + 1) : <<PushHeap(h, k)[Parent(j)], PushHeap(h, k)[j]>> \in Le
<1> DEFINE n == Len(h) + 1
           g == Append(h, k)
<1>1. n \in Nat /\ n \in 1 .. n /\ 2 * n > n
      /\ DOMAIN g = 1 .. n /\ \A j \in 1 .. n : j # n => g[j] = h[j] /\ g[j] \in S
  OBVIOUS
<1>2. PushHeap(h, k) = Rise(g, n, k)
  BY DEF PushHeap
<1>3. \A j \in 2 .. n : j # n => <<h[Parent(j)], h[j]>> \in Le
  BY DEF Ordered
<1> HIDE DEF n, g
<1>4. ASSUME NEW j \in 2 .. n, j # n PROVE <<g[Parent(j)], g[j]>> \in Le
  <2>1. j \in Nat \ {0} /\ j > 1 /\ j < n
    BY <1>1, <1>4
  <2>2. Parent(j) \in 1 .. n /\ Parent(j) # n
    BY <1>1, <2>1, ParentType
  <2> QED BY <1>1, <1>3, <1>4, <2>1, <2>2
<1>5. /\ \A a, b, c \in S : <<a, b>> \in Le /\ <<b, c>> \in Le => <<a, c>> \in Le
      /\ \A a, b \in S : KeyCmp(a, b) => <<b, a>> \in Le
      /\ \A a, b \in S : ~KeyCmp(a, b) => <<a, b>> \in Le
  BY DEF Refined
<1>6. \A j \in 2 .. n : <<Rise(g, n, k)[Parent(j)], Rise(g, n, k)[j]>> \in Le
  BY <1>1, <1>4, <1>5, RiseOrders
<1> QED BY <1>2, <1>6 DEF n

\* A function on the positions from 1 to n.
IsArray(r, n) == r = [j \in 1 .. n |-> r[j]]

\* A key that rises in a heap of keys gives a heap of keys.
LEMMA RiseIsArray ==
    ASSUME NEW n, NEW h, DOMAIN h = 1 .. n, NEW i, NEW k
    PROVE  IsArray(Rise(h, i, k), n)
BY DEF Rise, IsArray

LEMMA PushType ==
    ASSUME NEW S, NEW h \in Seq(S), NEW k \in S
    PROVE  PushHeap(h, k) \in Seq(S) /\ Len(PushHeap(h, k)) = Len(h) + 1
<1> DEFINE n == Len(h) + 1
           r == PushHeap(h, k)
<1>1. n \in Nat /\ Len(h) \in Nat /\ DOMAIN Append(h, k) = 1 .. n
  OBVIOUS
<1>2. \A j \in 1 .. n : j # n => h[j] \in S
  OBVIOUS
<1>3. PICK s \in Bijection(1 .. n, 1 .. n) :
          \A j \in 1 .. n : r[j] = IF s[j] = n THEN k ELSE h[s[j]]
  BY PushPermutes
<1>4. \A j \in 1 .. n : s[j] \in 1 .. n
  BY DEF Bijection, Injection
<1> HIDE DEF n
<1>5. r = [j \in 1 .. n |-> r[j]]
  <2>1. IsArray(Rise(Append(h, k), n, k), n)
    BY <1>1, RiseIsArray
  <2>2. IsArray(r, n)
    BY <2>1 DEF PushHeap, n
  <2> HIDE DEF r
  <2> QED BY <2>2 DEF IsArray
<1> HIDE DEF r
<1>6. \A j \in 1 .. n : r[j] \in S
  BY <1>2, <1>3, <1>4
<1>7. r \in Seq(S)
  BY <1>1, <1>5, <1>6, IsASeq
<1>8. Len(r) = n
  BY <1>1, <1>5, <1>7
<1> QED BY <1>7, <1>8 DEF n, r

LEMMA PopType ==
    ASSUME NEW S, NEW h \in Seq(S), h # <<>>
    PROVE  PopHeap(h) \in Seq(S) /\ Len(PopHeap(h)) = Len(h) - 1
<1> DEFINE m == Len(h) - 1
           r == PopHeap(h)
           rest == SubSeq(h, 1, Len(h) - 1)
<1>1. m \in Nat /\ Len(h) \in Nat /\ \A j \in 2 .. Len(h) : h[j] \in S
  OBVIOUS
<1>2. PICK s \in Bijection(1 .. m, 2 .. Len(h)) : \A j \in 1 .. m : r[j] = h[s[j]]
  BY PopPermutes
<1>3. \A j \in 1 .. m : s[j] \in 2 .. Len(h)
  BY DEF Bijection, Injection
<1>4. DOMAIN r = 1 .. m
  BY PopPermutes
<1>5. r = [j \in 1 .. m |-> r[j]]
  <2>1. /\ DOMAIN rest = 1 .. m
        /\ r = IF rest = <<>> THEN <<>> ELSE Rise(Sunk(rest), Leaf(rest), h[Len(h)])
    BY PopHeapIs
  <2> HIDE DEF rest, m
  <2>2. CASE rest = <<>>
    BY <1>4, <2>1, <2>2
  <2>3. CASE rest # <<>>
    <3>1. DOMAIN Sunk(rest) = 1 .. m
      BY <2>1 DEF Sunk
    <3>2. IsArray(r, m)
      BY <2>1, <2>3, <3>1, RiseIsArray
    <3> HIDE DEF r
    <3> QED BY <3>2 DEF IsArray
  <2> QED BY <2>2, <2>3
<1> HIDE DEF r, m
<1>6. \A j \in 1 .. m : r[j] \in S
  BY <1>1, <1>2, <1>3
<1>7. r \in Seq(S)
  BY <1>1, <1>5, <1>6, IsASeq
<1>8. Len(r) = m
  BY <1>1, <1>5, <1>7
<1> QED BY <1>7, <1>8 DEF m, r

\* In an ordered heap nothing is before the top.
LEMMA TopIsFirst ==
    ASSUME NEW S, NEW h \in Seq(S), NEW Le, Refined(Le, S), Ordered(Le, h),
           \A a \in S : <<a, a>> \in Le
    PROVE  \A j \in 1 .. Len(h) : <<h[1], h[j]>> \in Le
<1> DEFINE Good == {j \in Nat : j \in 1 .. Len(h) => <<h[1], h[j]>> \in Le}
<1>1. \A j \in 1 .. Len(h) : h[j] \in S
  OBVIOUS
<1>2. ASSUME NEW j \in Nat, \A m \in Nat : m < j => m \in Good
      PROVE  j \in Good
  <2>1. CASE j \notin 1 .. Len(h)
    BY <2>1
  <2>2. CASE j = 1
    BY <1>1, <2>2
  <2>3. CASE j \in 2 .. Len(h)
    <3>1. j \in Nat \ {0} /\ j > 1 /\ j <= Len(h) /\ Len(h) \in Nat
      BY <2>3
    <3>2. Parent(j) \in Nat /\ Parent(j) \in 1 .. Len(h) /\ Parent(j) < j
      BY <3>1, ParentType
    <3>3. <<h[1], h[Parent(j)]>> \in Le
      BY <1>2, <3>2
    <3>4. <<h[Parent(j)], h[j]>> \in Le
      BY <2>3 DEF Ordered
    <3>5. h[1] \in S /\ h[j] \in S /\ h[Parent(j)] \in S
      BY <1>1, <3>1, <3>2
    <3> QED BY <3>3, <3>4, <3>5 DEF Refined
  <2> QED BY <2>1, <2>2, <2>3
<1> HIDE DEF Good
<1>3. \A j \in Nat : j \in Good
  BY <1>2, StrongInduction
<1> QED BY <1>3 DEF Good

-----------------------------------------------------------------------------
(* The inductive invariant.                                                *)

\* No key's version or stamp is ahead of the counter it was taken from.
UpToDate == \A i \in DOMAIN heap : /\ heap[i].version <= latestVersion[heap[i].head.table]
                                   /\ heap[i].stamp <= fetchTick

\* No two keys of a table have the same version.
Distinct == \A i, j \in DOMAIN heap :
               /\ heap[i].head.table = heap[j].head.table
               /\ heap[i].version = heap[j].version
               => i = j

\* The order of the priorities, and among keys whose stamps are all below the quantum
\* the order of priority and sequence number.
ByPriority == {p \in Key \X Key : p[1].head.pri <= p[2].head.pri}
Young == {k \in Key : k.stamp < Quantum}
ByProgram == {p \in Young \X Young :
                 \/ p[1].head.pri < p[2].head.pri
                 \/ p[1].head.pri = p[2].head.pri /\ p[1].head.seq <= p[2].head.seq}

GIInv == /\ GITypeOK
         /\ UpToDate
         /\ Distinct
         /\ Ordered(ByPriority, heap)
         /\ fetchTick < Quantum => Ordered(ByProgram, heap)

LEMMA KeyType ==
    ASSUME NEW k \in Key
    PROVE  /\ k.head \in Heads /\ k.head.table \in Tables
           /\ k.head.pri \in Nat /\ k.head.seq \in Nat
           /\ k.stamp \in Nat /\ k.version \in Nat
BY HeadsAssumption DEF Key

LEMMA ByPriorityRefined ==
    Refined(ByPriority, Key) /\ \A k \in Key : <<k, k>> \in ByPriority
<1>1. ASSUME NEW a \in Key, NEW b \in Key
      PROVE  <<a, b>> \in ByPriority <=> a.head.pri <= b.head.pri
  BY DEF ByPriority
<1>2. \A k \in Key : k.head.pri \in Nat
  BY KeyType
<1>3. \A a, b \in Key : /\ KeyCmp(a, b) => b.head.pri <= a.head.pri
                        /\ ~KeyCmp(a, b) => a.head.pri <= b.head.pri
  BY <1>2 DEF KeyCmp
<1> QED BY <1>1, <1>2, <1>3 DEF Refined

LEMMA ByProgramRefined ==
    Refined(ByProgram, Young) /\ \A k \in Young : <<k, k>> \in ByProgram
<1>1. ASSUME NEW a \in Young, NEW b \in Young
      PROVE  <<a, b>> \in ByProgram <=>
                \/ a.head.pri < b.head.pri
                \/ a.head.pri = b.head.pri /\ a.head.seq <= b.head.seq
  BY DEF ByProgram
<1>2. \A k \in Young : k.head.pri \in Nat /\ k.head.seq \in Nat /\ k.stamp \in Nat
                       /\ k.stamp < Quantum
  BY KeyType DEF Young
<1>3. \A a, b \in Young : KeyCmp(a, b) <=>
          \/ a.head.pri > b.head.pri
          \/ a.head.pri = b.head.pri /\ a.head.seq > b.head.seq
  BY <1>2, LimitsAssumption DEF KeyCmp, Distance
<1> QED BY <1>1, <1>2, <1>3 DEF Refined

\* While the clock is below the quantum all keys are young.
LEMMA AllYoung ==
    ASSUME GITypeOK, UpToDate, fetchTick < Quantum
    PROVE  heap \in Seq(Young)
<1>1. \A i \in 1 .. Len(heap) : heap[i] \in Key /\ heap[i].stamp <= fetchTick /\ heap[i].stamp \in Nat
  BY KeyType DEF GITypeOK, UpToDate
<1>2. \A i \in 1 .. Len(heap) : heap[i] \in Young
  BY <1>1, LimitsAssumption DEF Young, GITypeOK
<1>3. heap \in Seq(Key)
  BY DEF GITypeOK
<1> QED BY <1>2, <1>3

LEMMA InitInv == Init => GIInv
<1> SUFFICES ASSUME Init PROVE GIInv
  OBVIOUS
<1>1. heap = <<>> /\ Len(heap) = 0 /\ DOMAIN heap = {}
  BY DEF Init
<1>2. GITypeOK
  <2>1. heap \in Seq(Key) /\ Len(heap) <= MaxKeys
    BY <1>1, LimitsAssumption
  <2>2. 0 \in 0 .. MaxVersion /\ 0 \in 0 .. MaxTick
    BY LimitsAssumption
  <2>3. latestVersion \in [Tables -> 0 .. MaxVersion]
    BY <2>2 DEF Init
  <2> QED BY <2>1, <2>2, <2>3 DEF Init, GITypeOK
<1> QED BY <1>1, <1>2 DEF GIInv, UpToDate, Distinct, Ordered

LEMMA NewKeyType ==
    ASSUME GITypeOK, NEW h \in Heads, latestVersion[h.table] < MaxVersion
    PROVE  /\ NewKey(h) \in Key
           /\ NewKey(h).head = h /\ NewKey(h).stamp = fetchTick
           /\ NewKey(h).version = latestVersion[h.table] + 1
<1>1. h.table \in Tables
  BY HeadsAssumption
<1>2. latestVersion[h.table] \in 0 .. MaxVersion
  BY <1>1 DEF GITypeOK
<1>3. latestVersion[h.table] + 1 \in 1 .. MaxVersion
  BY <1>2, LimitsAssumption
<1> QED BY <1>3 DEF NewKey, Key, GITypeOK

\* upsert: the new key has a version no key of the table has.
LEMMA UpsertInv ==
    ASSUME GIInv, NEW h \in Heads, upsert(h)
    PROVE  GIInv'
<1> DEFINE k == NewKey(h)
           n == Len(heap) + 1
<1>1. GITypeOK /\ UpToDate /\ Distinct
  BY DEF GIInv
<1>2. /\ k \in Key /\ k.head = h /\ k.stamp = fetchTick
      /\ k.version = latestVersion[h.table] + 1 /\ h.table \in Tables
  BY <1>1, NewKeyType, HeadsAssumption DEF upsert
<1>3. heap \in Seq(Key) /\ Len(heap) \in Nat /\ Len(heap) < MaxKeys
  BY <1>1 DEF GITypeOK, upsert
<1> HIDE DEF k
<1>4. heap' = PushHeap(heap, k) /\ fetchTick' = fetchTick /\ picking' = picking /\ picked' = picked
  BY DEF upsert, k
<1>5. heap' \in Seq(Key) /\ Len(heap') = n /\ DOMAIN heap' = 1 .. n
  BY <1>2, <1>3, <1>4, PushType, PushPermutes
<1>6. PICK s \in Bijection(1 .. n, 1 .. n) :
         \A j \in 1 .. n : heap'[j] = IF s[j] = n THEN k ELSE heap[s[j]]
  BY <1>2, <1>3, <1>4, PushPermutes
<1>7. \A j \in 1 .. n : s[j] \in 1 .. n
  BY DEF Bijection, Injection
<1>8. \A i, j \in 1 .. n : s[i] = s[j] => i = j
  BY DEF Bijection, Injection, IsInjective
<1>9. \A j \in 1 .. n : \/ s[j] = n /\ heap'[j] = k
                        \/ s[j] \in DOMAIN heap /\ heap'[j] = heap[s[j]]
  BY <1>3, <1>6, <1>7
<1>10. /\ latestVersion' \in [Tables -> 0 .. MaxVersion]
       /\ latestVersion'[h.table] = latestVersion[h.table] + 1
       /\ \A t \in Tables : t # h.table => latestVersion'[t] = latestVersion[t]
       /\ \A t \in Tables : latestVersion[t] \in Nat
  <2>1. latestVersion \in [Tables -> 0 .. MaxVersion]
    BY <1>1 DEF GITypeOK
  <2>2. latestVersion' = [latestVersion EXCEPT ![h.table] = latestVersion[h.table] + 1]
    BY DEF upsert
  <2>3. latestVersion[h.table] + 1 \in 0 .. MaxVersion
    BY <1>2, <2>1, LimitsAssumption DEF upsert
  <2> QED BY <1>2, <2>1, <2>2, <2>3
<1>11. GITypeOK'
  BY <1>1, <1>3, <1>4, <1>5, <1>10, LimitsAssumption DEF GITypeOK
<1>12. \A i \in DOMAIN heap : /\ heap[i] \in Key /\ heap[i].head.table \in Tables
                              /\ heap[i].version \in Nat
                              /\ heap[i].version <= latestVersion[heap[i].head.table]
                              /\ heap[i].stamp <= fetchTick
  BY <1>1, <1>3, KeyType DEF UpToDate
<1>13. UpToDate'
  <2>1. SUFFICES ASSUME NEW j \in 1 .. n
                 PROVE  /\ heap'[j].version <= latestVersion'[heap'[j].head.table]
                        /\ heap'[j].stamp <= fetchTick'
    BY <1>5 DEF UpToDate
  <2>2. CASE s[j] = n /\ heap'[j] = k
    BY <1>1, <1>2, <1>4, <1>10, <2>2 DEF GITypeOK
  <2>3. CASE s[j] \in DOMAIN heap /\ heap'[j] = heap[s[j]]
    BY <1>4, <1>10, <1>12, <2>3
  <2> QED BY <1>9, <2>2, <2>3
<1>14. Distinct'
  <2>1. SUFFICES ASSUME NEW i \in 1 .. n, NEW j \in 1 .. n,
                        heap'[i].head.table = heap'[j].head.table,
                        heap'[i].version = heap'[j].version
                 PROVE  s[i] = s[j]
    BY <1>5, <1>8 DEF Distinct
  <2>2. CASE s[i] \in DOMAIN heap /\ heap'[i] = heap[s[i]]
             /\ s[j] \in DOMAIN heap /\ heap'[j] = heap[s[j]]
    BY <1>1, <2>1, <2>2 DEF Distinct
  <2>3. CASE s[i] \in DOMAIN heap /\ heap'[i] = heap[s[i]] /\ s[j] = n /\ heap'[j] = k
    BY <1>2, <1>10, <1>12, <2>1, <2>3
  <2>4. CASE s[j] \in DOMAIN heap /\ heap'[j] = heap[s[j]] /\ s[i] = n /\ heap'[i] = k
    BY <1>2, <1>10, <1>12, <2>1, <2>4
  <2> QED BY <1>9, <2>2, <2>3, <2>4
<1>15. Ordered(ByPriority, heap)'
  <2>1. Ordered(ByPriority, heap)
    BY DEF GIInv
  <2>2. \A j \in 2 .. n : <<PushHeap(heap, k)[Parent(j)], PushHeap(heap, k)[j]>> \in ByPriority
    BY <1>2, <1>3, <2>1, PushOrders, ByPriorityRefined
  <2> QED BY <1>4, <1>5, <2>2 DEF Ordered, ByPriority
<1>16. ASSUME fetchTick < Quantum PROVE Ordered(ByProgram, heap)'
  <2>1. Ordered(ByProgram, heap) /\ heap \in Seq(Young) /\ k \in Young
    BY <1>1, <1>2, <1>16, AllYoung DEF GIInv, Young
  <2>2. \A j \in 2 .. n : <<PushHeap(heap, k)[Parent(j)], PushHeap(heap, k)[j]>> \in ByProgram
    BY <2>1, PushOrders, ByProgramRefined
  <2> QED BY <1>4, <1>5, <2>2 DEF Ordered, ByProgram, Young
<1> HIDE DEF n
<1> QED BY <1>4, <1>11, <1>13, <1>14, <1>15, <1>16 DEF GIInv

\* A pop of the heap, whatever pickBest makes of the top.
LEMMA PopInv ==
    ASSUME GIInv, heap # <<>>, heap' = PopHeap(heap),
           latestVersion' = latestVersion, fetchTick' = fetchTick,
           picking' \in BOOLEAN, picked' \in Tables \cup {NoTable}
    PROVE  GIInv'
<1> DEFINE m == Len(heap) - 1
           n == Len(heap)
<1>1. GITypeOK /\ UpToDate /\ Distinct
  BY DEF GIInv
<1>2. heap \in Seq(Key) /\ n \in Nat \ {0} /\ m \in Nat /\ n = m + 1 /\ n <= MaxKeys
      /\ DOMAIN heap = 1 .. n
  BY <1>1 DEF GITypeOK
<1>3. heap' \in Seq(Key) /\ Len(heap') = m /\ DOMAIN heap' = 1 .. m
  BY <1>2, PopType, PopPermutes
<1>4. PICK s \in Bijection(1 .. m, 2 .. n) : \A j \in 1 .. m : heap'[j] = heap[s[j]]
  BY <1>2, PopPermutes
<1>5. \A j \in 1 .. m : s[j] \in 2 .. n
  BY DEF Bijection, Injection
<1>6. \A i, j \in 1 .. m : s[i] = s[j] => i = j
  BY DEF Bijection, Injection, IsInjective
<1>7. GITypeOK'
  BY <1>1, <1>2, <1>3, LimitsAssumption DEF GITypeOK
<1>8. \A j \in 1 .. m : s[j] \in DOMAIN heap /\ heap'[j] = heap[s[j]]
  BY <1>2, <1>4, <1>5
<1>9. UpToDate'
  BY <1>1, <1>3, <1>8 DEF UpToDate
<1>10. Distinct'
  BY <1>1, <1>3, <1>6, <1>8 DEF Distinct
<1>11. Ordered(ByPriority, heap)'
  <2>1. Ordered(ByPriority, heap)
    BY DEF GIInv
  <2>2. \A j \in 2 .. m : <<PopHeap(heap)[Parent(j)], PopHeap(heap)[j]>> \in ByPriority
    BY <1>2, <2>1, PopOrders, ByPriorityRefined
  <2> QED BY <1>3, <2>2 DEF Ordered, ByPriority
<1>12. ASSUME fetchTick < Quantum PROVE Ordered(ByProgram, heap)'
  <2>1. Ordered(ByProgram, heap) /\ heap \in Seq(Young)
    BY <1>1, <1>12, AllYoung DEF GIInv
  <2>2. \A j \in 2 .. m : <<PopHeap(heap)[Parent(j)], PopHeap(heap)[j]>> \in ByProgram
    BY <2>1, PopOrders, ByProgramRefined
  <2> QED BY <1>3, <2>2 DEF Ordered, ByProgram, Young
<1> HIDE DEF m, n
<1> QED BY <1>7, <1>9, <1>10, <1>11, <1>12 DEF GIInv

\* A fetch lets the clock run; the order of the program is promised until it has
\* reached the quantum.
LEMMA TickInv ==
    ASSUME GIInv, Tick
    PROVE  GIInv'
<1>1. GITypeOK /\ UpToDate /\ Distinct
  BY DEF GIInv
<1>2. /\ heap' = heap /\ latestVersion' = latestVersion /\ picking' = picking
      /\ picked' = picked /\ fetchTick' = fetchTick + 1 /\ fetchTick < MaxTick
  BY DEF Tick
<1>3. fetchTick \in Nat /\ fetchTick' \in 0 .. MaxTick
  BY <1>1, <1>2, LimitsAssumption DEF GITypeOK
<1>4. GITypeOK'
  BY <1>1, <1>2, <1>3 DEF GITypeOK
<1>5. UpToDate'
  <2>1. \A i \in DOMAIN heap : heap[i].stamp \in Nat
    BY <1>1, KeyType DEF GITypeOK
  <2> QED BY <1>1, <1>2, <1>3, <2>1 DEF UpToDate
<1>6. Distinct'
  BY <1>1, <1>2 DEF Distinct
<1>7. Ordered(ByPriority, heap)'
  BY <1>2 DEF GIInv, Ordered, ByPriority
<1>8. fetchTick' < Quantum => Ordered(ByProgram, heap)'
  <2>1. fetchTick' < Quantum => fetchTick < Quantum
    BY <1>2, <1>3, LimitsAssumption
  <2> QED BY <1>2, <2>1 DEF GIInv, Ordered, ByProgram, Young
<1> QED BY <1>4, <1>5, <1>6, <1>7, <1>8 DEF GIInv

LEMMA NextInv ==
    ASSUME GIInv, [Next]_vars
    PROVE  GIInv'
<1>1. ASSUME NEW h \in Heads, upsert(h) PROVE GIInv'
  BY <1>1, UpsertInv
<1>2. CASE PickStale
  BY <1>2, PopInv DEF PickStale, GIInv, GITypeOK
<1>3. CASE PickTop
  <2>1. heap \in Seq(Key) /\ heap # <<>>
    BY <1>3 DEF PickTop, GIInv, GITypeOK
  <2>2. heap[1] \in Key
    BY <2>1
  <2>3. heap[1].head.table \in Tables
    BY <2>2, KeyType
  <2> QED BY <1>3, <2>3, PopInv DEF PickTop
<1>4. CASE PickNothing
  <2>1. /\ heap' = heap /\ latestVersion' = latestVersion /\ fetchTick' = fetchTick
        /\ picking' = FALSE /\ picked' = NoTable
    BY <1>4 DEF PickNothing
  <2> QED BY <2>1 DEF GIInv, GITypeOK, UpToDate, Distinct, Ordered, ByPriority, ByProgram, Young
<1>5. CASE Tick
  BY <1>5, TickInv
<1>6. CASE UNCHANGED vars
  <2>1. /\ heap' = heap /\ latestVersion' = latestVersion /\ fetchTick' = fetchTick
        /\ picking' = picking /\ picked' = picked
    BY <1>6 DEF vars
  <2> QED BY <2>1 DEF GIInv, GITypeOK, UpToDate, Distinct, Ordered, ByPriority, ByProgram, Young
<1> QED BY <1>1, <1>2, <1>3, <1>4, <1>5, <1>6 DEF Next, pickBest

\* The index keeps the invariant.
THEOREM IndexKeepsInvariant == Spec => []GIInv
<1> QED BY InitInv, NextInv, PTL DEF Spec

\* The heap, the versions, the clock and the last pick keep their types: no upsert and
\* no pop, wherever a key rises to or the hole sinks to, leaves a hole or a foreign key.
THEOREM IndexTypeCorrect == Spec => []GITypeOK
<1>1. GIInv => GITypeOK
  BY DEF GIInv
<1> QED BY <1>1, IndexKeepsInvariant, PTL

\* Two current keys of a table would have the same version.
LEMMA CurrentKeyUnique ==
    ASSUME GIInv, NEW t \in Tables, NEW i \in CurrentKeys(t), NEW j \in CurrentKeys(t)
    PROVE  i = j
BY DEF GIInv, Distinct, CurrentKeys, Current

\* A table is never picked twice for one upsert: at most one of its keys is current.
THEOREM OneKeyIsCurrent == Spec => []OneCurrentKey
<1>1. ASSUME GIInv, NEW t \in Tables PROVE Cardinality(CurrentKeys(t)) <= 1
  <2>1. CASE CurrentKeys(t) = {}
    BY <2>1, FS_EmptySet
  <2>2. CASE CurrentKeys(t) # {}
    <3>1. PICK i \in CurrentKeys(t) : TRUE
      BY <2>2
    <3>2. CurrentKeys(t) = {i}
      BY <1>1, <3>1, CurrentKeyUnique
    <3> QED BY <3>2, FS_Singleton
  <2> QED BY <2>1, <2>2
<1>2. GIInv => OneCurrentKey
  BY <1>1 DEF OneCurrentKey
<1> QED BY <1>2, IndexKeepsInvariant, PTL

\* Priorities are respected although KeyCmp is no order.
THEOREM PrioritiesAlwaysHeap == Spec => []PriorityHeap
<1>1. ASSUME GIInv, NEW i \in DOMAIN heap, i > 1
      PROVE  heap[Parent(i)].head.pri <= heap[i].head.pri
  <2>1. i \in 2 .. Len(heap)
    BY <1>1 DEF GIInv, GITypeOK
  <2>2. <<heap[Parent(i)], heap[i]>> \in ByPriority
    BY <1>1, <2>1 DEF GIInv, Ordered
  <2> QED BY <2>2 DEF ByPriority
<1>2. GIInv => PriorityHeap
  BY <1>1 DEF PriorityHeap
<1> QED BY <1>2, IndexKeepsInvariant, PTL

-----------------------------------------------------------------------------
(* The heap implements the index.                                          *)

\* The refinement mapping, of a heap h and versions v.
CurrentIn(h, v, t) == {i \in DOMAIN h : h[i].head.table = t /\ h[i].version = v[h[i].head.table]}
HeadIn(h, v, t) == IF CurrentIn(h, v, t) = {} THEN NoHead
                   ELSE h[CHOOSE i \in CurrentIn(h, v, t) : TRUE].head

LEMMA LiveIs ==
    /\ Live = [t \in Tables |-> HeadIn(heap, latestVersion, t)]
    /\ Live' = [t \in Tables |-> HeadIn(heap', latestVersion', t)]
BY DEF Live, HeadIn, CurrentIn, CurrentKeys, Current

\* A current key is the one the table is live under.
LEMMA HeadInIs ==
    ASSUME NEW h, NEW v, NEW t,
           \A i, j \in DOMAIN h : h[i].head.table = h[j].head.table
                                  /\ h[i].version = h[j].version => i = j
    PROVE  /\ \A i \in CurrentIn(h, v, t) : HeadIn(h, v, t) = h[i].head
           /\ CurrentIn(h, v, t) = {} => HeadIn(h, v, t) = NoHead
<1>1. ASSUME NEW i \in CurrentIn(h, v, t) PROVE HeadIn(h, v, t) = h[i].head
  <2>1. \A j \in CurrentIn(h, v, t) : j = i
    BY DEF CurrentIn
  <2>2. (CHOOSE j \in CurrentIn(h, v, t) : TRUE) = i
    BY <2>1
  <2> QED BY <2>2 DEF HeadIn
<1> QED BY <1>1 DEF HeadIn

\* A live table has a current key.
LEMMA LiveKey ==
    ASSUME GIInv, NEW t \in Tables, Live[t] # NoHead
    PROVE  \E i \in DOMAIN heap : heap[i].head.table = t /\ Current(heap[i])
                                  /\ Live[t] = heap[i].head
<1>1. \A i, j \in DOMAIN heap : heap[i].head.table = heap[j].head.table
                                /\ heap[i].version = heap[j].version => i = j
  BY DEF GIInv, Distinct
<1>2. Live[t] = HeadIn(heap, latestVersion, t)
  BY LiveIs
<1>3. PICK i \in CurrentIn(heap, latestVersion, t) : TRUE
  BY <1>1, <1>2, HeadInIs
<1>4. Live[t] = heap[i].head
  BY <1>1, <1>2, HeadInIs
<1> QED BY <1>4 DEF CurrentIn, Current

\* A push indexes the table under the new head and leaves the other tables alone.
LEMMA UpsertLive ==
    ASSUME GIInv, GIInv', NEW h \in Heads, upsert(h)
    PROVE  Live' = [Live EXCEPT ![h.table] = h]
<1> DEFINE k == NewKey(h)
           n == Len(heap) + 1
           was(t) == CurrentIn(heap, latestVersion, t)
           is(t) == CurrentIn(heap', latestVersion', t)
<1>1. GITypeOK
  BY DEF GIInv
<1>2. /\ k \in Key /\ k.head = h /\ h.table \in Tables
      /\ k.version = latestVersion[h.table] + 1
  BY <1>1, NewKeyType, HeadsAssumption DEF upsert
<1>3. heap \in Seq(Key) /\ Len(heap) \in Nat /\ DOMAIN heap = 1 .. Len(heap)
  BY <1>1 DEF GITypeOK
<1>4. /\ latestVersion'[h.table] = latestVersion[h.table] + 1
      /\ \A t \in Tables : t # h.table => latestVersion'[t] = latestVersion[t]
  BY <1>1, <1>2 DEF GITypeOK, upsert
<1> HIDE DEF k
<1>5. heap' = PushHeap(heap, k)
  BY DEF upsert, k
<1>6. DOMAIN heap' = 1 .. n
  BY <1>2, <1>3, <1>5, PushPermutes
<1>7. PICK s \in Bijection(1 .. n, 1 .. n) :
         \A j \in 1 .. n : heap'[j] = IF s[j] = n THEN k ELSE heap[s[j]]
  BY <1>2, <1>3, <1>5, PushPermutes
<1>8. \A j \in 1 .. n : s[j] \in 1 .. n
  BY DEF Bijection, Injection
<1>9. \A l \in 1 .. n : \E j \in 1 .. n : s[j] = l
  BY DEF Bijection, Surjection
<1>10. /\ \A i, j \in DOMAIN heap : heap[i].head.table = heap[j].head.table
                                    /\ heap[i].version = heap[j].version => i = j
       /\ \A i, j \in DOMAIN heap' : heap'[i].head.table = heap'[j].head.table
                                     /\ heap'[i].version = heap'[j].version => i = j
  BY DEF GIInv, Distinct
<1>11. HeadIn(heap', latestVersion', h.table) = h
  <2>1. PICK j \in 1 .. n : s[j] = n
    <3>1. n \in 1 .. n
      BY <1>3
    <3> HIDE DEF n
    <3> QED BY <1>9, <3>1
  <2>2. heap'[j] = k
    BY <1>7, <2>1
  <2>3. j \in is(h.table)
    BY <1>2, <1>4, <1>6, <2>2 DEF CurrentIn
  <2> QED BY <1>2, <1>10, <2>2, <2>3, HeadInIs
<1>12. ASSUME NEW t \in Tables, t # h.table
       PROVE  HeadIn(heap', latestVersion', t) = HeadIn(heap, latestVersion, t)
  <2>1. CASE was(t) = {}
    <3>1. ASSUME NEW j \in is(t) PROVE FALSE
      <4>1. j \in 1 .. n /\ heap'[j].head.table = t /\ heap'[j].version = latestVersion'[t]
        BY <1>6, <3>1 DEF CurrentIn
      <4>2. s[j] # n
        BY <1>2, <1>7, <1>12, <4>1
      <4>3. s[j] \in DOMAIN heap /\ heap'[j] = heap[s[j]]
        BY <1>3, <1>7, <1>8, <4>1, <4>2
      <4>4. s[j] \in was(t)
        BY <1>4, <1>12, <4>1, <4>3 DEF CurrentIn
      <4> QED BY <2>1, <4>4
    <3> HIDE DEF was, is
    <3>2. is(t) = {}
      BY <3>1
    <3> QED BY <1>10, <2>1, <3>2, HeadInIs DEF was, is
  <2>2. CASE was(t) # {}
    <3>1. PICK i \in was(t) : TRUE
      BY <2>2
    <3>2. i \in 1 .. Len(heap) /\ heap[i].head.table = t /\ heap[i].version = latestVersion[t]
      BY <1>3, <3>1 DEF CurrentIn
    <3>a. i \in 1 .. n /\ i # n
      BY <1>3, <3>2
    <3>3. PICK j \in 1 .. n : s[j] = i
      <4> HIDE DEF n
      <4> QED BY <1>9, <3>a
    <3>4. heap'[j] = heap[i]
      <4> HIDE DEF n
      <4> QED BY <1>7, <3>3, <3>a
    <3>5. j \in is(t)
      BY <1>4, <1>6, <1>12, <3>2, <3>4 DEF CurrentIn
    <3>6. HeadIn(heap', latestVersion', t) = heap'[j].head
      BY <1>10, <3>5, HeadInIs
    <3>7. HeadIn(heap, latestVersion, t) = heap[i].head
      BY <1>10, <3>1, HeadInIs
    <3> QED BY <3>4, <3>6, <3>7
  <2> QED BY <2>1, <2>2
<1> QED BY <1>2, <1>11, <1>12, LiveIs

\* A pop takes the table of the top off the index if that key was current, and nothing
\* otherwise.
LEMMA PopLive ==
    ASSUME GIInv, GIInv', heap # <<>>, heap' = PopHeap(heap), latestVersion' = latestVersion
    PROVE  Live' = IF Current(heap[1]) THEN [Live EXCEPT ![heap[1].head.table] = NoHead]
                   ELSE Live
<1> DEFINE n == Len(heap)
           m == Len(heap) - 1
           was(t) == CurrentIn(heap, latestVersion, t)
           is(t) == CurrentIn(heap', latestVersion', t)
<1>1. heap \in Seq(Key) /\ n \in Nat \ {0} /\ m \in Nat /\ n = m + 1 /\ DOMAIN heap = 1 .. n
  BY DEF GIInv, GITypeOK
<1>2. DOMAIN heap' = 1 .. m
  BY <1>1, PopPermutes
<1>3. PICK s \in Bijection(1 .. m, 2 .. n) : \A j \in 1 .. m : heap'[j] = heap[s[j]]
  BY <1>1, PopPermutes
<1>4. \A j \in 1 .. m : s[j] \in 2 .. n
  BY DEF Bijection, Injection
<1>5. \A l \in 2 .. n : \E j \in 1 .. m : s[j] = l
  BY DEF Bijection, Surjection
<1>6. /\ \A i, j \in DOMAIN heap : heap[i].head.table = heap[j].head.table
                                   /\ heap[i].version = heap[j].version => i = j
      /\ \A i, j \in DOMAIN heap' : heap'[i].head.table = heap'[j].head.table
                                    /\ heap'[i].version = heap'[j].version => i = j
  BY DEF GIInv, Distinct
<1> HIDE DEF n, m
<1>7. ASSUME NEW t \in Tables, was(t) \subseteq {1}
      PROVE  HeadIn(heap', latestVersion', t) = NoHead
  <2>1. ASSUME NEW j \in is(t) PROVE FALSE
    <3>1. j \in 1 .. m /\ heap'[j].head.table = t /\ heap'[j].version = latestVersion[t]
      BY <1>2, <2>1 DEF CurrentIn
    <3>2. s[j] \in was(t) /\ s[j] # 1
      BY <1>1, <1>3, <1>4, <3>1 DEF CurrentIn
    <3> QED BY <1>7, <3>2
  <2> HIDE DEF is
  <2>2. is(t) = {}
    BY <2>1
  <2> QED BY <1>6, <2>2, HeadInIs DEF is
<1>8. ASSUME NEW t \in Tables, NEW i \in was(t), i # 1
      PROVE  HeadIn(heap', latestVersion', t) = HeadIn(heap, latestVersion, t)
  <2>1. i \in 2 .. n /\ heap[i].head.table = t /\ heap[i].version = latestVersion[t]
    BY <1>1, <1>8 DEF CurrentIn
  <2>2. PICK j \in 1 .. m : s[j] = i
    BY <1>5, <2>1
  <2>3. heap'[j] = heap[i]
    BY <1>3, <2>2
  <2>4. j \in is(t)
    BY <1>2, <2>1, <2>3 DEF CurrentIn
  <2>5. HeadIn(heap', latestVersion', t) = heap'[j].head
    BY <1>6, <2>4, HeadInIs
  <2>6. HeadIn(heap, latestVersion, t) = heap[i].head
    BY <1>6, <1>8, HeadInIs
  <2> QED BY <2>3, <2>5, <2>6
<1>9. ASSUME NEW t \in Tables, 1 \notin was(t)
      PROVE  HeadIn(heap', latestVersion', t) = HeadIn(heap, latestVersion, t)
  <2>1. CASE was(t) = {}
    BY <1>6, <1>7, <2>1, HeadInIs
  <2>2. CASE was(t) # {}
    <3>1. PICK i \in was(t) : TRUE
      BY <2>2
    <3> HIDE DEF was
    <3> QED BY <1>8, <1>9, <3>1
  <2> QED BY <2>1, <2>2
<1>10. heap[1] \in Key /\ heap[1].head.table \in Tables
  BY <1>1, KeyType
<1>11. \A t \in Tables : 1 \in was(t) <=> Current(heap[1]) /\ t = heap[1].head.table
  BY <1>1 DEF CurrentIn, Current
<1>12. CASE Current(heap[1])
  <2>1. was(heap[1].head.table) \subseteq {1}
    <3>1. 1 \in was(heap[1].head.table)
      BY <1>10, <1>11, <1>12
    <3>2. \A i \in was(heap[1].head.table) : i = 1
      BY <1>6, <3>1 DEF CurrentIn
    <3> QED BY <3>2
  <2>2. HeadIn(heap', latestVersion', heap[1].head.table) = NoHead
    BY <1>7, <1>10, <2>1
  <2>3. \A t \in Tables : t # heap[1].head.table =>
            HeadIn(heap', latestVersion', t) = HeadIn(heap, latestVersion, t)
    BY <1>9, <1>11
  <2> QED BY <1>10, <1>12, <2>2, <2>3, LiveIs
<1>13. CASE ~Current(heap[1])
  <2>1. \A t \in Tables :
            HeadIn(heap', latestVersion', t) = HeadIn(heap, latestVersion, t)
    BY <1>9, <1>11, <1>13
  <2> QED BY <1>13, <2>1, LiveIs
<1> QED BY <1>12, <1>13

\* What the top is: no live table precedes its.
LEMMA TopPrecedes ==
    ASSUME GIInv, heap # <<>>, Current(heap[1]), NEW u \in Tables, Live[u] # NoHead
    PROVE  /\ Live[heap[1].head.table] = heap[1].head
           /\ heap[1].head \in Heads /\ heap[1].head.table \in Tables
           /\ ~Index!Precedes(u, heap[1].head.table)
<1> DEFINE t == heap[1].head.table
<1>1. heap \in Seq(Key) /\ 1 \in DOMAIN heap /\ heap[1] \in Key
  BY DEF GIInv, GITypeOK
<1>2. heap[1].head \in Heads /\ t \in Tables /\ heap[1].head.pri \in Nat /\ heap[1].head.seq \in Nat
  BY <1>1, KeyType
<1>3. Live[t] = heap[1].head
  <2>1. 1 \in CurrentIn(heap, latestVersion, t)
    BY <1>1 DEF CurrentIn, Current
  <2>2. HeadIn(heap, latestVersion, t) = heap[1].head
    BY <2>1, HeadInIs DEF GIInv, Distinct
  <2> QED BY <1>2, <2>2, LiveIs
<1>4. PICK i \in DOMAIN heap : Live[u] = heap[i].head
  BY LiveKey
<1>5. i \in 1 .. Len(heap) /\ heap[i] \in Key
  BY <1>1
<1>6. heap[i].head.pri \in Nat /\ heap[i].head.seq \in Nat
  BY <1>5, KeyType
<1>7. heap[1].head.pri <= heap[i].head.pri
  <2>1. Ordered(ByPriority, heap)
    BY DEF GIInv
  <2>2. <<heap[1], heap[i]>> \in ByPriority
    BY <1>1, <1>5, <2>1, TopIsFirst, ByPriorityRefined
  <2> QED BY <2>2 DEF ByPriority
<1>8. ASSUME fetchTick < Quantum, heap[i].head.pri = heap[1].head.pri
      PROVE  heap[1].head.seq <= heap[i].head.seq
  <2>1. Ordered(ByProgram, heap) /\ heap \in Seq(Young)
    BY <1>8, AllYoung DEF GIInv
  <2>2. <<heap[1], heap[i]>> \in ByProgram
    BY <1>5, <2>1, TopIsFirst, ByProgramRefined
  <2> QED BY <1>2, <1>6, <1>8, <2>2 DEF ByProgram
<1> HIDE DEF t
<1>9. ~Index!Precedes(u, t)
  <2>1. Index!Precedes(u, t) <=>
           \/ heap[i].head.pri < heap[1].head.pri
           \/ /\ fetchTick < Quantum
              /\ heap[i].head.pri = heap[1].head.pri
              /\ heap[i].head.seq < heap[1].head.seq
    BY <1>3, <1>4 DEF Index!Precedes
  <2> QED BY <1>2, <1>6, <1>7, <1>8, <2>1
<1> QED BY <1>2, <1>3, <1>9 DEF t

\* An empty heap stands for the index without tables.
LEMMA EmptyLive ==
    ASSUME heap = <<>>
    PROVE  Live = [t \in Tables |-> NoHead]
<1>1. DOMAIN heap = {}
  OBVIOUS
<1>2. \A t \in Tables : CurrentIn(heap, latestVersion, t) = {}
  BY <1>1 DEF CurrentIn
<1>3. \A t \in Tables : HeadIn(heap, latestVersion, t) = NoHead
  BY <1>2 DEF HeadIn
<1> QED BY <1>3, LiveIs

\* Every step of the heap is a step of the index, or none.
LEMMA IndexStep ==
    ASSUME GIInv, GIInv', [Next]_vars
    PROVE  [Index!Next]_<<Live, fetchTick, picked>>
<1>1. ASSUME NEW h \in Heads, upsert(h) PROVE Index!Upsert(h)
  BY <1>1, UpsertLive DEF upsert, Index!Upsert
<1>2. CASE PickStale
  <2>1. Live' = Live
    BY <1>2, PopLive DEF PickStale
  <2> QED BY <1>2, <2>1 DEF PickStale
<1>3. CASE PickTop
  <2> DEFINE t == heap[1].head.table
  <2>1. heap # <<>> /\ Current(heap[1]) /\ picked' = t /\ fetchTick' = fetchTick
    BY <1>3 DEF PickTop
  <2>2. Live' = [Live EXCEPT ![t] = NoHead]
    BY <1>3, <2>1, PopLive DEF PickTop
  <2>3. heap[1] \in Key /\ t \in Tables
    <3>1. heap \in Seq(Key)
      BY DEF GIInv, GITypeOK
    <3>2. heap[1] \in Key
      BY <2>1, <3>1
    <3> QED BY <3>2, KeyType
  <2>4. Live[t] # NoHead
    <3>1. 1 \in CurrentIn(heap, latestVersion, t)
      <4>1. 1 \in DOMAIN heap
        BY <2>1 DEF GIInv, GITypeOK
      <4> QED BY <2>1, <4>1 DEF CurrentIn, Current
    <3>2. HeadIn(heap, latestVersion, t) = heap[1].head
      BY <3>1, HeadInIs DEF GIInv, Distinct
    <3>3. heap[1].head \in Heads
      BY <2>3, KeyType
    <3> QED BY <2>3, <3>2, <3>3, LiveIs, HeadsAssumption
  <2>5. \A u \in Tables : Live[u] # NoHead => ~Index!Precedes(u, t)
    BY <2>1, TopPrecedes
  <2> HIDE DEF t
  <2>6. Index!Pick(t)
    BY <2>1, <2>2, <2>3, <2>4, <2>5 DEF Index!Pick, Index!Indexed
  <2> QED BY <2>3, <2>6 DEF Index!Next
<1>4. CASE PickNothing
  <2>1. heap = <<>> /\ heap' = heap /\ latestVersion' = latestVersion
        /\ fetchTick' = fetchTick /\ picked' = NoTable
    BY <1>4 DEF PickNothing
  <2>2. Live' = Live
    BY <2>1, LiveIs
  <2>3. Index!Indexed = {}
    BY <2>1, EmptyLive DEF Index!Indexed
  <2>4. Index!PickNone
    BY <2>1, <2>2, <2>3 DEF Index!PickNone
  <2> QED BY <2>4 DEF Index!Next
<1>5. CASE Tick
  <2>1. Live' = Live
    BY <1>5, LiveIs DEF Tick
  <2>2. Index!Tick
    BY <1>5, <2>1 DEF Tick, Index!Tick
  <2> QED BY <2>2 DEF Index!Next
<1>6. CASE UNCHANGED vars
  <2>1. Live' = Live /\ fetchTick' = fetchTick /\ picked' = picked
    BY <1>6, LiveIs DEF vars
  <2> QED BY <2>1
<1> QED BY <1>1, <1>2, <1>3, <1>4, <1>5, <1>6 DEF Next, pickBest, Index!Next

\* The heap with its stale keys implements the index of module TableIndex: pickBest
\* forgets no table, yields none twice, and respects priorities always and the order of
\* the program while all stamps lie within the quantum.
THEOREM HeapImplementsIndex == Spec => ImplementsIndex
<1>1. Init => Index!Init
  <2>1. SUFFICES ASSUME Init PROVE Index!Init
    OBVIOUS
  <2> QED BY <2>1, EmptyLive DEF Init, Index!Init
<1>2. GIInv /\ GIInv' /\ [Next]_vars => [Index!Next]_<<Live, fetchTick, picked>>
  BY IndexStep
<1> QED BY <1>1, <1>2, IndexKeepsInvariant, PTL DEF Spec, ImplementsIndex, Index!Spec

=============================================================================
