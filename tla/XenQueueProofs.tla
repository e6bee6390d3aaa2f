--------------------------- MODULE XenQueueProofs ---------------------------
(***************************************************************************)
(* Proofs about XenQueue for any threads and any finite set of elements:   *)
(* what the walk along the links returns, that the ring reads the same in  *)
(* both directions between two calls, and that the queue is a FIFO.        *)
(***************************************************************************)
EXTENDS XenQueue, TLAPS, WellFoundedInduction, FiniteSetTheorems

(* A set of naturals that is not empty has a least element: this is how an *)
(* induction is done below, by the least number at which it would fail.    *)
LEMMA Least ==
    ASSUME NEW T \in SUBSET Nat, T # {}
    PROVE  \E n \in T : \A m \in T : n <= m
<1> DEFINE R == StrictSubsetOrdering(Nat)
           U == {0 .. n : n \in T}
<1>1. IsWellFoundedOn(R, FiniteSubsetsOf(Nat))
    BY FS_StrictSubsetOrderingWellFounded
<1>2. U \subseteq FiniteSubsetsOf(Nat)
  <2>1. \A n \in T : 0 .. n \in SUBSET Nat /\ IsFiniteSet(0 .. n)
      BY FS_Interval
  <2> QED BY <2>1 DEF FiniteSubsetsOf
<1>3. U # {}
    OBVIOUS
<1>4. \E x \in U : \A y \in U : ~(<<y, x>> \in R)
  <2> HIDE DEF R, U
  <2> QED BY <1>1, <1>2, <1>3, WFMin
<1>5. PICK n \in T : \A m \in T : <<0 .. m, 0 .. n>> \notin R
    BY <1>4
<1>6. ASSUME NEW m \in T, m < n PROVE FALSE
  <2>1. 0 .. m \in SUBSET Nat /\ 0 .. n \in SUBSET Nat
      OBVIOUS
  <2>2. 0 .. m \subseteq 0 .. n
      BY <1>6
  <2>3. n \in 0 .. n /\ n \notin 0 .. m
      BY <1>6
  <2>4. <<0 .. m, 0 .. n>> \in R
      BY <2>1, <2>2, <2>3 DEF StrictSubsetOrdering
  <2> QED BY <2>4, <1>5
<1> QED BY <1>6

-----------------------------------------------------------------------------
(* The way along the links from the head is the queue q.                   *)
NodeAt(q, i) == IF i \in 1 .. Len(q) THEN q[i] ELSE QHead
Linked(links, q) ==
    /\ q \in Seq(Elements)
    /\ \A i, j \in 1 .. Len(q) : q[i] = q[j] => i = j
    /\ \A i \in 0 .. Len(q) : links[NodeAt(q, i)] = NodeAt(q, i + 1)

(* A walk of any length along the links exists.                            *)
LEMMA WalkExists ==
    ASSUME NEW links, NEW M \in Nat
    PROVE  \E w : w = [i \in 0 .. M |-> IF i = 0 THEN QHead ELSE links[w[i - 1]]]
<1> DEFINE T == {k \in Nat : ~\E w : w = [i \in 0 .. k |-> IF i = 0 THEN QHead ELSE links[w[i - 1]]]}
<1>1. SUFFICES ASSUME T # {} PROVE FALSE
    OBVIOUS
<1>2. PICK n \in T : \A m \in T : n <= m
  <2> HIDE DEF T
  <2>1. T \in SUBSET Nat
      BY DEF T
  <2> QED BY <1>1, <2>1, Least
<1>3. CASE n = 0
  <2> DEFINE w == [i \in 0 .. n |-> QHead]
  <2>1. \A i \in 0 .. n : i = 0
      BY <1>3
  <2>2. w = [i \in 0 .. n |-> IF i = 0 THEN QHead ELSE links[w[i - 1]]]
      BY <2>1, Zenon
  <2> QED BY <2>2, <1>2
<1>4. CASE n # 0
  <2>1. n - 1 \in Nat /\ n - 1 \notin T
    <3>1. n \in Nat /\ n - 1 \in Nat /\ ~(n <= n - 1)
        BY <1>4
    <3> HIDE DEF T
    <3> QED BY <3>1, <1>2
  <2>2. PICK v : v = [i \in 0 .. n - 1 |-> IF i = 0 THEN QHead ELSE links[v[i - 1]]]
      BY <2>1
  <2> DEFINE w == [i \in 0 .. n |-> IF i = n THEN links[v[n - 1]] ELSE v[i]]
  <2>3. \A i \in 0 .. n : w[i] = IF i = 0 THEN QHead ELSE links[w[i - 1]]
    <3>1. \A i \in 0 .. n - 1 : w[i] = v[i]
        BY <1>4
    <3>2. w[n] = links[v[n - 1]]
        BY <1>4
    <3>3. \A i \in 0 .. n - 1 : v[i] = IF i = 0 THEN QHead ELSE links[v[i - 1]]
        BY <2>2
    <3> HIDE DEF w
    <3>4. TAKE i \in 0 .. n
    <3>5. CASE i = n
        BY <3>5, <3>1, <3>2, <1>4
    <3>6. CASE i # n
        BY <3>6, <3>1, <3>3, <1>4
    <3> QED BY <3>5, <3>6
  <2>4. w = [i \in 0 .. n |-> IF i = 0 THEN QHead ELSE links[w[i - 1]]]
    <3>1. w = [i \in 0 .. n |-> w[i]]
        OBVIOUS
    <3> HIDE DEF w
    <3> QED BY <2>3, <3>1
  <2> QED BY <2>4, <1>2
<1> QED BY <1>3, <1>4

(* The contents are the queue the links go through.                        *)
LEMMA WayIsQueue ==
    ASSUME NEW links, NEW q, Linked(links, q)
    PROVE  Way(links) = q
<1> DEFINE N == Cardinality(Elements)
           n == Len(q)
           at[i \in 0 .. N + 1] == IF i = 0 THEN QHead ELSE links[at[i - 1]]
           S == {i \in 1 .. N + 1 : \A j \in 1 .. i : at[j] # QHead}
<1>0. N \in Nat /\ n \in Nat /\ q = [i \in 1 .. n |-> q[i]] /\ (\A i \in 1 .. n : q[i] \in Elements)
  <2>1. N \in Nat
      BY FS_CardinalityType, QueueAssumption
  <2>2. q \in Seq(Elements)
      BY DEF Linked
  <2> QED BY <2>1, <2>2
<1>1. n <= N
  <2>1. q \in Injection(1 .. n, Elements)
    <3>1. q \in [1 .. n -> Elements]
        BY <1>0, Zenon
    <3>2. \A i, j \in 1 .. n : q[i] = q[j] => i = j
        BY DEF Linked
    <3> QED BY <3>1, <3>2 DEF Injection, IsInjective
  <2> HIDE DEF n, N
  <2>2. Cardinality(1 .. n) = n
      BY <1>0, FS_Interval
  <2>3. Cardinality(1 .. n) <= Cardinality(Elements)
      BY <2>1, FS_Injection, QueueAssumption
  <2> QED BY <2>2, <2>3 DEF N
<1>2. at = [i \in 0 .. N + 1 |-> IF i = 0 THEN QHead ELSE links[at[i - 1]]]
  <2> HIDE DEF N
  <2>1. N + 1 \in Nat
      BY <1>0
  <2>2. \E w : w = [i \in 0 .. N + 1 |-> IF i = 0 THEN QHead ELSE links[w[i - 1]]]
      BY <2>1, WalkExists, Zenon
  <2> QED BY <2>2, Zenon
<1> HIDE DEF N, n, at
<1>3. \A i \in 0 .. n + 1 : at[i] = NodeAt(q, i)
  <2> DEFINE T == {i \in 0 .. n + 1 : at[i] # NodeAt(q, i)}
  <2>1. SUFFICES ASSUME T # {} PROVE FALSE
      OBVIOUS
  <2>2. PICK k \in T : \A m \in T : k <= m
    <3>1. T \in SUBSET Nat
        BY <1>0
    <3> HIDE DEF T
    <3> QED BY <2>1, <3>1, Least
  <2>3. k # 0
    <3>1. at[0] = QHead
        BY <1>2, <1>0
    <3>2. NodeAt(q, 0) = QHead
        BY DEF NodeAt
    <3> QED BY <2>2, <3>1, <3>2
  <2>4. k - 1 \in 0 .. n /\ at[k - 1] = NodeAt(q, k - 1)
      BY <2>2, <2>3, <1>0
  <2>5. at[k] = links[at[k - 1]]
    <3>1. k \in 0 .. N + 1
        BY <1>0, <1>1
    <3> HIDE DEF T
    <3> QED BY <1>2, <2>3, <3>1
  <2>6. links[NodeAt(q, k - 1)] = NodeAt(q, (k - 1) + 1)
      BY <2>4 DEF Linked, n
  <2> QED BY <2>2, <2>4, <2>5, <2>6, <1>0
<1>4. S = 1 .. n
  <2>1. \A i \in 1 .. n : at[i] = q[i] /\ q[i] # QHead
      BY <1>3, <1>0, QueueAssumption DEF NodeAt, n
  <2>2. at[n + 1] = QHead
      BY <1>3, <1>0 DEF NodeAt, n
  <2>3. \A i \in 1 .. N + 1 : i \in S <=> i <= n
    <3>1. TAKE i \in 1 .. N + 1
    <3>2. CASE i <= n
        BY <3>2, <2>1, <1>0
    <3>3. CASE ~(i <= n)
      <4>1. n + 1 \in 1 .. i
          BY <3>3, <1>0
      <4> QED BY <4>1, <2>2, <3>3
    <3> QED BY <3>2, <3>3
  <2> QED BY <2>3, <1>1, <1>0
<1>5. Cardinality(S) = n
  <2>1. Cardinality(1 .. n) = n
      BY <1>0, FS_Interval
  <2> HIDE DEF S
  <2> QED BY <2>1, <1>4
<1>6. Way(links) = [i \in 1 .. Cardinality(S) |-> at[i]]
    BY DEF Way, at, N
<1>7. [i \in 1 .. n |-> at[i]] = [i \in 1 .. n |-> q[i]]
    BY <1>3, <1>0 DEF NodeAt, n
<1> HIDE DEF S
<1> QED BY <1>5, <1>6, <1>7, <1>0
-----------------------------------------------------------------------------
(* The places of a queue: the head is place 0, and the place after the last*)
(* element; no other node takes two.                                       *)
LEMMA Places ==
    ASSUME NEW links, NEW q, Linked(links, q)
    PROVE  /\ Len(q) \in Nat /\ \A i \in 1 .. Len(q) : q[i] \in Elements
           /\ NodeAt(q, 0) = QHead /\ NodeAt(q, Len(q) + 1) = QHead
           /\ \A i \in Nat : NodeAt(q, i) \in Nodes
           /\ \A i, j \in 0 .. Len(q) : NodeAt(q, i) = NodeAt(q, j) => i = j
           /\ \A e \in Elements : (\A k \in 1 .. Len(q) : q[k] # e) => \A i \in Nat : NodeAt(q, i) # e
<1>1. Len(q) \in Nat /\ \A i \in 1 .. Len(q) : q[i] \in Elements
    BY DEF Linked
<1>2. \A i, j \in 1 .. Len(q) : q[i] = q[j] => i = j
    BY DEF Linked
<1> QED BY <1>1, <1>2, QueueAssumption DEF NodeAt, Nodes

(* A queue with one element more at its end.                               *)
LEMMA LinkAtEnd ==
    ASSUME NEW links \in [Nodes -> Nodes], NEW q, Linked(links, q), NEW e \in Elements,
           \A k \in 1 .. Len(q) : q[k] # e, links[e] = QHead
    PROVE  Linked([links EXCEPT ![NodeAt(q, Len(q))] = e], Append(q, e))
<1> DEFINE n == Len(q)
           r == Append(q, e)
           new == [links EXCEPT ![NodeAt(q, n)] = e]
<1>1. q \in Seq(Elements) /\ n \in Nat
    BY Places DEF Linked
<1>2. r \in Seq(Elements) /\ Len(r) = n + 1 /\ \A i \in 1 .. n + 1 : r[i] = IF i = n + 1 THEN e ELSE q[i]
    BY <1>1
<1>3. \A i \in Nat : NodeAt(r, i) = IF i = n + 1 THEN e ELSE NodeAt(q, i)
    BY <1>1, <1>2 DEF NodeAt
<1>4. \A i, j \in 1 .. Len(r) : r[i] = r[j] => i = j
  <2>1. \A i, j \in 1 .. n : q[i] = q[j] => i = j
      BY DEF Linked
  <2>2. \A k \in 1 .. n : q[k] # e
      OBVIOUS
  <2> HIDE DEF r, n
  <2> QED BY <1>1, <1>2, <2>1, <2>2
<1> HIDE DEF r, n
<1>5. ASSUME NEW i \in 0 .. n + 1 PROVE new[NodeAt(r, i)] = NodeAt(r, i + 1)
  <2>1. NodeAt(q, n) \in Nodes /\ NodeAt(q, n) # e /\ e \in Nodes
      BY <1>1, Places DEF Nodes, n
  <2>2. CASE i = n + 1
    <3>1. NodeAt(r, i) = e /\ NodeAt(r, i + 1) = NodeAt(q, n + 2)
        BY <2>2, <1>1, <1>3
    <3>2. NodeAt(q, n + 2) = QHead
        BY <1>1 DEF NodeAt, n
    <3> QED BY <3>1, <3>2, <2>1
  <2>3. CASE i = n
      BY <2>3, <1>1, <1>3, <2>1
  <2>4. CASE i < n
    <3>1. NodeAt(r, i) = NodeAt(q, i) /\ NodeAt(r, i + 1) = NodeAt(q, i + 1) /\ NodeAt(q, i) \in Nodes
        BY <2>4, <1>1, <1>3, Places
    <3>2. NodeAt(q, i) # NodeAt(q, n)
        BY <2>4, <1>1, Places DEF n
    <3>3. links[NodeAt(q, i)] = NodeAt(q, i + 1)
        BY <2>4, <1>1 DEF Linked, n
    <3> QED BY <3>1, <3>2, <3>3
  <2> QED BY <2>2, <2>3, <2>4, <1>1
<1> QED BY <1>2, <1>4, <1>5 DEF Linked, n, r

(* A queue without its first element.                                      *)
LEMMA UnlinkFirst ==
    ASSUME NEW links \in [Nodes -> Nodes], NEW q, Linked(links, q), q # <<>>
    PROVE  /\ Linked([links EXCEPT ![QHead] = links[q[1]]], Tail(q))
           /\ \A i \in Nat : NodeAt(Tail(q), i) = IF i = 0 THEN QHead ELSE NodeAt(q, i + 1)
           /\ Len(Tail(q)) = Len(q) - 1 /\ Len(q) > 0
           /\ \A i \in 1 .. Len(Tail(q)) : Tail(q)[i] = q[i + 1]
<1> DEFINE n == Len(q)
           r == Tail(q)
           new == [links EXCEPT ![QHead] = links[q[1]]]
<1>1. q \in Seq(Elements) /\ n \in Nat /\ n > 0
    BY Places DEF Linked
<1>2. r \in Seq(Elements) /\ Len(r) = n - 1 /\ \A i \in 1 .. n - 1 : r[i] = q[i + 1]
    BY <1>1
<1>3. \A i \in Nat : NodeAt(r, i) = IF i = 0 THEN QHead ELSE NodeAt(q, i + 1)
    BY <1>1, <1>2 DEF NodeAt
<1>4. \A i, j \in 1 .. Len(r) : r[i] = r[j] => i = j
    BY <1>1, <1>2 DEF Linked
<1> HIDE DEF r, n
<1>5. ASSUME NEW i \in 0 .. n - 1 PROVE new[NodeAt(r, i)] = NodeAt(r, i + 1)
  <2>1. links[NodeAt(q, i + 1)] = NodeAt(q, (i + 1) + 1)
      BY <1>1 DEF Linked, n
  <2>2. NodeAt(r, i + 1) = NodeAt(q, (i + 1) + 1)
      BY <1>1, <1>3
  <2>3. CASE i = 0
    <3>1. NodeAt(q, 1) = q[1] /\ NodeAt(r, 0) = QHead /\ QHead \in Nodes
        BY <1>1, <1>3 DEF NodeAt, Nodes, n
    <3> QED BY <2>1, <2>2, <2>3, <3>1
  <2>4. CASE i # 0
    <3>1. NodeAt(r, i) = NodeAt(q, i + 1) /\ NodeAt(q, i + 1) \in Nodes
        BY <2>4, <1>1, <1>3, Places
    <3>2. NodeAt(q, i + 1) # QHead
        BY <2>4, <1>1, Places DEF n
    <3> QED BY <2>1, <2>2, <3>1, <3>2
  <2> QED BY <2>3, <2>4
<1> QED BY <1>1, <1>2, <1>3, <1>4, <1>5 DEF Linked, n, r

(* The links of a node that is not queued do not matter.                   *)
LEMMA LinkElsewhere ==
    ASSUME NEW links \in [Nodes -> Nodes], NEW q, Linked(links, q), NEW e \in Elements, NEW x,
           \A k \in 1 .. Len(q) : q[k] # e
    PROVE  Linked([links EXCEPT ![e] = x], q)
<1>1. \A i \in 0 .. Len(q) : i \in Nat /\ NodeAt(q, i) \in Nodes /\ NodeAt(q, i) # e
    BY Places
<1> QED BY <1>1 DEF Linked
-----------------------------------------------------------------------------
(* The inductive invariant.  The links lead through the contents and the   *)
(* prev links lead back, except for the one link that a push or a pop in   *)
(* progress has still to write; the caller's locals name nodes of this     *)
(* queue, or a node outside it.                                            *)
Outside(e) == e \in Elements /\ \A k \in 1 .. Len(Contents) : Contents[k] # e

TypesQueue ==
    /\ next \in [Nodes -> Nodes] /\ prev \in [Nodes -> Nodes]
    /\ lock \in Threads \cup {NULL} /\ (lock = NULL <=> step = "idle")
    /\ step \in {"idle", "push", "push_link", "push_tail", "pop", "pop_prev", "pop_self", "length"}
    /\ ret = [t \in Threads |-> ret[t]]

BackQueue == \A i \in 0 .. Len(Contents) :
    \/ step = "push_tail" /\ i = Len(Contents)
    \/ step = "pop_prev" /\ i = 0
    \/ prev[NodeAt(Contents, i + 1)] = NodeAt(Contents, i)

LocalsQueue ==
    /\ step \in {"push", "push_link"} => Outside(arg) /\ last = NodeAt(Contents, Len(Contents))
    /\ step = "push_link" => next[arg] = QHead /\ prev[arg] = last
    /\ step = "push_tail" => Contents # <<>> /\ arg = Contents[Len(Contents)]
    /\ step \in {"pop", "length"} => Contents # <<>> /\ arg = Contents[1]
    /\ step \in {"pop_prev", "pop_self"} => Outside(arg)
    /\ step = "pop_prev" => next[arg] = NodeAt(Contents, 1)
    /\ step = "length" => count \in Nat /\ (Len(Contents) = 1 => count = 1)

QueueInv == TypesQueue /\ Linked(next, Contents) /\ BackQueue /\ LocalsQueue

(* Steps that leave the links alone.                                       *)
LEMMA SameLinks ==
    ASSUME QueueInv, NEW t \in Threads,
           \/ \E e \in Elements : PushCall(t, e)
           \/ PopCall(t) \/ IsEmpty(t) \/ Front(t) \/ LengthCall(t) \/ LengthLoop(t)
    PROVE  QueueInv' /\ Contents' = Contents
<1> USE DEF Enter, Leave, AtOnce, Answer, TypesQueue
<1> DEFINE q == Contents
<1>1. next' = next /\ prev' = prev /\ Contents' = q
    BY DEF PushCall, PopCall, IsEmpty, Front, LengthCall, LengthLoop, Contents
<1>2. Linked(next, q) /\ Linked(next', Contents')
    BY <1>1 DEF QueueInv
<1>3. next[QHead] = NodeAt(q, 1) /\ Len(q) \in Nat /\ (NodeAt(q, 1) # QHead => q # <<>> /\ NodeAt(q, 1) = q[1])
  <2>1. Len(q) \in Nat /\ NodeAt(q, 0) = QHead /\ q \in Seq(Elements)
      BY <1>2, Places DEF Linked
  <2>2. next[NodeAt(q, 0)] = NodeAt(q, 0 + 1)
      BY <1>2, <2>1 DEF Linked
  <2> QED BY <2>1, <2>2 DEF NodeAt
<1>4. CASE UNCHANGED <<lock, step, arg, last, count>>
  <2>1. TypesQueue'
      BY <1>1, <1>4 DEF QueueInv, PushCall, PopCall, IsEmpty, Front, LengthCall, LengthLoop
  <2>2. BackQueue' /\ LocalsQueue'
      BY <1>1, <1>4 DEF QueueInv, BackQueue, LocalsQueue, Outside
  <2> QED BY <1>1, <1>2, <2>1, <2>2 DEF QueueInv
<1>5. ASSUME NEW e \in Elements, PushCall(t, e) PROVE QueueInv'
  <2>1. step = "idle" /\ step' = "push" /\ arg' = e /\ last' = prev[QHead]
      BY <1>5 DEF PushCall, QueueInv
  <2>2. TypesQueue'
      BY <1>1, <1>5, <2>1, QueueAssumption DEF PushCall, QueueInv
  <2>3. prev[NodeAt(q, Len(q) + 1)] = NodeAt(q, Len(q))
      BY <1>3, <2>1 DEF QueueInv, BackQueue
  <2>4. NodeAt(q, Len(q) + 1) = QHead
      BY <1>2, Places
  <2>5. \A k \in 1 .. Len(q) : q[k] # e
      BY <1>5 DEF PushCall, Queued
  <2>6. BackQueue'
      BY <1>1, <2>1 DEF QueueInv, BackQueue
  <2>7. LocalsQueue'
      BY <1>1, <2>1, <2>3, <2>4, <2>5 DEF LocalsQueue, Outside
  <2> QED BY <1>2, <2>2, <2>6, <2>7 DEF QueueInv
<1>6. CASE next[QHead] # QHead /\ Enter(t, next[QHead], "pop") /\ UNCHANGED <<count, ret>>
  <2>1. step = "idle" /\ step' = "pop" /\ arg' = q[1] /\ q # <<>>
      BY <1>3, <1>6 DEF QueueInv
  <2>2. TypesQueue'
      BY <1>1, <1>6, <2>1, QueueAssumption DEF QueueInv
  <2>3. BackQueue'
      BY <1>1, <2>1 DEF QueueInv, BackQueue
  <2>4. LocalsQueue'
      BY <1>1, <2>1 DEF LocalsQueue, Outside
  <2> QED BY <1>1, <1>2, <2>2, <2>3, <2>4 DEF QueueInv
<1>7. CASE next[QHead] # QHead /\ Enter(t, next[QHead], "length") /\ count' = 1 /\ UNCHANGED ret
  <2>1. step = "idle" /\ step' = "length" /\ arg' = q[1] /\ q # <<>>
      BY <1>3, <1>7 DEF QueueInv
  <2>2. TypesQueue'
      BY <1>1, <1>7, <2>1, QueueAssumption DEF QueueInv
  <2>3. BackQueue'
      BY <1>1, <2>1 DEF QueueInv, BackQueue
  <2>4. LocalsQueue'
      BY <1>1, <1>7, <2>1 DEF LocalsQueue, Outside
  <2> QED BY <1>1, <1>2, <2>2, <2>3, <2>4 DEF QueueInv
<1>8. CASE lock = t /\ step = "length" /\ next[arg] = QHead /\ Leave(t, "length") /\ Answer(t, "length", count)
  <2>1. TypesQueue'
      BY <1>1, <1>8, QueueAssumption DEF QueueInv
  <2>2. BackQueue'
      BY <1>1, <1>8 DEF QueueInv, BackQueue
  <2>3. LocalsQueue'
      BY <1>8 DEF LocalsQueue, Outside
  <2> QED BY <1>1, <1>2, <2>1, <2>2, <2>3 DEF QueueInv
<1>9. CASE /\ lock = t /\ step = "length" /\ next[arg] # QHead /\ count' = count + 1
           /\ UNCHANGED <<lock, step, arg, last, ret>>
  <2>1. TypesQueue'
      BY <1>1, <1>9 DEF QueueInv
  <2>2. BackQueue'
      BY <1>1, <1>9 DEF QueueInv, BackQueue
  <2>3. q # <<>> /\ arg = q[1] /\ count \in Nat
      BY <1>9 DEF QueueInv, LocalsQueue
  <2>4. Len(q) # 1
    <3>1. SUFFICES ASSUME Len(q) = 1 PROVE FALSE
        OBVIOUS
    <3>2. next[NodeAt(q, 1)] = NodeAt(q, 1 + 1)
        BY <1>2, <3>1 DEF Linked
    <3> QED BY <1>9, <2>3, <3>1, <3>2 DEF NodeAt
  <2>5. LocalsQueue'
      BY <1>1, <1>9, <2>3, <2>4 DEF LocalsQueue, Outside
  <2> QED BY <1>1, <1>2, <2>1, <2>2, <2>5 DEF QueueInv
<1> QED BY <1>1, <1>4, <1>5, <1>6, <1>7, <1>8, <1>9 DEF PushCall, PopCall, IsEmpty, Front, LengthCall, LengthLoop

(* Before its link is written, a pushed element is outside.                *)
LEMMA PushPrepareKeeps ==
    ASSUME QueueInv, NEW t \in Threads, PushPrepare(t)
    PROVE  QueueInv' /\ Contents' = Contents
<1> DEFINE q == Contents
<1>1. /\ step = "push" /\ step' = "push_link" /\ UNCHANGED <<lock, arg, last, ret>>
      /\ next' = [next EXCEPT ![arg] = QHead] /\ prev' = [prev EXCEPT ![arg] = last]
    BY DEF PushPrepare, Go
<1>2. Linked(next, q) /\ next \in [Nodes -> Nodes] /\ prev \in [Nodes -> Nodes]
    BY DEF QueueInv, TypesQueue
<1>3. Outside(arg) /\ arg \in Elements /\ (\A k \in 1 .. Len(q) : q[k] # arg) /\ last = NodeAt(q, Len(q)) /\ last \in Nodes
  <2>1. Outside(arg) /\ last = NodeAt(q, Len(q))
      BY <1>1 DEF QueueInv, LocalsQueue
  <2> QED BY <2>1, <1>2, Places DEF Outside
<1>4. Linked(next', q)
    BY <1>1, <1>2, <1>3, LinkElsewhere
<1>5. Contents' = q
    BY <1>4, WayIsQueue DEF Contents
<1>6. TypesQueue'
    BY <1>1, <1>2, <1>3 DEF QueueInv, TypesQueue, Nodes
<1>7. BackQueue'
  <2>1. \A i \in 0 .. Len(q) : NodeAt(q, i + 1) # arg /\ NodeAt(q, i + 1) \in Nodes
      BY <1>2, <1>3, Places
  <2>2. \A i \in 0 .. Len(q) : prev[NodeAt(q, i + 1)] = NodeAt(q, i)
      BY <1>1 DEF QueueInv, BackQueue
  <2> QED BY <1>1, <1>2, <1>5, <2>1, <2>2 DEF BackQueue
<1>8. LocalsQueue'
    BY <1>1, <1>2, <1>3, <1>5 DEF LocalsQueue, Outside, Nodes
<1> QED BY <1>4, <1>5, <1>6, <1>7, <1>8 DEF QueueInv

(* The link of its predecessor appends it.                                 *)
LEMMA PushLinkKeeps ==
    ASSUME QueueInv, NEW t \in Threads, PushLink(t)
    PROVE  QueueInv' /\ Contents' = Append(Contents, arg) /\ Outside(arg)
<1> DEFINE q == Contents
           n == Len(q)
           r == Append(q, arg)
<1>1. /\ step = "push_link" /\ step' = "push_tail" /\ UNCHANGED <<lock, arg, last, prev, ret>>
      /\ next' = [next EXCEPT ![last] = arg]
    BY DEF PushLink, Go
<1>2. Linked(next, q) /\ next \in [Nodes -> Nodes] /\ prev \in [Nodes -> Nodes]
    BY DEF QueueInv, TypesQueue
<1>3. /\ Outside(arg) /\ arg \in Elements /\ (\A k \in 1 .. n : q[k] # arg)
      /\ last = NodeAt(q, n) /\ next[arg] = QHead /\ prev[arg] = last
    BY <1>1 DEF QueueInv, LocalsQueue, Outside
<1>4. Linked(next', r)
    BY <1>1, <1>2, <1>3, LinkAtEnd
<1>5. Contents' = r
    BY <1>4, WayIsQueue DEF Contents
<1>6. TypesQueue'
    BY <1>1, <1>2, <1>3 DEF QueueInv, TypesQueue, Nodes
<1>7. q \in Seq(Elements) /\ n \in Nat
    BY <1>2, Places DEF Linked
<1>8. Len(r) = n + 1 /\ r[n + 1] = arg /\ r # <<>> /\ \A i \in Nat : NodeAt(r, i) = IF i = n + 1 THEN arg ELSE NodeAt(q, i)
    BY <1>3, <1>7 DEF NodeAt
<1>9. BackQueue'
  <2>1. \A i \in 0 .. n : prev[NodeAt(q, i + 1)] = NodeAt(q, i)
      BY <1>1 DEF QueueInv, BackQueue
  <2> HIDE DEF q, n, r
  <2>2. \A i \in 0 .. n : prev[NodeAt(r, i + 1)] = NodeAt(r, i)
    <3>1. TAKE i \in 0 .. n
    <3>2. NodeAt(r, i) = NodeAt(q, i) /\ NodeAt(r, i + 1) = IF i = n THEN arg ELSE NodeAt(q, i + 1)
        BY <1>7, <1>8
    <3> QED BY <1>3, <2>1, <3>2
  <2> QED BY <1>1, <1>5, <1>7, <1>8, <2>2 DEF BackQueue
<1>10. LocalsQueue'
  <2> HIDE DEF q, n, r
  <2> QED BY <1>1, <1>5, <1>8 DEF LocalsQueue
<1> QED BY <1>3, <1>4, <1>5, <1>6, <1>9, <1>10 DEF QueueInv

(* The head's prev link ends the push.                                     *)
LEMMA PushTailKeeps ==
    ASSUME QueueInv, NEW t \in Threads, PushTail(t)
    PROVE  QueueInv' /\ Contents' = Contents
<1> DEFINE q == Contents
<1>1. /\ step = "push_tail" /\ step' = "idle" /\ lock' = NULL /\ next' = next
      /\ prev' = [prev EXCEPT ![QHead] = arg] /\ ret' = [ret EXCEPT ![t] = <<"push", arg>>]
    BY DEF PushTail, Leave, Answer
<1>2. Linked(next, q) /\ next \in [Nodes -> Nodes] /\ prev \in [Nodes -> Nodes]
    BY DEF QueueInv, TypesQueue
<1>3. q # <<>> /\ arg = q[Len(q)] /\ q \in Seq(Elements) /\ Len(q) \in Nat /\ Len(q) > 0 /\ arg \in Elements
  <2>1. q # <<>> /\ arg = q[Len(q)]
      BY <1>1 DEF QueueInv, LocalsQueue
  <2>2. q \in Seq(Elements)
      BY <1>2 DEF Linked
  <2> QED BY <2>1, <2>2
<1>4. Contents' = q
    BY <1>1 DEF Contents
<1>5. TypesQueue'
    BY <1>1, <1>2, <1>3 DEF QueueInv, TypesQueue, Nodes
<1>6. BackQueue'
  <2>1. \A i \in 0 .. Len(q) : i = Len(q) \/ prev[NodeAt(q, i + 1)] = NodeAt(q, i)
      BY <1>1 DEF QueueInv, BackQueue
  <2>2. NodeAt(q, Len(q) + 1) = QHead /\ NodeAt(q, Len(q)) = arg /\ QHead \in Nodes
      BY <1>3 DEF NodeAt, Nodes
  <2>3. \A i \in 0 .. Len(q) : i # Len(q) => NodeAt(q, i + 1) # QHead /\ NodeAt(q, i + 1) \in Nodes
      BY <1>3, QueueAssumption DEF NodeAt, Nodes
  <2> HIDE DEF q
  <2>4. \A i \in 0 .. Len(q) : prev'[NodeAt(q, i + 1)] = NodeAt(q, i)
      BY <1>1, <1>2, <2>1, <2>2, <2>3
  <2> QED BY <1>4, <2>4 DEF BackQueue
<1>7. LocalsQueue'
    BY <1>1 DEF LocalsQueue
<1> QED BY <1>1, <1>2, <1>4, <1>5, <1>6, <1>7 DEF QueueInv

(* The head's next link takes the first element out.                       *)
LEMMA PopUnlinkKeeps ==
    ASSUME QueueInv, NEW t \in Threads, PopUnlink(t)
    PROVE  QueueInv' /\ Contents # <<>> /\ arg = Head(Contents) /\ Contents' = Tail(Contents)
<1> DEFINE q == Contents
           n == Len(q)
           r == Tail(q)
<1>1. /\ step = "pop" /\ step' = "pop_prev" /\ UNCHANGED <<lock, arg, last, prev, ret>>
      /\ next' = [next EXCEPT ![QHead] = next[arg]]
    BY DEF PopUnlink, Go
<1>2. Linked(next, q) /\ next \in [Nodes -> Nodes] /\ prev \in [Nodes -> Nodes]
    BY DEF QueueInv, TypesQueue
<1>3. q # <<>> /\ arg = q[1] /\ q \in Seq(Elements) /\ n \in Nat /\ n > 0 /\ arg \in Elements /\ arg = Head(q)
  <2>1. q # <<>> /\ arg = q[1]
      BY <1>1 DEF QueueInv, LocalsQueue
  <2>2. q \in Seq(Elements)
      BY <1>2 DEF Linked
  <2> QED BY <2>1, <2>2
<1>4. Linked(next', r)
    BY <1>1, <1>2, <1>3, UnlinkFirst
<1>5. Contents' = r
    BY <1>4, WayIsQueue DEF Contents
<1>6. TypesQueue'
    BY <1>1, <1>2, <1>3 DEF QueueInv, TypesQueue, Nodes
<1>7. /\ Len(r) = n - 1
      /\ \A i \in Nat : NodeAt(r, i) = IF i = 0 THEN QHead ELSE NodeAt(q, i + 1)
      /\ \A i \in 1 .. n - 1 : r[i] = q[i + 1]
    BY <1>2, <1>3, UnlinkFirst
<1>8. BackQueue'
  <2>1. \A i \in 0 .. n : prev[NodeAt(q, i + 1)] = NodeAt(q, i)
      BY <1>1 DEF QueueInv, BackQueue
  <2> HIDE DEF q, n, r
  <2>2. \A i \in 0 .. n - 1 : i = 0 \/ prev[NodeAt(r, i + 1)] = NodeAt(r, i)
    <3>1. TAKE i \in 0 .. n - 1
    <3>2. SUFFICES ASSUME i # 0 PROVE prev[NodeAt(r, i + 1)] = NodeAt(r, i)
        OBVIOUS
    <3>3. i \in Nat /\ i + 1 \in Nat /\ i + 1 # 0 /\ i + 1 \in 0 .. n
        BY <1>3
    <3>4. NodeAt(r, i + 1) = NodeAt(q, (i + 1) + 1) /\ NodeAt(r, i) = NodeAt(q, i + 1)
        BY <1>7, <3>2, <3>3
    <3> QED BY <2>1, <3>3, <3>4
  <2> QED BY <1>1, <1>5, <1>7, <2>2 DEF BackQueue
<1>9. LocalsQueue'
  <2>1. \A k \in 1 .. n - 1 : r[k] # arg
    <3>1. \A i, j \in 1 .. n : q[i] = q[j] => i = j
        BY <1>2 DEF Linked
    <3> HIDE DEF q, n, r
    <3> QED BY <1>3, <1>7, <3>1
  <2>2. next'[arg] = NodeAt(r, 1)
    <3>1. next[NodeAt(q, 1)] = NodeAt(q, 1 + 1) /\ NodeAt(q, 1) = arg
        BY <1>2, <1>3 DEF Linked, NodeAt
    <3>2. NodeAt(r, 1) = NodeAt(q, 1 + 1)
        BY <1>7
    <3>3. arg # QHead /\ arg \in Nodes
        BY <1>3, QueueAssumption DEF Nodes
    <3> HIDE DEF q, n, r
    <3> QED BY <1>1, <1>2, <3>1, <3>2, <3>3
  <2> HIDE DEF q, n, r
  <2> QED BY <1>1, <1>3, <1>5, <1>7, <2>1, <2>2 DEF LocalsQueue, Outside
<1> QED BY <1>3, <1>4, <1>5, <1>6, <1>8, <1>9 DEF QueueInv

(* The prev link of the new first element ...                              *)
LEMMA PopPrevKeeps ==
    ASSUME QueueInv, NEW t \in Threads, PopPrev(t)
    PROVE  QueueInv' /\ Contents' = Contents
<1> DEFINE q == Contents
<1>1. /\ step = "pop_prev" /\ step' = "pop_self" /\ UNCHANGED <<lock, arg, last, next, ret>>
      /\ prev' = [prev EXCEPT ![next[arg]] = QHead]
    BY DEF PopPrev, Go
<1>2. Linked(next, q) /\ next \in [Nodes -> Nodes] /\ prev \in [Nodes -> Nodes]
    BY DEF QueueInv, TypesQueue
<1>3. next[arg] = NodeAt(q, 1) /\ Outside(arg)
    BY <1>1 DEF QueueInv, LocalsQueue
<1>4. Contents' = q
    BY <1>1 DEF Contents
<1>5. TypesQueue'
    BY <1>1, <1>2, <1>3 DEF QueueInv, TypesQueue, Nodes
<1>6. BackQueue'
  <2>1. \A i \in 0 .. Len(q) : i = 0 \/ prev[NodeAt(q, i + 1)] = NodeAt(q, i)
      BY <1>1 DEF QueueInv, BackQueue
  <2>2. /\ NodeAt(q, 0) = QHead /\ NodeAt(q, Len(q) + 1) = QHead
        /\ \A i \in Nat : NodeAt(q, i) \in Nodes
        /\ \A i, j \in 0 .. Len(q) : NodeAt(q, i) = NodeAt(q, j) => i = j
        /\ Len(q) \in Nat
      BY <1>2, Places
  <2> HIDE DEF q
  <2>3. \A i \in 0 .. Len(q) : i # 0 => NodeAt(q, i + 1) # NodeAt(q, 1)
    <3>1. TAKE i \in 0 .. Len(q)
    <3>2. SUFFICES ASSUME i # 0 PROVE NodeAt(q, i + 1) # NodeAt(q, 1)
        OBVIOUS
    <3>3. CASE i = Len(q)
        BY <2>2, <3>2, <3>3
    <3>4. CASE i # Len(q)
        BY <2>2, <3>2, <3>4
    <3> QED BY <3>3, <3>4
  <2>4. \A i \in 0 .. Len(q) : prev'[NodeAt(q, i + 1)] = NodeAt(q, i)
      BY <1>1, <1>2, <1>3, <2>1, <2>2, <2>3
  <2> QED BY <1>4, <2>4 DEF BackQueue
<1>7. LocalsQueue'
    BY <1>1, <1>3, <1>4 DEF LocalsQueue, Outside
<1> QED BY <1>1, <1>2, <1>4, <1>5, <1>6, <1>7 DEF QueueInv

(* ... and the links of the popped one end the pop.                        *)
LEMMA PopSelfKeeps ==
    ASSUME QueueInv, NEW t \in Threads, PopSelf(t)
    PROVE  QueueInv' /\ Contents' = Contents
<1> DEFINE q == Contents
<1>1. /\ step = "pop_self" /\ step' = "idle" /\ lock' = NULL
      /\ next' = [next EXCEPT ![arg] = arg] /\ prev' = [prev EXCEPT ![arg] = arg]
      /\ ret' = [ret EXCEPT ![t] = <<"pop", arg>>]
    BY DEF PopSelf, Leave, Answer
<1>2. Linked(next, q) /\ next \in [Nodes -> Nodes] /\ prev \in [Nodes -> Nodes]
    BY DEF QueueInv, TypesQueue
<1>3. arg \in Elements /\ \A k \in 1 .. Len(q) : q[k] # arg
    BY <1>1 DEF QueueInv, LocalsQueue, Outside
<1>4. Linked(next', q)
    BY <1>1, <1>2, <1>3, LinkElsewhere
<1>5. Contents' = q
    BY <1>4, WayIsQueue DEF Contents
<1>6. TypesQueue'
    BY <1>1, <1>2, <1>3 DEF QueueInv, TypesQueue, Nodes
<1>7. BackQueue'
  <2>1. \A i \in 0 .. Len(q) : NodeAt(q, i + 1) # arg /\ NodeAt(q, i + 1) \in Nodes
      BY <1>2, <1>3, Places
  <2>2. \A i \in 0 .. Len(q) : prev[NodeAt(q, i + 1)] = NodeAt(q, i)
      BY <1>1 DEF QueueInv, BackQueue
  <2> QED BY <1>1, <1>2, <1>5, <2>1, <2>2 DEF BackQueue
<1>8. LocalsQueue'
    BY <1>1 DEF LocalsQueue
<1> QED BY <1>4, <1>5, <1>6, <1>7, <1>8 DEF QueueInv
-----------------------------------------------------------------------------
(* The invariant holds initially, with nothing queued.                     *)
LEMMA InitQueue == Init => QueueInv /\ Contents = <<>>
<1> SUFFICES ASSUME Init PROVE QueueInv /\ Contents = <<>>
    OBVIOUS
<1>1. Linked(next, <<>>)
    BY DEF Init, Linked, NodeAt
<1>2. Contents = <<>>
    BY <1>1, WayIsQueue DEF Contents
<1>3. TypesQueue
    BY DEF Init, TypesQueue
<1>4. BackQueue
    BY <1>2 DEF Init, BackQueue, NodeAt
<1>5. LocalsQueue
    BY DEF Init, LocalsQueue
<1> QED BY <1>1, <1>2, <1>3, <1>4, <1>5 DEF QueueInv

(* Every step keeps it.                                                    *)
LEMMA StepQueue == QueueInv /\ [Next]_vars => QueueInv'
<1> SUFFICES ASSUME QueueInv, [Next]_vars PROVE QueueInv'
    OBVIOUS
<1>1. CASE Next
  <2>1. PICK t \in Threads :
          \/ \E e \in Elements : PushCall(t, e)
          \/ PushPrepare(t) \/ PushLink(t) \/ PushTail(t)
          \/ PopCall(t) \/ PopUnlink(t) \/ PopPrev(t) \/ PopSelf(t)
          \/ IsEmpty(t) \/ Front(t) \/ LengthCall(t) \/ LengthLoop(t)
      BY <1>1 DEF Next
  <2>2. CASE PushPrepare(t) \/ PushLink(t) \/ PushTail(t)
      BY <2>2, PushPrepareKeeps, PushLinkKeeps, PushTailKeeps
  <2>3. CASE PopUnlink(t) \/ PopPrev(t) \/ PopSelf(t)
      BY <2>3, PopUnlinkKeeps, PopPrevKeeps, PopSelfKeeps
  <2>4. CASE \/ \E e \in Elements : PushCall(t, e)
             \/ PopCall(t) \/ IsEmpty(t) \/ Front(t) \/ LengthCall(t) \/ LengthLoop(t)
      BY <2>4, SameLinks
  <2> QED BY <2>1, <2>2, <2>3, <2>4
<1>2. CASE UNCHANGED vars
    BY <1>2 DEF vars, QueueInv, TypesQueue, BackQueue, LocalsQueue, Outside, Contents
<1> QED BY <1>1, <1>2

(* The links, the prev links and the locals of the call in progress agree  *)
(* on one queue (xen_queue.c:13-63).                                       *)
THEOREM LinksMakeAQueue == Spec => []QueueInv
BY InitQueue, StepQueue, PTL DEF Spec

(* Between two calls every node on the ring is its successor's prev, the   *)
(* head's included, for any elements (xen_queue.c:17-37).                  *)
THEOREM RingReadsBothWays == Spec => []RingIsDouble
<1>1. ASSUME QueueInv PROVE RingIsDouble
  <2> DEFINE q == Contents
  <2>1. SUFFICES ASSUME lock = NULL, NEW n \in Nodes, n = QHead \/ Queued(n)
                 PROVE  prev[next[n]] = n
      BY DEF RingIsDouble
  <2>2. Linked(next, q) /\ step = "idle"
      BY <1>1, <2>1 DEF QueueInv, TypesQueue
  <2>3. PICK i \in 0 .. Len(q) : n = NodeAt(q, i)
    <3>1. CASE n = QHead
        BY <3>1, <2>2, Places
    <3>2. CASE Queued(n)
      <4>1. Len(q) \in Nat
          BY <2>2, Places
      <4>2. PICK k \in 1 .. Len(q) : q[k] = n
          BY <3>2 DEF Queued
      <4> QED BY <4>1, <4>2 DEF NodeAt
    <3> QED BY <2>1, <3>1, <3>2
  <2>4. next[n] = NodeAt(q, i + 1)
      BY <2>2, <2>3 DEF Linked
  <2>5. prev[NodeAt(q, i + 1)] = NodeAt(q, i)
      BY <1>1, <2>2 DEF QueueInv, BackQueue
  <2> QED BY <2>3, <2>4, <2>5
<1> QED BY <1>1, LinksMakeAQueue, PTL

-----------------------------------------------------------------------------
(* The first element is the one the head's link names.                     *)
LEMMA FirstIsNext ==
    ASSUME QueueInv
    PROVE  /\ next[QHead] = IF Contents = <<>> THEN QHead ELSE Head(Contents)
           /\ Contents # <<>> => Head(Contents) # QHead
           /\ Contents \in Seq(Elements)
<1> DEFINE q == Contents
<1>1. Linked(next, q) /\ q \in Seq(Elements)
    BY DEF QueueInv, Linked
<1>2. next[NodeAt(q, 0)] = NodeAt(q, 0 + 1) /\ NodeAt(q, 0) = QHead
    BY <1>1, Places DEF Linked
<1>3. CASE q = <<>>
    BY <1>1, <1>2, <1>3 DEF NodeAt
<1>4. CASE q # <<>>
  <2>1. Len(q) \in Nat /\ Len(q) > 0 /\ Head(q) = q[1] /\ q[1] \in Elements
      BY <1>1, <1>4
  <2>2. NodeAt(q, 0 + 1) = q[1]
      BY <2>1 DEF NodeAt
  <2> QED BY <1>1, <1>2, <1>4, <2>1, <2>2, QueueAssumption
<1> QED BY <1>3, <1>4

(* The answers of the abstract queue, with the one a call in progress has  *)
(* already earned.                                                         *)
Answers == [t \in Threads |-> Effect(t)]

(* A step of one thread changes its own answer only.                       *)
LEMMA OwnAnswer ==
    ASSUME NEW t \in Threads, NEW x, \A u \in Threads \ {t} : Effect(u)' = Effect(u), Effect(t)' = x
    PROVE  Answers' = [Answers EXCEPT ![t] = x]
BY DEF Answers

(* A step that changes nobody's answer.                                    *)
LEMMA NoAnswer ==
    ASSUME \A u \in Threads : Effect(u)' = Effect(u)
    PROVE  Answers' = Answers
BY DEF Answers

(* A call that goes on inside, or that only begins, is a stutter.          *)
LEMMA StutterStep ==
    ASSUME QueueInv, NEW t \in Threads,
           \/ \E e \in Elements : PushCall(t, e)
           \/ PushPrepare(t) \/ PushTail(t) \/ PopPrev(t) \/ PopSelf(t)
           \/ next[QHead] # QHead /\ (PopCall(t) \/ LengthCall(t))
           \/ next[arg] # QHead /\ LengthLoop(t)
    PROVE  UNCHANGED <<Contents, Answers>>
<1> USE DEF Effect, Go, Leave, Enter, Answer, AtOnce
<1>1. NULL \notin Threads /\ DOMAIN ret = Threads
    BY QueueAssumption DEF QueueInv, TypesQueue
<1>2. CASE \E e \in Elements : PushCall(t, e)
  <2>1. Contents' = Contents
      BY <1>2, SameLinks
  <2>2. \A u \in Threads : Effect(u)' = Effect(u)
      BY <1>1, <1>2 DEF PushCall
  <2> QED BY <2>1, <2>2, NoAnswer
<1>3. CASE PushPrepare(t)
  <2>1. Contents' = Contents
      BY <1>3, PushPrepareKeeps
  <2>2. \A u \in Threads : Effect(u)' = Effect(u)
      BY <1>1, <1>3 DEF PushPrepare
  <2> QED BY <2>1, <2>2, NoAnswer
<1>4. CASE PushTail(t)
  <2>1. Contents' = Contents
      BY <1>4, PushTailKeeps
  <2>2. \A u \in Threads : Effect(u)' = Effect(u)
      BY <1>1, <1>4 DEF PushTail
  <2> QED BY <2>1, <2>2, NoAnswer
<1>5. CASE PopPrev(t)
  <2>1. Contents' = Contents
      BY <1>5, PopPrevKeeps
  <2>2. \A u \in Threads : Effect(u)' = Effect(u)
      BY <1>1, <1>5 DEF PopPrev
  <2> QED BY <2>1, <2>2, NoAnswer
<1>6. CASE PopSelf(t)
  <2>1. Contents' = Contents
      BY <1>6, PopSelfKeeps
  <2>2. \A u \in Threads : Effect(u)' = Effect(u)
      BY <1>1, <1>6 DEF PopSelf
  <2> QED BY <2>1, <2>2, NoAnswer
<1>7. CASE next[QHead] # QHead /\ (PopCall(t) \/ LengthCall(t))
  <2>1. Contents' = Contents
      BY <1>7, SameLinks
  <2>2. \A u \in Threads : Effect(u)' = Effect(u)
      BY <1>1, <1>7 DEF PopCall, LengthCall
  <2> QED BY <2>1, <2>2, NoAnswer
<1>8. CASE next[arg] # QHead /\ LengthLoop(t)
  <2>1. Contents' = Contents
      BY <1>8, SameLinks
  <2>2. \A u \in Threads : Effect(u)' = Effect(u)
      BY <1>1, <1>8 DEF LengthLoop
  <2> QED BY <2>1, <2>2, NoAnswer
<1> QED BY <1>2, <1>3, <1>4, <1>5, <1>6, <1>7, <1>8

(* The link of the predecessor is where a push takes effect, the head's    *)
(* next link where a pop does.                                             *)
LEMMA EffectStep ==
    ASSUME QueueInv, NEW t \in Threads
    PROVE  /\ PushLink(t) => \E e \in Elements : Abstract!Push(t, e)
           /\ PopUnlink(t) => Abstract!Pop(t)
<1> USE DEF Effect, Go
<1>1. ASSUME PushLink(t) PROVE Abstract!Push(t, arg) /\ arg \in Elements
  <2>1. Contents' = Append(Contents, arg) /\ arg \in Elements /\ \A i \in 1 .. Len(Contents) : Contents[i] # arg
      BY <1>1, PushLinkKeeps DEF Outside
  <2>2. Effect(t)' = <<"push", arg>> /\ \A u \in Threads \ {t} : Effect(u)' = Effect(u)
      BY <1>1 DEF PushLink
  <2>3. Answers' = [Answers EXCEPT ![t] = <<"push", arg>>]
      BY <2>2, OwnAnswer
  <2> QED BY <2>1, <2>3 DEF Abstract!Push, Abstract!Answer, Answers
<1>2. ASSUME PopUnlink(t) PROVE Abstract!Pop(t)
  <2>1. Contents # <<>> /\ arg = Head(Contents) /\ Contents' = Tail(Contents)
      BY <1>2, PopUnlinkKeeps
  <2>2. Effect(t)' = <<"pop", arg>> /\ \A u \in Threads \ {t} : Effect(u)' = Effect(u)
      BY <1>2 DEF PopUnlink
  <2>3. Answers' = [Answers EXCEPT ![t] = <<"pop", arg>>]
      BY <2>2, OwnAnswer
  <2> QED BY <2>1, <2>3 DEF Abstract!Pop, Abstract!Answer, Answers
<1> QED BY <1>1, <1>2

(* A call that answers at once answers what the contents say, also when it *)
(* is a look from another thread in the middle of a push or a pop.         *)
LEMMA LookStep ==
    ASSUME QueueInv, NEW t \in Threads
    PROVE  /\ IsEmpty(t) => Abstract!IsEmpty(t)
           /\ Front(t) => Abstract!Front(t)
           /\ next[QHead] = QHead /\ PopCall(t) => Abstract!Pop(t)
           /\ next[QHead] = QHead /\ LengthCall(t) => Abstract!Length(t)
           /\ next[arg] = QHead /\ LengthLoop(t) => Abstract!Length(t)
<1> DEFINE q == Contents
<1> USE DEF Effect, Leave, Enter, Answer, AtOnce
<1>1. NULL \notin Threads /\ DOMAIN ret = Threads
    BY QueueAssumption DEF QueueInv, TypesQueue
<1>2. (next[QHead] = QHead) = (q = <<>>) /\ (q # <<>> => next[QHead] = Head(q)) /\ q \in Seq(Elements)
    BY FirstIsNext
<1>3. ASSUME IsEmpty(t) PROVE Abstract!IsEmpty(t)
  <2>1. q' = q
      BY <1>3, SameLinks
  <2>2. Effect(t)' = <<"empty", next[QHead] = QHead>> /\ \A u \in Threads \ {t} : Effect(u)' = Effect(u)
      BY <1>1, <1>3 DEF IsEmpty
  <2>3. Answers' = [Answers EXCEPT ![t] = <<"empty", next[QHead] = QHead>>]
      BY <2>2, OwnAnswer
  <2> QED BY <1>2, <2>1, <2>3 DEF Abstract!IsEmpty, Abstract!Answer, Answers
<1>4. ASSUME Front(t) PROVE Abstract!Front(t)
  <2> DEFINE x == IF q = <<>> THEN NULL ELSE Head(q)
  <2>1. q' = q
      BY <1>4, SameLinks
  <2>2. Effect(t)' = <<"front", x>> /\ \A u \in Threads \ {t} : Effect(u)' = Effect(u)
      BY <1>1, <1>2, <1>4 DEF Front
  <2>3. Answers' = [Answers EXCEPT ![t] = <<"front", x>>]
      BY <2>2, OwnAnswer
  <2> QED BY <2>1, <2>3 DEF Abstract!Front, Abstract!Answer, Answers
<1>5. ASSUME next[QHead] = QHead, PopCall(t) PROVE Abstract!Pop(t)
  <2>1. q' = q
      BY <1>5, SameLinks
  <2>2. Effect(t)' = <<"pop", NULL>> /\ \A u \in Threads \ {t} : Effect(u)' = Effect(u)
      BY <1>1, <1>5 DEF PopCall
  <2>3. Answers' = [Answers EXCEPT ![t] = <<"pop", NULL>>]
      BY <2>2, OwnAnswer
  <2> QED BY <1>2, <1>5, <2>1, <2>3 DEF Abstract!Pop, Abstract!Answer, Answers
<1>6. ASSUME next[QHead] = QHead, LengthCall(t) PROVE Abstract!Length(t)
  <2>1. q' = q /\ Len(q) = 0
      BY <1>2, <1>6, SameLinks
  <2>2. Effect(t)' = <<"length", 0>> /\ \A u \in Threads \ {t} : Effect(u)' = Effect(u)
      BY <1>1, <1>6 DEF LengthCall
  <2>3. Answers' = [Answers EXCEPT ![t] = <<"length", 0>>]
      BY <2>2, OwnAnswer
  <2> QED BY <2>1, <2>3 DEF Abstract!Length, Abstract!Answer, Answers
<1>7. ASSUME next[arg] = QHead, LengthLoop(t) PROVE Abstract!Length(t)
  <2>1. q' = q
      BY <1>7, SameLinks
  <2>2. q # <<>> /\ arg = q[1] /\ (Len(q) = 1 => count = 1) /\ Linked(next, q)
      BY <1>7 DEF LengthLoop, QueueInv, LocalsQueue
  <2>3. Len(q) = 1
    <3>1. SUFFICES ASSUME Len(q) # 1 PROVE FALSE
        OBVIOUS
    <3>2. Len(q) \in Nat /\ Len(q) >= 2
      <4>1. Len(q) \in Nat
          BY <2>2, Places
      <4>2. Len(q) > 0
        <5>1. next \in [Nodes -> Nodes]
            BY DEF QueueInv, TypesQueue
        <5> HIDE DEF q
        <5> QED BY <2>2, <5>1, UnlinkFirst
      <4>3. \A m \in Nat : m > 0 /\ m # 1 => m >= 2
          OBVIOUS
      <4> QED BY <3>1, <4>1, <4>2, <4>3
    <3>3. next[NodeAt(q, 1)] = NodeAt(q, 1 + 1)
        BY <2>2, <3>2 DEF Linked
    <3>4. NodeAt(q, 1) = q[1] /\ NodeAt(q, 1 + 1) = q[2] /\ q[2] \in Elements
        BY <1>2, <3>2 DEF NodeAt
    <3> QED BY <1>7, <2>2, <3>3, <3>4, QueueAssumption
  <2>4. Effect(t)' = <<"length", Len(q)>> /\ \A u \in Threads \ {t} : Effect(u)' = Effect(u)
      BY <1>1, <1>7, <2>2, <2>3 DEF LengthLoop
  <2>5. Answers' = [Answers EXCEPT ![t] = <<"length", Len(q)>>]
      BY <2>4, OwnAnswer
  <2> QED BY <2>1, <2>5 DEF Abstract!Length, Abstract!Answer, Answers
<1> QED BY <1>3, <1>4, <1>5, <1>6, <1>7

(* The queue is a FIFO for every thread that uses it, the ones that look   *)
(* without the lock included (xen_queue.c:13-63, 40 against 17-36).        *)
THEOREM QueueIsFifo == Spec => ImplementsFifo
<1>1. Init => Abstract!Init
  <2> SUFFICES ASSUME Init PROVE Abstract!Init
      OBVIOUS
  <2>1. Contents = <<>>
      BY InitQueue
  <2>2. [t \in Threads |-> Effect(t)] = [t \in Threads |-> <<"none", NULL>>]
      BY DEF Init, Effect
  <2> QED BY <2>1, <2>2 DEF Abstract!Init
<1>2. QueueInv /\ [Next]_vars => [Abstract!Next]_<<Contents, Answers>>
  <2> SUFFICES ASSUME QueueInv, [Next]_vars PROVE [Abstract!Next]_<<Contents, Answers>>
      OBVIOUS
  <2>1. CASE UNCHANGED vars
      BY <2>1 DEF vars, Contents, Answers, Effect
  <2>2. CASE Next
    <3>1. PICK t \in Threads :
            \/ \E e \in Elements : PushCall(t, e)
            \/ PushPrepare(t) \/ PushLink(t) \/ PushTail(t)
            \/ PopCall(t) \/ PopUnlink(t) \/ PopPrev(t) \/ PopSelf(t)
            \/ IsEmpty(t) \/ Front(t) \/ LengthCall(t) \/ LengthLoop(t)
        BY <2>2 DEF Next
    <3>2. CASE PushLink(t) \/ PopUnlink(t)
        BY <3>2, EffectStep DEF Abstract!Next
    <3>3. CASE \/ IsEmpty(t) \/ Front(t)
               \/ next[QHead] = QHead /\ (PopCall(t) \/ LengthCall(t))
               \/ next[arg] = QHead /\ LengthLoop(t)
        BY <3>3, LookStep DEF Abstract!Next
    <3>4. CASE \/ \E e \in Elements : PushCall(t, e)
               \/ PushPrepare(t) \/ PushTail(t) \/ PopPrev(t) \/ PopSelf(t)
               \/ next[QHead] # QHead /\ (PopCall(t) \/ LengthCall(t))
               \/ next[arg] # QHead /\ LengthLoop(t)
        BY <3>4, StutterStep
    <3> QED BY <3>1, <3>2, <3>3, <3>4
  <2> QED BY <2>1, <2>2
<1>3. QueueInv /\ [Next]_vars => [Abstract!Next]_<<Contents, [t \in Threads |-> Effect(t)]>>
    BY <1>2 DEF Answers
<1> QED BY <1>1, <1>3, LinksMakeAQueue, PTL DEF Spec, ImplementsFifo, Abstract!Spec
=============================================================================
