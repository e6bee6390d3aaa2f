------------------------- MODULE PdmaDevPoolProofs --------------------------
(***************************************************************************)
(* Proofs that PdmaDev neither loses nor doubles a buffer while DMA runs,  *)
(* for pools of any size and any number of threads: every step moves what  *)
(* it takes off one list to another, or into or out of a call's hands.     *)
(***************************************************************************)
EXTENDS PdmaDevQueueProofs

-----------------------------------------------------------------------------
(* The buffers on a list.                                                  *)
LEMMA RangeConcat ==
    ASSUME NEW S, NEW s \in Seq(S), NEW t \in Seq(S)
    PROVE  /\ Range(s \o t) = Range(s) \cup Range(t)
           /\ Len(s \o t) = Len(s) + Len(t)
<1>1. /\ Len(s) \in Nat /\ Len(t) \in Nat /\ Len(s \o t) = Len(s) + Len(t)
      /\ \A i \in 1 .. Len(s) + Len(t) : (s \o t)[i] = IF i <= Len(s) THEN s[i] ELSE t[i - Len(s)]
      /\ DOMAIN s = 1 .. Len(s) /\ DOMAIN t = 1 .. Len(t) /\ DOMAIN (s \o t) = 1 .. Len(s) + Len(t)
    BY ConcatProperties, LenProperties
<1>2. \A j \in 1 .. Len(t) : t[j] = (s \o t)[Len(s) + j] /\ Len(s) + j \in 1 .. Len(s) + Len(t)
    BY <1>1
<1>3. \A i \in 1 .. Len(s) : s[i] = (s \o t)[i] /\ i \in 1 .. Len(s) + Len(t)
    BY <1>1
<1>4. Range(s) \cup Range(t) \subseteq Range(s \o t)
    <2>1. \A j \in 1 .. Len(t) : t[j] \in Range(s \o t)
        BY <1>1, <1>2 DEF Range
    <2>2. \A i \in 1 .. Len(s) : s[i] \in Range(s \o t)
        BY <1>1, <1>3 DEF Range
    <2> QED BY <1>1, <2>1, <2>2 DEF Range
<1>5. Range(s \o t) \subseteq Range(s) \cup Range(t)
    <2> SUFFICES ASSUME NEW i \in 1 .. Len(s) + Len(t) PROVE (s \o t)[i] \in Range(s) \cup Range(t)
        BY <1>1 DEF Range
    <2>1. CASE i <= Len(s)
        BY <1>1, <2>1 DEF Range
    <2>2. CASE ~(i <= Len(s))
        <3>1. i - Len(s) \in DOMAIN t /\ (s \o t)[i] = t[i - Len(s)]
            BY <1>1, <2>2
        <3> QED BY <3>1 DEF Range
    <2> QED BY <2>1, <2>2
<1> QED BY <1>1, <1>4, <1>5

(* ... and of three.                                                      *)
LEMMA RangeConcatTwice ==
    ASSUME NEW S, NEW s \in Seq(S), NEW t \in Seq(S), NEW u \in Seq(S)
    PROVE  Range(s \o t \o u) = Range(s) \cup Range(t) \cup Range(u)
<1> DEFINE st == s \o t
<1>1. st \in Seq(S) /\ Range(st) = Range(s) \cup Range(t)
    BY RangeConcat, ConcatProperties
<1> HIDE DEF st
<1>2. Range(st \o u) = Range(st) \cup Range(u)
    BY <1>1, RangeConcat
<1>3. Range(s \o t \o u) = Range(st \o u)
    BY DEF st
<1> QED BY <1>1, <1>2, <1>3

(* The range and length of a sequence of one,                              *)
LEMMA RangeOne ==
    ASSUME NEW S, NEW e \in S
    PROVE  <<e>> \in Seq(S) /\ Range(<<e>>) = {e} /\ Len(<<e>>) = 1
<1> DEFINE z == <<e>>
<1>1. z \in Seq(S) /\ Len(z) = 1 /\ z[1] = e
    OBVIOUS
<1> HIDE DEF z
<1>2. DOMAIN z = {1}
    BY <1>1, LenProperties
<1>3. Range(z) = {e}
    BY <1>1, <1>2 DEF Range
<1> QED BY <1>1, <1>3 DEF z

(* of a sequence with one more at its end,                                 *)
LEMMA RangeAppend ==
    ASSUME NEW S, NEW s \in Seq(S), NEW e \in S
    PROVE  Range(Append(s, e)) = Range(s) \cup {e} /\ Len(Append(s, e)) = Len(s) + 1
<1> DEFINE z == <<e>>
<1>1. z \in Seq(S) /\ Range(z) = {e} /\ Len(z) = 1
    BY RangeOne
<1>2. Append(s, e) = s \o z
    BY AppendIsConcat
<1> HIDE DEF z
<1>3. Range(s \o z) = Range(s) \cup Range(z) /\ Len(s \o z) = Len(s) + Len(z)
    BY <1>1, RangeConcat
<1> QED BY <1>1, <1>2, <1>3

(* and of a sequence without its head.                                     *)
LEMMA RangeHead ==
    ASSUME NEW S, NEW s \in Seq(S), s # <<>>
    PROVE  Head(s) \in S /\ Range(s) = {Head(s)} \cup Range(Tail(s)) /\ Len(s) = Len(Tail(s)) + 1
<1>1. Head(s) \in S /\ Tail(s) \in Seq(S) /\ <<Head(s)>> \in Seq(S)
    BY HeadTailProperties
<1>2. <<Head(s)>> \o Tail(s) = s
    <2>1. /\ Len(Tail(s)) = Len(s) - 1 /\ Len(s) \in Nat /\ Len(s) > 0
          /\ \A i \in 1 .. Len(Tail(s)) : Tail(s)[i] = s[i + 1]
        BY HeadTailProperties, LenProperties, EmptySeq
    <2>2. /\ <<Head(s)>> \o Tail(s) \in Seq(S) /\ Len(<<Head(s)>> \o Tail(s)) = Len(s)
          /\ \A i \in 1 .. Len(s) : (<<Head(s)>> \o Tail(s))[i] = IF i = 1 THEN Head(s) ELSE Tail(s)[i - 1]
        BY <1>1, <2>1, ConcatProperties
    <2>3. \A i \in 1 .. Len(s) : (<<Head(s)>> \o Tail(s))[i] = s[i]
        BY <2>1, <2>2
    <2> DEFINE z == <<Head(s)>> \o Tail(s)
    <2> HIDE DEF z
    <2>4. z \in Seq(S) /\ Len(z) = Len(s) /\ \A i \in 1 .. Len(z) : z[i] = s[i]
        BY <2>2, <2>3 DEF z
    <2>5. z = s
        BY <2>4, SeqEqual
    <2> QED BY <2>5 DEF z
<1>3. Len(Tail(s)) \in Nat
    BY <1>1, LenProperties
<1> DEFINE z == <<Head(s)>>
<1>4. z \in Seq(S) /\ Range(z) = {Head(s)} /\ Len(z) = 1 /\ z \o Tail(s) = s
    BY <1>1, <1>2, RangeOne
<1> HIDE DEF z
<1>5. Range(z \o Tail(s)) = Range(z) \cup Range(Tail(s)) /\ Len(z \o Tail(s)) = Len(z) + Len(Tail(s))
    BY <1>1, <1>4, RangeConcat
<1>6. Range(s) = {Head(s)} \cup Range(Tail(s))
    BY <1>4, <1>5, Zenon
<1>7. Len(s) = Len(Tail(s)) + 1
    BY <1>3, <1>4, <1>5
<1> QED BY <1>1, <1>6, <1>7

(* Cutting a list.                                                         *)
LEMMA RangeCut ==
    ASSUME NEW S, NEW s \in Seq(S), NEW n \in 0 .. Len(s)
    PROVE  /\ Take(s, n) \in Seq(S) /\ Drop(s, n) \in Seq(S)
           /\ Range(s) = Range(Take(s, n)) \cup Range(Drop(s, n))
           /\ Len(Take(s, n)) + Len(Drop(s, n)) = Len(s)
<1>1. Take(s, n) \in Seq(S) /\ Drop(s, n) \in Seq(S)
    BY TakeDrop
<1>2. Take(s, n) \o Drop(s, n) = s
    BY SplitList
<1> DEFINE a == Take(s, n)
           b == Drop(s, n)
<1>3. a \in Seq(S) /\ b \in Seq(S) /\ a \o b = s
    BY <1>1, <1>2
<1> HIDE DEF a, b
<1>4. Range(a \o b) = Range(a) \cup Range(b) /\ Len(a \o b) = Len(a) + Len(b)
    BY ONLY <1>3, RangeConcat
<1>5. Range(s) = Range(a) \cup Range(b) /\ Len(a) + Len(b) = Len(s)
    BY ONLY <1>3, <1>4
<1> QED BY <1>1, <1>5 DEF a, b

(* A fresh free list has every buffer once,                                *)
LEMMA RangePool ==
    ASSUME NEW n \in Nat
    PROVE  Range(Pool(n)) = 1 .. n /\ Len(Pool(n)) = n
BY PoolIsSeq DEF Pool, Range

(* an empty list has none.                                                 *)
LEMMA RangeEmpty == Range(<<>>) = {} /\ Len(<<>>) = 0
BY DEF Range

-----------------------------------------------------------------------------
(* The buffers in the hands of calls.                                      *)
LEMMA OneMoreHand ==
    ASSUME NEW T, NEW t \in T, IsFiniteSet(T), NEW f, NEW g, f[t] = 0, g[t] # 0,
           \A u \in T \ {t} : f[u] = g[u]
    PROVE  /\ Hands(g, T) = Hands(f, T) \cup {g[t]}
           /\ Holding(f, T) \in Nat /\ Holding(g, T) \in Nat /\ Holding(g, T) = Holding(f, T) + 1
<1> DEFINE F == {u \in T : f[u] # 0}
           G == {u \in T : g[u] # 0}
<1>1. IsFiniteSet(F)
    BY FS_Subset
<1>2. G = F \cup {t} /\ t \notin F
    OBVIOUS
<1>3. Cardinality(F) \in Nat /\ Cardinality(G) \in Nat /\ Cardinality(G) = Cardinality(F) + 1
    <2> HIDE DEF F, G
    <2>1. Cardinality(F) \in Nat
        BY <1>1, FS_CardinalityType
    <2>2. Cardinality(G) = Cardinality(F) + 1
        BY <1>1, <1>2, FS_AddElement
    <2> QED BY <2>1, <2>2
<1>4. Hands(g, T) = Hands(f, T) \cup {g[t]}
    BY DEF Hands
<1> QED BY <1>3, <1>4 DEF Holding

(* When no call holds a buffer, no buffer is in their hands.               *)
LEMMA HandsEmpty ==
    ASSUME NEW T, IsFiniteSet(T), NEW f, \A t \in T : f[t] = 0
    PROVE  Hands(f, T) = {} /\ Holding(f, T) = 0
<1>1. {t \in T : f[t] # 0} = {} /\ Hands(f, T) = {}
    BY DEF Hands
<1> QED BY <1>1, FS_EmptySet DEF Holding

-----------------------------------------------------------------------------
(* The two halves of PoolConserved, over the lists one by one.             *)
RdPlaces == Range(rd_free) \cup Range(rd_submit) \cup Range(rd_pending) \cup Hands(rbuf, Readers)
RdTotal  == Len(rd_free) + Len(rd_submit) + Len(rd_pending) + Holding(rbuf, Readers)
RdPool   == RdPlaces = RdBufs /\ RdTotal = RdBufNr

WtPlaces == Range(wt_free) \cup Range(wt_submit) \cup Range(wt_pending) \cup Hands(wbuf, Writers)
WtTotal  == Len(wt_free) + Len(wt_submit) + Len(wt_pending) + Holding(wbuf, Writers)
WtPool   == WtPlaces = WtBufs /\ WtTotal = WtBufNr

PoolInv == (clean /\ dma_enable = 1) => RdPool /\ WtPool

(* The two pools' accounts are what PoolConserved says.                    *)
LEMMA PoolInvSplits ==
    ASSUME TypeOK
    PROVE  PoolInv => PoolConserved
<1>1. /\ rd_free \in Seq(RdBufs) /\ rd_submit \in Seq(RdBufs) /\ rd_pending \in Seq(RdBufs)
      /\ wt_free \in Seq(WtBufs) /\ wt_submit \in Seq(WtBufs) /\ wt_pending \in Seq(WtBufs)
    BY DEF TypeOK
<1>3. Range(rd_free \o rd_submit \o rd_pending) = Range(rd_free) \cup Range(rd_submit) \cup Range(rd_pending)
    BY ONLY <1>1, RangeConcatTwice
<1>4. Range(wt_free \o wt_submit \o wt_pending) = Range(wt_free) \cup Range(wt_submit) \cup Range(wt_pending)
    BY ONLY <1>1, RangeConcatTwice
<1> QED BY <1>3, <1>4 DEF PoolInv, PoolConserved, RdPool, WtPool, RdPlaces, RdTotal, WtPlaces, WtTotal

(* The lists' lengths, and the hands, are numbers to add up.               *)
LEMMA PoolNumbers ==
    ASSUME TypeOK
    PROVE  /\ Len(rd_free) \in Nat /\ Len(rd_submit) \in Nat /\ Len(rd_pending) \in Nat
           /\ Len(wt_free) \in Nat /\ Len(wt_submit) \in Nat /\ Len(wt_pending) \in Nat
           /\ Holding(rbuf, Readers) \in Nat /\ Holding(wbuf, Writers) \in Nat
<1>1. \A f, T : IsFiniteSet(T) => Holding(f, T) \in Nat
    BY FS_Subset, FS_CardinalityType DEF Holding
<1>2. Holding(rbuf, Readers) \in Nat /\ Holding(wbuf, Writers) \in Nat
    BY <1>1, ThreadsAssumption
<1> QED BY <1>2, LenProperties DEF TypeOK

(* The submit loops move buffers from one list to the other.               *)
LEMMA SubmitReadMoves ==
    ASSUME TypeOK, NEW free \in Seq(RdBufs), NEW submit \in Seq(RdBufs), NEW cnt \in Int,
           TrySubmitRead(free, submit, cnt)
    PROVE  /\ Range(rd_free') \cup Range(rd_submit') = Range(free) \cup Range(submit)
           /\ Len(rd_free') \in Nat /\ Len(rd_submit') \in Nat /\ Len(free) \in Nat /\ Len(submit) \in Nat
           /\ Len(rd_free') + Len(rd_submit') = Len(free) + Len(submit)
<1> DEFINE n == IF dma_enable = 0 THEN 0 ELSE Room(RdDepth, cnt, Len(free))
<1>1. n \in 0 .. Len(free) /\ Len(free) \in Nat /\ Len(submit) \in Nat
    <2>1. Len(free) \in Nat /\ RdDepth \in Nat /\ Len(submit) \in Nat
        BY LenProperties, PoolAssumption
    <2>2. Room(RdDepth, cnt, Len(free)) \in 0 .. Len(free)
        BY <2>1, RoomBounds
    <2> QED BY <2>1, <2>2
<1>2. rd_free' = Drop(free, n) /\ rd_submit' = submit \o Take(free, n)
    BY DEF TrySubmitRead
<1> HIDE DEF n
<1>3. /\ Take(free, n) \in Seq(RdBufs) /\ Drop(free, n) \in Seq(RdBufs)
      /\ Range(free) = Range(Take(free, n)) \cup Range(Drop(free, n))
      /\ Len(Take(free, n)) + Len(Drop(free, n)) = Len(free)
    BY <1>1, RangeCut
<1>4. /\ Range(submit \o Take(free, n)) = Range(submit) \cup Range(Take(free, n))
      /\ Len(submit \o Take(free, n)) = Len(submit) + Len(Take(free, n))
    BY <1>3, RangeConcat
<1>5. Len(Take(free, n)) \in Nat /\ Len(Drop(free, n)) \in Nat
    BY <1>3, LenProperties
<1>6. Range(rd_free') \cup Range(rd_submit') = Range(free) \cup Range(submit)
    BY <1>2, <1>3, <1>4
<1>7. /\ Len(rd_free') = Len(Drop(free, n)) /\ Len(rd_submit') = Len(submit) + Len(Take(free, n))
    BY <1>2, <1>4
<1> QED BY <1>1, <1>3, <1>5, <1>6, <1>7

(* The submit loop of the writes likewise.                                 *)
LEMMA SubmitWriteMoves ==
    ASSUME TypeOK, NEW pending \in Seq(WtBufs), NEW submit \in Seq(WtBufs), NEW cnt \in Int,
           TrySubmitWrite(pending, submit, cnt)
    PROVE  /\ Range(wt_pending') \cup Range(wt_submit') = Range(pending) \cup Range(submit)
           /\ Len(wt_pending') \in Nat /\ Len(wt_submit') \in Nat /\ Len(pending) \in Nat /\ Len(submit) \in Nat
           /\ Len(wt_pending') + Len(wt_submit') = Len(pending) + Len(submit)
<1> DEFINE n == IF dma_enable = 0 THEN 0 ELSE Room(WtDepth, cnt, Len(pending))
<1>1. n \in 0 .. Len(pending) /\ Len(pending) \in Nat /\ Len(submit) \in Nat
    <2>1. Len(pending) \in Nat /\ WtDepth \in Nat /\ Len(submit) \in Nat
        BY LenProperties, PoolAssumption
    <2>2. Room(WtDepth, cnt, Len(pending)) \in 0 .. Len(pending)
        BY <2>1, RoomBounds
    <2> QED BY <2>1, <2>2
<1>2. wt_pending' = Drop(pending, n) /\ wt_submit' = submit \o Take(pending, n)
    BY DEF TrySubmitWrite
<1> HIDE DEF n
<1>3. /\ Take(pending, n) \in Seq(WtBufs) /\ Drop(pending, n) \in Seq(WtBufs)
      /\ Range(pending) = Range(Take(pending, n)) \cup Range(Drop(pending, n))
      /\ Len(Take(pending, n)) + Len(Drop(pending, n)) = Len(pending)
    BY <1>1, RangeCut
<1>4. /\ Range(submit \o Take(pending, n)) = Range(submit) \cup Range(Take(pending, n))
      /\ Len(submit \o Take(pending, n)) = Len(submit) + Len(Take(pending, n))
    BY <1>3, RangeConcat
<1>5. Len(Take(pending, n)) \in Nat /\ Len(Drop(pending, n)) \in Nat
    BY <1>3, LenProperties
<1>6. Range(wt_pending') \cup Range(wt_submit') = Range(pending) \cup Range(submit)
    BY <1>2, <1>3, <1>4
<1>7. /\ Len(wt_pending') = Len(Drop(pending, n)) /\ Len(wt_submit') = Len(submit) + Len(Take(pending, n))
    BY <1>2, <1>4
<1> QED BY <1>1, <1>3, <1>5, <1>6, <1>7

-----------------------------------------------------------------------------
(* The calls and the interrupt on the read side.                           *)
LEMMA RdPoolKept ==
    ASSUME RdPool, UNCHANGED <<rd_free, rd_submit, rd_pending, rbuf>>
    PROVE  RdPool'
BY DEF RdPool, RdPlaces, RdTotal

(* A reader takes the first pending buffer into its hands.                 *)
LEMMA TryReadPool ==
    ASSUME TypeOK, RdPool, NEW r \in Readers, NEW from, from \notin {"copy", "copy_inc", "put"},
           TryRead(r, from)
    PROVE  RdPool'
<1>1. CASE rd_pending = <<>>
    BY <1>1, RdPoolKept DEF TryRead
<1>2. CASE rd_pending # <<>>
    <2>1. /\ rbuf' = [rbuf EXCEPT ![r] = Head(rd_pending)] /\ rd_pending' = Tail(rd_pending)
          /\ rd_free' = rd_free /\ rd_submit' = rd_submit /\ rbuf[r] = 0
        BY <1>2 DEF TryRead, TypeOK, RStep
    <2>2. /\ Head(rd_pending) \in RdBufs /\ Len(rd_pending) = Len(Tail(rd_pending)) + 1
          /\ Range(rd_pending) = {Head(rd_pending)} \cup Range(Tail(rd_pending))
        BY <1>2, RangeHead DEF TypeOK
    <2>3. /\ IsFiniteSet(Readers) /\ rbuf'[r] = Head(rd_pending) /\ rbuf'[r] # 0
          /\ \A u \in Readers : u # r => rbuf'[u] = rbuf[u]
        BY <2>1, <2>2, BufsNotZero, ThreadsAssumption DEF TypeOK
    <2> DEFINE old == rbuf
               new == rbuf'
    <2>9. old[r] = 0 /\ new[r] # 0 /\ \A u \in Readers : u # r => new[u] = old[u]
        BY <2>1, <2>3
    <2> HIDE DEF old, new
    <2>10. /\ Hands(new, Readers) = Hands(old, Readers) \cup {new[r]}
           /\ Holding(old, Readers) \in Nat /\ Holding(new, Readers) = Holding(old, Readers) + 1
        <3>1. IsFiniteSet(Readers)
            BY ThreadsAssumption
        <3>2. \A u \in Readers \ {r} : old[u] = new[u]
            BY <2>9
        <3> QED BY <2>9, <3>1, <3>2, OneMoreHand
    <2>4. /\ Hands(rbuf', Readers) = Hands(rbuf, Readers) \cup {Head(rd_pending)}
          /\ Holding(rbuf', Readers) = Holding(rbuf, Readers) + 1
        BY <2>3, <2>10 DEF old, new
    <2>5. RdPlaces' = RdPlaces
        BY <2>1, <2>2, <2>4 DEF RdPlaces
    <2>6. Len(Tail(rd_pending)) \in Nat
        BY <1>2, HeadTailProperties, LenProperties DEF TypeOK
    <2>7. /\ Len(rd_pending') \in Nat /\ Len(rd_pending) = Len(rd_pending') + 1
          /\ Len(rd_free') = Len(rd_free) /\ Len(rd_submit') = Len(rd_submit)
        BY <2>1, <2>2, <2>6
    <2>8. RdTotal' = RdTotal
        BY <2>4, <2>7, PoolNumbers DEF RdTotal
    <2> QED BY <2>5, <2>8 DEF RdPool
<1> QED BY <1>1, <1>2

(* A call that gives its buffer back, to the end of one list or the head   *)
(* of another.                                                             *)
LEMMA GiveReadPool ==
    ASSUME TypeOK, RdPool, NEW r \in Readers, ReadPut(r) \/ ReadFault(r)
    PROVE  RdPool'
<1>1. /\ rbuf[r] \in RdBufs /\ rbuf[r] # 0 /\ rbuf'[r] = 0 /\ rd_submit' = rd_submit
      /\ \A u \in Readers : u # r => rbuf'[u] = rbuf[u]
    <2>1. rpc[r] = "put" /\ rbuf' = [rbuf EXCEPT ![r] = 0] /\ rd_submit' = rd_submit
        BY DEF ReadPut, ReadFault, RStep
    <2>2. rbuf[r] # 0 /\ rbuf \in [Readers -> {0} \cup RdBufs]
        BY <2>1 DEF TypeOK
    <2> QED BY <2>1, <2>2
<1> DEFINE f == rbuf
           g == rbuf'
<1>5. f[r] # 0 /\ g[r] = 0 /\ f[r] = rbuf[r] /\ \A u \in Readers : u # r => f[u] = g[u]
    BY <1>1
<1>6. IsFiniteSet(Readers)
    BY ThreadsAssumption
<1> HIDE DEF f, g
<1>7. /\ Hands(f, Readers) = Hands(g, Readers) \cup {f[r]}
      /\ Holding(g, Readers) \in Nat /\ Holding(f, Readers) = Holding(g, Readers) + 1
    <2>1. \A u \in Readers \ {r} : g[u] = f[u]
        BY <1>5
    <2> QED BY <1>5, <1>6, <2>1, OneMoreHand
<1>2. /\ Hands(rbuf, Readers) = Hands(rbuf', Readers) \cup {rbuf[r]}
      /\ Holding(rbuf', Readers) \in Nat /\ Holding(rbuf, Readers) = Holding(rbuf', Readers) + 1
    BY <1>5, <1>7 DEF f, g
<1>3. CASE ReadPut(r)
    <2>1. rd_free' = Append(rd_free, rbuf[r]) /\ rd_pending' = rd_pending
        BY <1>3 DEF ReadPut
    <2>2. Range(rd_free') = Range(rd_free) \cup {rbuf[r]} /\ Len(rd_free') = Len(rd_free) + 1
        BY <1>1, <2>1, RangeAppend DEF TypeOK
    <2>3. RdPlaces' = RdPlaces
        BY <1>1, <1>2, <2>1, <2>2 DEF RdPlaces
    <2>4. RdTotal' = RdTotal
        BY <1>1, <1>2, <2>1, <2>2, PoolNumbers DEF RdTotal
    <2> QED BY <2>3, <2>4 DEF RdPool
<1>4. CASE ReadFault(r)
    <2> DEFINE z == <<rbuf[r]>>
    <2>1. rd_pending' = z \o rd_pending /\ rd_free' = rd_free
        BY <1>4 DEF ReadFault
    <2>2. z \in Seq(RdBufs) /\ Range(z) = {rbuf[r]} /\ Len(z) = 1
        BY <1>1, RangeOne
    <2> HIDE DEF z
    <2>7. z \in Seq(RdBufs) /\ rd_pending \in Seq(RdBufs)
        BY <2>2 DEF TypeOK
    <2>3. Range(z \o rd_pending) = Range(z) \cup Range(rd_pending) /\ Len(z \o rd_pending) = Len(z) + Len(rd_pending)
        BY <2>7, RangeConcat
    <2>4. Range(rd_pending') = {rbuf[r]} \cup Range(rd_pending) /\ Len(rd_pending') = 1 + Len(rd_pending)
        BY <2>1, <2>2, <2>3
    <2>5. RdPlaces' = RdPlaces
        BY <1>1, <1>2, <2>1, <2>4 DEF RdPlaces
    <2>6. RdTotal' = RdTotal
        BY <1>1, <1>2, <2>1, <2>4, PoolNumbers DEF RdTotal
    <2> QED BY <2>5, <2>6 DEF RdPool
<1> QED BY <1>3, <1>4

(* A submit loop moves free buffers to the submit list.                    *)
LEMMA SubmitReadPool ==
    ASSUME TypeOK, RdPool, TrySubmitRead(rd_free, rd_submit, rd_submit_cnt),
           UNCHANGED <<rd_pending, rbuf>>
    PROVE  RdPool'
<1>1. /\ Range(rd_free') \cup Range(rd_submit') = Range(rd_free) \cup Range(rd_submit)
      /\ Len(rd_free') \in Nat /\ Len(rd_submit') \in Nat
      /\ Len(rd_free') + Len(rd_submit') = Len(rd_free) + Len(rd_submit)
    BY SubmitReadMoves DEF TypeOK
<1>2. RdPlaces' = RdPlaces
    BY <1>1 DEF RdPlaces
<1>3. RdTotal' = RdTotal
    BY <1>1, PoolNumbers DEF RdTotal
<1> QED BY <1>2, <1>3 DEF RdPool

(* No step of a reader changes the read pool's account.                    *)
LEMMA ReadPool ==
    ASSUME TypeOK, RdPool, NEW r \in Readers, ReadStep(r)
    PROVE  RdPool'
<1>1. CASE ReadTry(r)
    BY <1>1, TryReadPool DEF ReadTry
<1>2. CASE ReadRelock(r)
    BY <1>2, TryReadPool, RdPoolKept DEF ReadRelock, rd_vars
<1>3. CASE ReadPut(r) \/ ReadFault(r)
    BY <1>3, GiveReadPool
<1>4. CASE ReadSubmit(r)
    BY <1>4, SubmitReadPool DEF ReadSubmit
<1>5. CASE ~(ReadTry(r) \/ ReadRelock(r) \/ ReadPut(r) \/ ReadFault(r) \/ ReadSubmit(r))
    <2>1. UNCHANGED <<rd_free, rd_submit, rd_pending, rbuf>>
        BY <1>5 DEF ReadStep, ReadRun, rd_vars, ReadCall, ReadSecond, ReadSecondReturn, ReadInc,
                    ReadCheck, ReadCopy, ReadCopyInc, ReadPrepare, ReadLook, ReadAwake, ReadSignal,
                    ReadFinishWait, ReadDec
    <2> QED BY <2>1, RdPoolKept
<1> QED BY <1>1, <1>2, <1>3, <1>4, <1>5

(* The interrupt moves the completed reads to the pending list.            *)
LEMMA NotifyReadPool ==
    ASSUME TypeOK, RdPool, NotifyRead, Len(hw_rd_done) <= Len(rd_submit), UNCHANGED rbuf
    PROVE  RdPool'
<1> DEFINE n == Len(hw_rd_done)
<1>1. CASE n = 0
    BY <1>1, RdPoolKept DEF NotifyRead, rd_vars
<1>2. CASE n # 0
    <2>1. /\ rd_pending' = rd_pending \o Take(rd_submit, n)
          /\ TrySubmitRead(rd_free, Drop(rd_submit, n), rd_submit_cnt - n)
        BY <1>2 DEF NotifyRead
    <2>2. /\ n \in 0 .. Len(rd_submit) /\ rd_submit_cnt - n \in Int
          /\ rd_free \in Seq(RdBufs) /\ rd_submit \in Seq(RdBufs) /\ rd_pending \in Seq(RdBufs)
        BY LenProperties DEF TypeOK
    <2> HIDE DEF n
    <2>3. /\ Take(rd_submit, n) \in Seq(RdBufs) /\ Drop(rd_submit, n) \in Seq(RdBufs)
          /\ Range(rd_submit) = Range(Take(rd_submit, n)) \cup Range(Drop(rd_submit, n))
          /\ Len(Take(rd_submit, n)) + Len(Drop(rd_submit, n)) = Len(rd_submit)
        BY <2>2, RangeCut
    <2>4. /\ Range(rd_free') \cup Range(rd_submit') = Range(rd_free) \cup Range(Drop(rd_submit, n))
          /\ Len(rd_free') \in Nat /\ Len(rd_submit') \in Nat /\ Len(Drop(rd_submit, n)) \in Nat
          /\ Len(rd_free') + Len(rd_submit') = Len(rd_free) + Len(Drop(rd_submit, n))
        BY <2>1, <2>2, <2>3, SubmitReadMoves
    <2>5. /\ Range(rd_pending') = Range(rd_pending) \cup Range(Take(rd_submit, n))
          /\ Len(rd_pending') = Len(rd_pending) + Len(Take(rd_submit, n))
        BY <2>1, <2>2, <2>3, RangeConcat
    <2>6. RdPlaces' = RdPlaces
        BY <2>3, <2>4, <2>5 DEF RdPlaces
    <2>7. Len(Take(rd_submit, n)) \in Nat
        BY <2>3, LenProperties
    <2>8. RdTotal' = RdTotal
        <3>1. Holding(rbuf, Readers)' = Holding(rbuf, Readers)
            OBVIOUS
        <3>2. Len(rd_free) \in Nat /\ Len(rd_submit) \in Nat /\ Len(rd_pending) \in Nat /\ Holding(rbuf, Readers) \in Nat
            BY PoolNumbers
        <3> DEFINE a == Len(Take(rd_submit, n))
                   b == Len(Drop(rd_submit, n))
        <3>4. /\ a \in Nat /\ b \in Nat /\ a + b = Len(rd_submit)
              /\ Len(rd_free') + Len(rd_submit') = Len(rd_free) + b
              /\ Len(rd_pending') = Len(rd_pending) + a
              /\ Len(rd_free') \in Nat /\ Len(rd_submit') \in Nat
            BY <2>3, <2>4, <2>5, <2>7
        <3> HIDE DEF a, b
        <3>3. Len(rd_free') + Len(rd_submit') + Len(rd_pending') = Len(rd_free) + Len(rd_submit) + Len(rd_pending)
            BY <3>2, <3>4
        <3> QED BY <3>1, <3>3 DEF RdTotal
    <2> QED BY <2>6, <2>8 DEF RdPool
<1> QED BY <1>1, <1>2

-----------------------------------------------------------------------------
(* The same on the write side.                                             *)
LEMMA WtPoolKept ==
    ASSUME WtPool, UNCHANGED <<wt_free, wt_submit, wt_pending, wbuf>>
    PROVE  WtPool'
BY DEF WtPool, WtPlaces, WtTotal

(* A writer takes the first free buffer into its hands.                    *)
LEMMA TryWritePool ==
    ASSUME TypeOK, WtPool, NEW w \in Writers, NEW from, from # "copy", TryWrite(w, from)
    PROVE  WtPool'
<1>1. CASE wt_free = <<>>
    BY <1>1, WtPoolKept DEF TryWrite
<1>2. CASE wt_free # <<>>
    <2>1. /\ wbuf' = [wbuf EXCEPT ![w] = Head(wt_free)] /\ wt_free' = Tail(wt_free)
          /\ wt_pending' = wt_pending /\ wt_submit' = wt_submit /\ wbuf[w] = 0
        BY <1>2 DEF TryWrite, TypeOK, WStep
    <2>2. /\ Head(wt_free) \in WtBufs /\ Len(wt_free) = Len(Tail(wt_free)) + 1
          /\ Range(wt_free) = {Head(wt_free)} \cup Range(Tail(wt_free))
        BY <1>2, RangeHead DEF TypeOK
    <2>3. /\ IsFiniteSet(Writers) /\ wbuf'[w] = Head(wt_free) /\ wbuf'[w] # 0
          /\ \A u \in Writers : u # w => wbuf'[u] = wbuf[u]
        BY <2>1, <2>2, BufsNotZero, ThreadsAssumption DEF TypeOK
    <2> DEFINE old == wbuf
               new == wbuf'
    <2>4. old[w] = 0 /\ new[w] # 0 /\ \A u \in Writers \ {w} : old[u] = new[u]
        BY <2>1, <2>3
    <2>5. IsFiniteSet(Writers)
        BY ThreadsAssumption
    <2> HIDE DEF old, new
    <2>6. /\ Hands(new, Writers) = Hands(old, Writers) \cup {new[w]}
          /\ Holding(old, Writers) \in Nat /\ Holding(new, Writers) = Holding(old, Writers) + 1
        BY <2>4, <2>5, OneMoreHand
    <2>7. /\ Hands(wbuf', Writers) = Hands(wbuf, Writers) \cup {Head(wt_free)}
          /\ Holding(wbuf', Writers) = Holding(wbuf, Writers) + 1
        BY <2>3, <2>6 DEF old, new
    <2>8. WtPlaces' = WtPlaces
        BY <2>1, <2>2, <2>7 DEF WtPlaces
    <2>9. Len(Tail(wt_free)) \in Nat
        BY <1>2, HeadTailProperties, LenProperties DEF TypeOK
    <2>10. /\ Len(wt_free') \in Nat /\ Len(wt_free) = Len(wt_free') + 1
           /\ Len(wt_pending') = Len(wt_pending) /\ Len(wt_submit') = Len(wt_submit)
        BY <2>1, <2>2, <2>9
    <2>11. WtTotal' = WtTotal
        BY <2>7, <2>10, PoolNumbers DEF WtTotal
    <2> QED BY <2>8, <2>11 DEF WtPool
<1> QED BY <1>1, <1>2

(* A call that gives its buffer back, or on to the card.                   *)
LEMMA GiveWritePool ==
    ASSUME TypeOK, WtPool, NEW w \in Writers, WriteFault(w) \/ (WriteCommit(w) /\ dma_enable = 1)
    PROVE  WtPool'
<1>1. /\ wbuf[w] \in WtBufs /\ wbuf[w] # 0 /\ wbuf'[w] = 0
      /\ \A u \in Writers : u # w => wbuf'[u] = wbuf[u]
    <2>1. wpc[w] = "copy" /\ wbuf' = [wbuf EXCEPT ![w] = 0]
        BY DEF WriteFault, WriteCommit, WriteStopped, WriteQueue, WStep
    <2>2. wbuf[w] # 0 /\ wbuf \in [Writers -> {0} \cup WtBufs]
        BY <2>1 DEF TypeOK
    <2> QED BY <2>1, <2>2
<1> DEFINE old == wbuf
           new == wbuf'
<1>2. old[w] # 0 /\ new[w] = 0 /\ \A u \in Writers \ {w} : new[u] = old[u]
    BY <1>1
<1>3. IsFiniteSet(Writers)
    BY ThreadsAssumption
<1> HIDE DEF old, new
<1>4. /\ Hands(old, Writers) = Hands(new, Writers) \cup {old[w]}
      /\ Holding(new, Writers) \in Nat /\ Holding(old, Writers) = Holding(new, Writers) + 1
    BY <1>2, <1>3, OneMoreHand
<1>5. /\ Hands(wbuf, Writers) = Hands(wbuf', Writers) \cup {wbuf[w]}
      /\ Holding(wbuf', Writers) \in Nat /\ Holding(wbuf, Writers) = Holding(wbuf', Writers) + 1
    BY <1>4 DEF old, new
<1>6. CASE WriteFault(w)
    <2> DEFINE z == <<wbuf[w]>>
    <2>1. wt_free' = z \o wt_free /\ wt_pending' = wt_pending /\ wt_submit' = wt_submit
        BY <1>6 DEF WriteFault
    <2>2. z \in Seq(WtBufs) /\ Range(z) = {wbuf[w]} /\ Len(z) = 1
        BY <1>1, RangeOne
    <2> HIDE DEF z
    <2>3. z \in Seq(WtBufs) /\ wt_free \in Seq(WtBufs)
        BY <2>2 DEF TypeOK
    <2>4. Range(z \o wt_free) = Range(z) \cup Range(wt_free) /\ Len(z \o wt_free) = Len(z) + Len(wt_free)
        BY <2>3, RangeConcat
    <2>5. Range(wt_free') = {wbuf[w]} \cup Range(wt_free) /\ Len(wt_free') = 1 + Len(wt_free)
        BY <2>1, <2>2, <2>4
    <2>6. WtPlaces' = WtPlaces
        BY <1>5, <2>1, <2>5 DEF WtPlaces
    <2>7. WtTotal' = WtTotal
        BY <1>5, <2>1, <2>5, PoolNumbers DEF WtTotal
    <2> QED BY <2>6, <2>7 DEF WtPool
<1>7. CASE WriteCommit(w) /\ dma_enable = 1 /\ wt_submit_cnt < WtDepth
    <2>1. wt_submit' = Append(wt_submit, wbuf[w]) /\ wt_pending' = wt_pending /\ wt_free' = wt_free
        BY <1>7 DEF WriteCommit, WriteStopped, WriteQueue
    <2>2. Range(wt_submit') = Range(wt_submit) \cup {wbuf[w]} /\ Len(wt_submit') = Len(wt_submit) + 1
        BY <1>1, <2>1, RangeAppend DEF TypeOK
    <2>3. WtPlaces' = WtPlaces
        BY <1>5, <2>1, <2>2 DEF WtPlaces
    <2>4. WtTotal' = WtTotal
        BY <1>5, <2>1, <2>2, PoolNumbers DEF WtTotal
    <2> QED BY <2>3, <2>4 DEF WtPool
<1>8. CASE WriteCommit(w) /\ dma_enable = 1 /\ ~(wt_submit_cnt < WtDepth)
    <2>1. wt_pending' = Append(wt_pending, wbuf[w]) /\ wt_submit' = wt_submit /\ wt_free' = wt_free
        BY <1>8 DEF WriteCommit, WriteStopped, WriteQueue
    <2>2. Range(wt_pending') = Range(wt_pending) \cup {wbuf[w]} /\ Len(wt_pending') = Len(wt_pending) + 1
        BY <1>1, <2>1, RangeAppend DEF TypeOK
    <2>3. WtPlaces' = WtPlaces
        BY <1>5, <2>1, <2>2 DEF WtPlaces
    <2>4. WtTotal' = WtTotal
        BY <1>5, <2>1, <2>2, PoolNumbers DEF WtTotal
    <2> QED BY <2>3, <2>4 DEF WtPool
<1> QED BY <1>6, <1>7, <1>8

(* No step of a writer changes the write pool's account.                   *)
LEMMA WritePool ==
    ASSUME TypeOK, WtPool, dma_enable = 1, NEW w \in Writers, WriteStep(w)
    PROVE  WtPool'
<1>1. CASE WriteTry(w)
    BY <1>1, TryWritePool DEF WriteTry
<1>2. CASE WriteRelock(w)
    BY <1>2, TryWritePool, WtPoolKept DEF WriteRelock, wt_vars
<1>3. CASE WriteFault(w) \/ WriteCommit(w)
    BY <1>3, GiveWritePool
<1>4. CASE ~(WriteTry(w) \/ WriteRelock(w) \/ WriteFault(w) \/ WriteCommit(w))
    <2>1. UNCHANGED <<wt_free, wt_submit, wt_pending, wbuf>>
        BY <1>4 DEF WriteStep, WriteRun, wt_vars, WriteInc, WriteCheck, WritePrepare, WriteLook,
                    WriteAwake, WriteSignal, WriteFinishWait, WriteDec
    <2> QED BY <2>1, WtPoolKept
<1> QED BY <1>1, <1>2, <1>3, <1>4

(* The interrupt moves the completed writes to the free list.              *)
LEMMA NotifyWritePool ==
    ASSUME TypeOK, WtPool, NotifyWrite, Len(hw_wt_done) <= Len(wt_submit), UNCHANGED wbuf
    PROVE  WtPool'
<1> DEFINE n == Len(hw_wt_done)
<1>1. CASE n = 0
    BY <1>1, WtPoolKept DEF NotifyWrite, wt_vars
<1>2. CASE n # 0
    <2>1. /\ wt_free' = wt_free \o Take(wt_submit, n)
          /\ TrySubmitWrite(wt_pending, Drop(wt_submit, n), wt_submit_cnt - n)
        BY <1>2 DEF NotifyWrite
    <2>2. /\ n \in 0 .. Len(wt_submit) /\ wt_submit_cnt - n \in Int
          /\ wt_free \in Seq(WtBufs) /\ wt_submit \in Seq(WtBufs) /\ wt_pending \in Seq(WtBufs)
        BY LenProperties DEF TypeOK
    <2> HIDE DEF n
    <2>3. /\ Take(wt_submit, n) \in Seq(WtBufs) /\ Drop(wt_submit, n) \in Seq(WtBufs)
          /\ Range(wt_submit) = Range(Take(wt_submit, n)) \cup Range(Drop(wt_submit, n))
          /\ Len(Take(wt_submit, n)) + Len(Drop(wt_submit, n)) = Len(wt_submit)
        BY <2>2, RangeCut
    <2>4. /\ Range(wt_pending') \cup Range(wt_submit') = Range(wt_pending) \cup Range(Drop(wt_submit, n))
          /\ Len(wt_pending') \in Nat /\ Len(wt_submit') \in Nat /\ Len(Drop(wt_submit, n)) \in Nat
          /\ Len(wt_pending') + Len(wt_submit') = Len(wt_pending) + Len(Drop(wt_submit, n))
        BY <2>1, <2>2, <2>3, SubmitWriteMoves
    <2>5. /\ Range(wt_free') = Range(wt_free) \cup Range(Take(wt_submit, n))
          /\ Len(wt_free') = Len(wt_free) + Len(Take(wt_submit, n))
        BY <2>1, <2>2, <2>3, RangeConcat
    <2>6. WtPlaces' = WtPlaces
        BY <2>3, <2>4, <2>5 DEF WtPlaces
    <2>7. Len(Take(wt_submit, n)) \in Nat
        BY <2>3, LenProperties
    <2>8. WtTotal' = WtTotal
        <3>1. Holding(wbuf, Writers)' = Holding(wbuf, Writers)
            OBVIOUS
        <3>2. Len(wt_free) \in Nat /\ Len(wt_submit) \in Nat /\ Len(wt_pending) \in Nat /\ Holding(wbuf, Writers) \in Nat
            BY PoolNumbers
        <3> DEFINE a == Len(Take(wt_submit, n))
                   b == Len(Drop(wt_submit, n))
        <3>3. /\ a \in Nat /\ b \in Nat /\ a + b = Len(wt_submit)
              /\ Len(wt_pending') + Len(wt_submit') = Len(wt_pending) + b
              /\ Len(wt_free') = Len(wt_free) + a
              /\ Len(wt_pending') \in Nat /\ Len(wt_submit') \in Nat
            BY <2>3, <2>4, <2>5, <2>7
        <3> HIDE DEF a, b
        <3>4. Len(wt_free') + Len(wt_submit') + Len(wt_pending') = Len(wt_free) + Len(wt_submit) + Len(wt_pending)
            BY <3>2, <3>3
        <3> QED BY <3>1, <3>4 DEF WtTotal
    <2> QED BY <2>6, <2>8 DEF WtPool
<1> QED BY <1>1, <1>2

-----------------------------------------------------------------------------
(* START relinks every buffer when, and only when, no call holds one.      *)
LEMMA FreshPools ==
    ASSUME TypeOK, AllHarmless, NEW c \in Ctls, StartListInit(c)
    PROVE  RdPool' /\ WtPool'
<1>1. (\A r \in Readers : rbuf'[r] = 0) /\ (\A w \in Writers : wbuf'[w] = 0)
    BY DEF TypeOK, AllHarmless, Harmless, StartListInit, CtlFrame, rdr_vars, wtr_vars
<1>2. IsFiniteSet(Readers) /\ IsFiniteSet(Writers)
    BY ThreadsAssumption
<1> DEFINE f == rbuf'
           g == wbuf'
<1> HIDE DEF f, g
<1>3. Hands(f, Readers) = {} /\ Holding(f, Readers) = 0
    BY <1>1, <1>2, HandsEmpty DEF f
<1>4. Hands(g, Writers) = {} /\ Holding(g, Writers) = 0
    BY <1>1, <1>2, HandsEmpty DEF g
<1>5. /\ rd_free' = Pool(RdBufNr) /\ rd_submit' = <<>> /\ rd_pending' = <<>>
      /\ wt_free' = Pool(WtBufNr) /\ wt_submit' = <<>> /\ wt_pending' = <<>>
    BY DEF StartListInit
<1>6. /\ Range(Pool(RdBufNr)) = RdBufs /\ Len(Pool(RdBufNr)) = RdBufNr /\ RdBufNr \in Nat
      /\ Range(Pool(WtBufNr)) = WtBufs /\ Len(Pool(WtBufNr)) = WtBufNr /\ WtBufNr \in Nat
    BY RangePool, PoolAssumption DEF RdBufs, WtBufs
<1>7. /\ Range(rd_free') = RdBufs /\ Range(rd_submit') = {} /\ Range(rd_pending') = {}
      /\ Range(wt_free') = WtBufs /\ Range(wt_submit') = {} /\ Range(wt_pending') = {}
    BY <1>5, <1>6, RangeEmpty
<1>8. /\ Len(rd_free') = RdBufNr /\ Len(rd_submit') = 0 /\ Len(rd_pending') = 0
      /\ Len(wt_free') = WtBufNr /\ Len(wt_submit') = 0 /\ Len(wt_pending') = 0
    BY <1>5, <1>6, RangeEmpty
<1>9. RdPool'
    BY <1>3, <1>6, <1>7, <1>8 DEF f, RdPool, RdPlaces, RdTotal
<1>10. WtPool'
    BY <1>4, <1>6, <1>7, <1>8 DEF g, WtPool, WtPlaces, WtTotal
<1> QED BY <1>9, <1>10

-----------------------------------------------------------------------------
(* Every step keeps the account of both pools.                             *)
LEMMA ReadPools ==
    ASSUME TypeOK, PoolInv, NEW r \in Readers, ReadStep(r)
    PROVE  PoolInv'
<1>1. UNCHANGED <<dma_enable, clean>>
    BY CallsKeepCtl
<1>2. UNCHANGED <<wt_vars, wbuf>>
    <2>1. UNCHANGED wtr_vars
        BY DEF ReadStep, ReadRun, ReadFrame, TryRead, ReadCall, ReadSecond, ReadSecondReturn, ReadInc,
               ReadCheck, ReadTry, ReadCopy, ReadCopyInc, ReadPut, ReadFault, ReadSubmit, ReadPrepare,
               ReadLook, ReadAwake, ReadSignal, ReadFinishWait, ReadRelock, ReadDec
    <2> QED BY <2>1, ReadKeepsWrites DEF wtr_vars
<1>3. RdPool => RdPool'
    BY ReadPool
<1>4. WtPool => WtPool'
    BY <1>2, WtPoolKept DEF wt_vars
<1> QED BY <1>1, <1>3, <1>4 DEF PoolInv

(* So do those of writers.                                                 *)
LEMMA WritePools ==
    ASSUME TypeOK, PoolInv, NEW w \in Writers, WriteStep(w)
    PROVE  PoolInv'
<1>1. UNCHANGED <<dma_enable, clean>>
    BY CallsKeepCtl
<1>2. UNCHANGED <<rd_free, rd_submit, rd_pending, rbuf>>
    BY DEF WriteStep, WriteRun, WriteFrame, TryWrite, WriteInc, WriteCheck, WriteTry, WriteFault,
           WriteCommit, WritePrepare, WriteLook, WriteAwake, WriteSignal, WriteFinishWait, WriteRelock,
           WriteDec, rd_vars, rdr_vars
<1>3. RdPool => RdPool'
    BY <1>2, RdPoolKept
<1>4. WtPool /\ dma_enable = 1 => WtPool'
    BY WritePool
<1> QED BY <1>1, <1>3, <1>4 DEF PoolInv

(* START relinks the pools when the calls are harmless, submits from them, *)
(* and the other steps of an ioctl leave them alone or turn DMA off.       *)
LEMMA CtlPools ==
    ASSUME TypeOK, RestartQuiescent, PoolInv, NEW c \in Ctls, CtlStep(c)
    PROVE  PoolInv'
<1>1. clean' => clean
    BY DEF CtlStep, CtlRun, Ioctl, StartCheck, StopDisable, StopReset, StopWakeRd, StopWakeWt,
           StopPoll, StartReset, StartListInit, StartSubmit, ResetDone, ResetFailed, InTime, TimedOut
<1>2. CASE StartListInit(c)
    <2>1. cpc[c] = "init"
        BY <1>2 DEF StartListInit, CStep
    <2>2. clean => AllHarmless
        BY <2>1 DEF RestartQuiescent
    <2> QED BY <1>1, <1>2, <2>2, FreshPools DEF PoolInv
<1>3. CASE StartSubmit(c)
    <2>1. /\ TrySubmitRead(rd_free, rd_submit, rd_submit_cnt)
          /\ UNCHANGED <<dma_enable, clean, rd_pending, rbuf, wt_free, wt_submit, wt_pending, wbuf>>
        BY <1>3 DEF StartSubmit, CtlFrame, rdr_vars, wtr_vars, wt_vars
    <2>2. RdPool => RdPool'
        BY <2>1, SubmitReadPool
    <2>3. WtPool => WtPool'
        BY <2>1, WtPoolKept
    <2> QED BY <2>1, <2>2, <2>3 DEF PoolInv
<1>4. CASE ~(StartListInit(c) \/ StartSubmit(c))
    <2>1. /\ UNCHANGED <<rd_free, rd_submit, rd_pending, rbuf, wt_free, wt_submit, wt_pending, wbuf>>
          /\ dma_enable' = dma_enable \/ dma_enable' = 0
        BY <1>4 DEF CtlStep, CtlRun, Ioctl, StartCheck, StopDisable, StopReset, StopWakeRd, StopWakeWt,
                    StopPoll, StartReset, CtlFrame, rdr_vars, wtr_vars, rd_vars, wt_vars
    <2>2. (RdPool => RdPool') /\ (WtPool => WtPool')
        BY <2>1, RdPoolKept, WtPoolKept
    <2> QED BY <1>1, <2>1, <2>2 DEF PoolInv
<1> QED BY <1>2, <1>3, <1>4

(* The interrupt and the card keep both accounts.                          *)
LEMMA CardPools ==
    ASSUME TypeOK, PoolInv, IntrRun \/ HwReadDone \/ HwWriteDone
    PROVE  PoolInv'
<1>1. UNCHANGED <<dma_enable, clean>>
    BY CardKeepsCtl
<1>2. UNCHANGED <<rbuf, wbuf>>
    BY DEF IntrRun, IntrStopped, IntrNotify, IntrOverrun, IntrWakeRd, IntrWakeWt, IntrFrame,
           HwReadDone, HwWriteDone, HwFrame, rdr_vars, wtr_vars
<1>3. CASE IntrNotify
    <2>1. /\ NotifyRead /\ Len(hw_rd_done) <= Len(rd_submit)
          /\ NotifyWrite /\ Len(hw_wt_done) <= Len(wt_submit)
        BY <1>3 DEF IntrNotify, CountsBacked
    <2>2. (RdPool => RdPool') /\ (WtPool => WtPool')
        BY <1>2, <2>1, NotifyReadPool, NotifyWritePool
    <2> QED BY <1>1, <2>2 DEF PoolInv
<1>4. CASE ~IntrNotify
    <2>1. UNCHANGED <<rd_vars, wt_vars>>
        BY <1>4 DEF IntrRun, IntrStopped, IntrOverrun, IntrWakeRd, IntrWakeWt, HwReadDone, HwWriteDone, HwFrame
    <2>2. (RdPool => RdPool') /\ (WtPool => WtPool')
        BY <1>2, <2>1, RdPoolKept, WtPoolKept DEF rd_vars, wt_vars
    <2> QED BY <1>1, <2>2 DEF PoolInv
<1> QED BY <1>3, <1>4

(* No step breaks the account of either pool.                              *)
LEMMA NextPools == TypeOK /\ RestartQuiescent /\ PoolInv /\ [Next]_vars => PoolInv'
<1> SUFFICES ASSUME TypeOK, RestartQuiescent, PoolInv, [Next]_vars PROVE PoolInv'
    OBVIOUS
<1>1. CASE UNCHANGED vars
    <2>1. /\ UNCHANGED <<dma_enable, clean, rd_free, rd_submit, rd_pending, rbuf>>
          /\ UNCHANGED <<wt_free, wt_submit, wt_pending, wbuf>>
        BY <1>1 DEF vars, rd_vars, wt_vars, rdr_vars, wtr_vars, ctl_vars
    <2> QED BY <2>1, RdPoolKept, WtPoolKept DEF PoolInv
<1>2. CASE \E r \in Readers : ReadStep(r)
    BY <1>2, ReadPools
<1>3. CASE \E w \in Writers : WriteStep(w)
    BY <1>3, WritePools
<1>4. CASE \E c \in Ctls : CtlStep(c)
    BY <1>4, CtlPools
<1>5. CASE IntrRun \/ HwReadDone \/ HwWriteDone
    BY <1>5, CardPools
<1> QED BY <1>1, <1>2, <1>3, <1>4, <1>5 DEF Next, ReadStep, WriteStep, CtlStep

(* While DMA runs every buffer of both pools is on one list, once, or in   *)
(* the hands of one call: no path of a read, a write, START or the         *)
(* interrupt loses one or links one twice, for pools of any size, FIFOs of *)
(* any depth and any number of threads.                                    *)
THEOREM BuffersAreConserved == Spec => []PoolConserved
<1>1. Init => PoolInv
    BY DEF Init, PoolInv
<1> QED BY <1>1, NextPools, PoolInvSplits, TypeCorrect, RestartIsQuiescent, PTL DEF Spec
=============================================================================
