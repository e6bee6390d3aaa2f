------------------------- MODULE PdmaDevQueueProofs -------------------------
(***************************************************************************)
(* Proofs about the queues in front of the card's FIFOs: writes wait in    *)
(* wt_pending only behind a full FIFO, and free read buffers are always on *)
(* their way into the other.                                               *)
(***************************************************************************)
EXTENDS PdmaDevProofs

(* The submit loops stop only at a full FIFO or an empty source list.      *)
LEMMA RoomFills ==
    ASSUME NEW depth \in Nat, NEW cnt \in Int, NEW len \in Nat
    PROVE  LET n == Room(depth, cnt, len)
           IN  /\ n = len \/ cnt + n >= depth
               /\ cnt <= depth => cnt + n <= depth
BY DEF Room

LEMMA DropAll == ASSUME NEW S, NEW s \in Seq(S) PROVE Drop(s, Len(s)) = <<>>
<1>1. Len(s) \in 0 .. Len(s)
    BY LenProperties
<1>2. Drop(s, Len(s)) \in Seq(S) /\ Len(Drop(s, Len(s))) = 0
    BY <1>1, TakeDrop
<1> QED BY <1>2, EmptySeq

-----------------------------------------------------------------------------
(* Pending writes.                                                         *)

LEMMA SubmitWriteFills ==
    ASSUME TypeOK, dma_enable = 1, NEW pending \in Seq(WtBufs), NEW submit, NEW cnt \in Int,
           cnt <= WtDepth, TrySubmitWrite(pending, submit, cnt)
    PROVE  wt_submit_cnt' <= WtDepth /\ (wt_pending' # <<>> => wt_submit_cnt' = WtDepth)
<1> DEFINE n == Room(WtDepth, cnt, Len(pending))
<1>1. wt_pending' = Drop(pending, n) /\ wt_submit_cnt' = cnt + n
    BY DEF TrySubmitWrite
<1>2. WtDepth \in Nat /\ Len(pending) \in Nat
    BY LenProperties, PoolAssumption
<1>3. n \in 0 .. Len(pending) /\ cnt + n <= WtDepth /\ (n = Len(pending) \/ cnt + n >= WtDepth)
    BY <1>2, RoomBounds, RoomFills
<1> HIDE DEF n
<1>4. CASE n = Len(pending)
    BY <1>1, <1>3, <1>4, DropAll
<1>5. CASE cnt + n >= WtDepth
    BY <1>1, <1>2, <1>3, <1>5
<1> QED BY <1>3, <1>4, <1>5

LEMMA PendingKept ==
    ASSUME PendingInv, UNCHANGED <<dma_enable, wt_pending, wt_submit_cnt>>
    PROVE  PendingInv'
BY DEF PendingInv, PendingMeansFull, FifoBound

LEMMA ReadKeepsWrites ==
    ASSUME NEW r \in Readers, ReadStep(r)
    PROVE  UNCHANGED <<dma_enable, wt_vars, cpc>>
BY DEF ReadStep, ReadRun, ReadFrame, ctl_vars, TryRead, ReadCall, ReadSecond, ReadSecondReturn, ReadInc,
       ReadCheck, ReadTry, ReadCopy, ReadCopyInc, ReadPut, ReadFault, ReadSubmit, ReadPrepare, ReadLook,
       ReadAwake, ReadSignal, ReadFinishWait, ReadRelock, ReadDec

LEMMA WritePending ==
    ASSUME TypeOK, PendingInv, NEW w \in Writers, WriteStep(w)
    PROVE  PendingInv'
<1>1. CASE WriteCommit(w) /\ dma_enable = 1
    <2>1. dma_enable' = dma_enable
        BY <1>1 DEF WriteCommit, WriteFrame
    <2>2. WriteQueue(w)
        BY <1>1 DEF WriteCommit, WriteStopped
    <2>3. wt_submit_cnt \in Int /\ WtDepth \in Nat
        BY PoolAssumption DEF TypeOK
    <2>4. wt_submit_cnt <= WtDepth /\ (wt_pending # <<>> => wt_submit_cnt = WtDepth)
        BY <1>1 DEF PendingInv, PendingMeansFull, FifoBound
    <2>5. CASE wt_submit_cnt < WtDepth
        <3>1. wt_submit_cnt' = wt_submit_cnt + 1 /\ wt_pending' = wt_pending
            BY <2>2, <2>5 DEF WriteQueue
        <3>2. wt_pending = <<>>
            BY <2>3, <2>4, <2>5
        <3> QED BY <2>3, <2>5, <3>1, <3>2 DEF PendingInv, PendingMeansFull, FifoBound
    <2>6. CASE ~(wt_submit_cnt < WtDepth)
        <3>1. wt_submit_cnt' = wt_submit_cnt
            BY <2>2, <2>6 DEF WriteQueue
        <3> QED BY <2>3, <2>4, <2>6, <3>1 DEF PendingInv, PendingMeansFull, FifoBound
    <2> QED BY <2>5, <2>6
<1>2. CASE WriteCommit(w) /\ dma_enable # 1
    BY <1>2 DEF WriteCommit, WriteFrame, PendingInv, PendingMeansFull, FifoBound
<1>3. CASE ~WriteCommit(w)
    <2>1. UNCHANGED <<dma_enable, wt_pending, wt_submit_cnt>>
        BY <1>3 DEF WriteStep, WriteRun, WriteFrame, TryWrite, WriteInc, WriteCheck, WriteTry, WriteFault,
                    WritePrepare, WriteLook, WriteAwake, WriteSignal, WriteFinishWait, WriteRelock,
                    WriteDec, wt_vars
    <2> QED BY <2>1, PendingKept
<1> QED BY <1>1, <1>2, <1>3

LEMMA CtlPending ==
    ASSUME TypeOK, PendingInv, NEW c \in Ctls, CtlStep(c)
    PROVE  PendingInv'
<1>1. CASE StartListInit(c)
    BY <1>1, PoolAssumption DEF StartListInit, PendingInv, PendingMeansFull, FifoBound
<1>2. CASE StopDisable(c)
    BY <1>2 DEF StopDisable, PendingInv, PendingMeansFull, FifoBound
<1>3. CASE ~StartListInit(c) /\ ~StopDisable(c)
    <2>1. UNCHANGED <<dma_enable, wt_pending, wt_submit_cnt>>
        BY <1>3 DEF CtlStep, CtlRun, Ioctl, StartCheck, StopReset, StopWakeRd, StopWakeWt, StopPoll,
                    StartReset, StartSubmit, wt_vars
    <2> QED BY <2>1, PendingKept
<1> QED BY <1>1, <1>2, <1>3

LEMMA IntrPending ==
    ASSUME TypeOK, PendingInv, IntrRun \/ HwReadDone \/ HwWriteDone
    PROVE  PendingInv'
<1>1. dma_enable' = dma_enable
    BY CardKeepsCtl
<1>2. CASE IntrNotify /\ Len(hw_wt_done) # 0
    <2> DEFINE n == Len(hw_wt_done)
    <2>1. TrySubmitWrite(wt_pending, Drop(wt_submit, n), wt_submit_cnt - n) /\ dma_enable = 1
        BY <1>2 DEF IntrNotify, NotifyWrite
    <2>2. n \in Nat /\ wt_submit_cnt \in Int /\ WtDepth \in Nat /\ wt_pending \in Seq(WtBufs)
        BY LenProperties, PoolAssumption DEF TypeOK
    <2>3. wt_submit_cnt <= WtDepth
        BY <2>1 DEF PendingInv, FifoBound
    <2> HIDE DEF n
    <2>4. wt_submit_cnt - n \in Int /\ wt_submit_cnt - n <= WtDepth
        BY <2>2, <2>3
    <2>5. wt_submit_cnt' <= WtDepth /\ (wt_pending' # <<>> => wt_submit_cnt' = WtDepth)
        BY <2>1, <2>2, <2>4, SubmitWriteFills
    <2> QED BY <2>5 DEF PendingInv, PendingMeansFull, FifoBound
<1>3. CASE ~(IntrNotify /\ Len(hw_wt_done) # 0)
    <2>1. UNCHANGED <<wt_pending, wt_submit_cnt>>
        BY <1>3 DEF IntrRun, IntrStopped, IntrNotify, NotifyWrite, IntrOverrun, IntrWakeRd, IntrWakeWt,
                    HwReadDone, HwWriteDone, HwFrame, wt_vars
    <2> QED BY <1>1, <2>1, PendingKept
<1> QED BY <1>2, <1>3

LEMMA NextPending == TypeOK /\ PendingInv /\ [Next]_vars => PendingInv'
<1> SUFFICES ASSUME TypeOK, PendingInv, [Next]_vars PROVE PendingInv'
    OBVIOUS
<1>1. CASE UNCHANGED vars
    BY <1>1, PendingKept DEF vars, wt_vars
<1>2. CASE \E r \in Readers : ReadStep(r)
    BY <1>2, ReadKeepsWrites, PendingKept DEF wt_vars
<1>3. CASE \E w \in Writers : WriteStep(w)
    BY <1>3, WritePending
<1>4. CASE \E c \in Ctls : CtlStep(c)
    BY <1>4, CtlPending
<1>5. CASE IntrRun \/ HwReadDone \/ HwWriteDone
    BY <1>5, IntrPending
<1> QED BY <1>1, <1>2, <1>3, <1>4, <1>5 DEF Next, ReadStep, WriteStep, CtlStep

(* Whatever the threads, ioctls and faults do, writes are queued in        *)
(* wt_pending only behind a full FIFO (pdma-dev.c:132-151, 372-380): the   *)
(* direct submit never overtakes.                                          *)
THEOREM PendingBehindFullFifo == Spec => []PendingMeansFull
<1>1. Init => PendingInv
    BY PoolAssumption DEF Init, PendingInv, PendingMeansFull, FifoBound
<1>2. PendingInv => PendingMeansFull
    BY DEF PendingInv
<1> QED BY <1>1, <1>2, NextPending, TypeCorrect, PTL DEF Spec

-----------------------------------------------------------------------------
(* The read FIFO.                                                          *)

LEMMA SubmitReadFills ==
    ASSUME TypeOK, dma_enable = 1, NEW free \in Seq(RdBufs), NEW submit, NEW cnt \in Int,
           TrySubmitRead(free, submit, cnt)
    PROVE  rd_free' = <<>> \/ ~(rd_submit_cnt' < RdDepth)
<1> DEFINE n == Room(RdDepth, cnt, Len(free))
<1>1. rd_free' = Drop(free, n) /\ rd_submit_cnt' = cnt + n
    BY DEF TrySubmitRead
<1>2. RdDepth \in Nat /\ Len(free) \in Nat
    BY LenProperties, PoolAssumption
<1>3. n \in 0 .. Len(free) /\ (n = Len(free) \/ cnt + n >= RdDepth)
    BY <1>2, RoomBounds, RoomFills
<1> HIDE DEF n
<1>4. CASE n = Len(free)
    BY <1>1, <1>4, DropAll
<1>5. CASE cnt + n >= RdDepth
    BY <1>1, <1>2, <1>3, <1>5
<1> QED BY <1>3, <1>4, <1>5

(* Whoever was on the way to submit still is.                              *)
LEMMA FedKept ==
    ASSUME ReadFifoFed, UNCHANGED <<dma_enable, rd_free, rd_submit_cnt>>,
           \A q \in Readers : rpc[q] = "submit" => rpc'[q] = "submit",
           \A d \in Ctls : cpc[d] = "submit" => cpc'[d] = "submit"
    PROVE  ReadFifoFed'
BY DEF ReadFifoFed

LEMMA ReadFed ==
    ASSUME TypeOK, ReadFifoFed, NEW r \in Readers, ReadStep(r)
    PROVE  ReadFifoFed'
<1>1. UNCHANGED <<dma_enable, cpc>>
    BY ReadKeepsWrites
<1>2. CASE ReadPut(r)
    <2>1. rpc'[r] = "submit"
        BY <1>2 DEF ReadPut, RStep, TypeOK
    <2> QED BY <2>1 DEF ReadFifoFed
<1>3. CASE ReadSubmit(r)
    <2>1. TrySubmitRead(rd_free, rd_submit, rd_submit_cnt)
        BY <1>3 DEF ReadSubmit
    <2>2. dma_enable = 1 => (rd_free' = <<>> \/ ~(rd_submit_cnt' < RdDepth))
        BY <2>1, SubmitReadFills DEF TypeOK
    <2> QED BY <1>1, <2>2 DEF ReadFifoFed
<1>4. CASE ~ReadPut(r) /\ ~ReadSubmit(r)
    <2>1. UNCHANGED <<rd_free, rd_submit_cnt>>
        BY <1>4 DEF ReadStep, ReadRun, rd_vars, TryRead, ReadCall, ReadSecond, ReadSecondReturn, ReadInc,
                    ReadCheck, ReadTry, ReadCopy, ReadCopyInc, ReadFault, ReadPrepare, ReadLook,
                    ReadAwake, ReadSignal, ReadFinishWait, ReadRelock, ReadDec
    <2>2. rpc[r] # "submit" /\ \E to : rpc' = [rpc EXCEPT ![r] = to]
        BY <1>4 DEF ReadStep, ReadRun, RStep, TryRead, ReadCall, ReadSecond, ReadSecondReturn, ReadInc,
                    ReadCheck, ReadTry, ReadCopy, ReadCopyInc, ReadFault, ReadPrepare, ReadLook,
                    ReadAwake, ReadSignal, ReadFinishWait, ReadRelock, ReadDec
    <2>3. \A q \in Readers : rpc[q] = "submit" => rpc'[q] = "submit"
        BY <2>2 DEF TypeOK
    <2> QED BY <1>1, <2>1, <2>3, FedKept
<1> QED BY <1>2, <1>3, <1>4

LEMMA WriteKeepsReads ==
    ASSUME NEW w \in Writers, WriteStep(w)
    PROVE  UNCHANGED <<dma_enable, rd_vars, rpc, cpc>>
BY DEF WriteStep, WriteRun, WriteFrame, rdr_vars, ctl_vars, TryWrite, WriteInc, WriteCheck, WriteTry,
       WriteFault, WriteCommit, WritePrepare, WriteLook, WriteAwake, WriteSignal, WriteFinishWait,
       WriteRelock, WriteDec

LEMMA CtlFed ==
    ASSUME TypeOK, ReadFifoFed, NEW c \in Ctls, CtlStep(c)
    PROVE  ReadFifoFed'
<1>1. CASE StartListInit(c)
    <2>1. cpc'[c] = "submit"
        BY <1>1 DEF StartListInit, CStep, TypeOK
    <2> QED BY <2>1 DEF ReadFifoFed
<1>2. CASE StartSubmit(c)
    <2>1. TrySubmitRead(rd_free, rd_submit, rd_submit_cnt) /\ dma_enable' = dma_enable
        BY <1>2 DEF StartSubmit
    <2>2. dma_enable = 1 => (rd_free' = <<>> \/ ~(rd_submit_cnt' < RdDepth))
        BY <2>1, SubmitReadFills DEF TypeOK
    <2> QED BY <2>1, <2>2 DEF ReadFifoFed
<1>3. CASE StopDisable(c)
    BY <1>3 DEF StopDisable, ReadFifoFed
<1>4. CASE ~StartListInit(c) /\ ~StartSubmit(c) /\ ~StopDisable(c)
    <2>1. UNCHANGED <<dma_enable, rd_free, rd_submit_cnt, rpc>>
        BY <1>4 DEF CtlStep, CtlRun, Ioctl, StartCheck, StopReset, StopWakeRd, StopWakeWt, StopPoll,
                    StartReset, CtlFrame, rd_vars, rdr_vars
    <2>2. cpc[c] # "submit" /\ \E to : cpc' = [cpc EXCEPT ![c] = to]
        BY <1>4 DEF CtlStep, CtlRun, CStep, Ioctl, StartCheck, StopReset, StopWakeRd, StopWakeWt,
                    StopPoll, StartReset
    <2>3. \A d \in Ctls : cpc[d] = "submit" => cpc'[d] = "submit"
        BY <2>2 DEF TypeOK
    <2> QED BY <2>1, <2>3, FedKept
<1> QED BY <1>1, <1>2, <1>3, <1>4

LEMMA IntrFed ==
    ASSUME TypeOK, ReadFifoFed, IntrRun \/ HwReadDone \/ HwWriteDone
    PROVE  ReadFifoFed'
<1>1. UNCHANGED <<dma_enable, rpc, cpc>>
    BY CardKeepsCtl
<1>2. CASE IntrNotify /\ Len(hw_rd_done) # 0
    <2> DEFINE n == Len(hw_rd_done)
    <2>1. TrySubmitRead(rd_free, Drop(rd_submit, n), rd_submit_cnt - n) /\ dma_enable = 1
        BY <1>2 DEF IntrNotify, NotifyRead
    <2>2. n \in Nat /\ rd_submit_cnt \in Int /\ rd_free \in Seq(RdBufs)
        BY LenProperties DEF TypeOK
    <2> HIDE DEF n
    <2>3. rd_submit_cnt - n \in Int
        BY <2>2
    <2>4. rd_free' = <<>> \/ ~(rd_submit_cnt' < RdDepth)
        BY <2>1, <2>2, <2>3, SubmitReadFills
    <2> QED BY <2>4 DEF ReadFifoFed
<1>3. CASE ~(IntrNotify /\ Len(hw_rd_done) # 0)
    <2>1. UNCHANGED <<rd_free, rd_submit_cnt>>
        BY <1>3 DEF IntrRun, IntrStopped, IntrNotify, NotifyRead, IntrOverrun, IntrWakeRd, IntrWakeWt,
                    HwReadDone, HwWriteDone, HwFrame, rd_vars
    <2> QED BY <1>1, <2>1, FedKept
<1> QED BY <1>2, <1>3

LEMMA NextFed == TypeOK /\ ReadFifoFed /\ [Next]_vars => ReadFifoFed'
<1> SUFFICES ASSUME TypeOK, ReadFifoFed, [Next]_vars PROVE ReadFifoFed'
    OBVIOUS
<1>1. CASE UNCHANGED vars
    BY <1>1, FedKept DEF vars, rd_vars, rdr_vars, ctl_vars
<1>2. CASE \E r \in Readers : ReadStep(r)
    BY <1>2, ReadFed
<1>3. CASE \E w \in Writers : WriteStep(w)
    BY <1>3, WriteKeepsReads, FedKept DEF rd_vars
<1>4. CASE \E c \in Ctls : CtlStep(c)
    BY <1>4, CtlFed
<1>5. CASE IntrRun \/ HwReadDone \/ HwWriteDone
    BY <1>5, IntrFed
<1> QED BY <1>1, <1>2, <1>3, <1>4, <1>5 DEF Next, ReadStep, WriteStep, CtlStep

(* While DMA runs, a free read buffer lies beside a FIFO with room only    *)
(* while a reader (pdma-dev.c:258-293) or START (466) is on its way to     *)
(* submit it, for all numbers of threads and buffers.                      *)
THEOREM ReadFifoIsFed == Spec => []ReadFifoFed
<1>1. Init => ReadFifoFed
    BY DEF Init, ReadFifoFed
<1> QED BY <1>1, NextFed, TypeCorrect, PTL DEF Spec

-----------------------------------------------------------------------------
(* The order of writes.                                                    *)

LEMMA SplitList ==
    ASSUME NEW S, NEW s \in Seq(S), NEW n \in 0 .. Len(s)
    PROVE  Take(s, n) \o Drop(s, n) = s
<1>1. Len(s) \in Nat
    BY LenProperties
<1>2. SubSeq(s, 1, n) \o SubSeq(s, n + 1, Len(s)) = SubSeq(s, 1, Len(s))
    <2>1. 1 \in 1 .. Len(s) + 1 /\ n \in 1 - 1 .. Len(s) /\ Len(s) \in n .. Len(s)
        BY <1>1
    <2> QED BY <2>1, ConcatAdjacentSubSeq
<1> QED BY <1>2, SubSeqFull DEF Take, Drop

(* Cutting a list inside its first part.                                   *)
LEMMA DropInside ==
    ASSUME NEW S, NEW s \in Seq(S), NEW t \in Seq(S), NEW n \in 0 .. Len(s)
    PROVE  Drop(s \o t, n) = Drop(s, n) \o t
<1>1. /\ Take(s, n) \in Seq(S) /\ Len(Take(s, n)) = n /\ Drop(s, n) \in Seq(S)
      /\ Drop(s, n) \o t \in Seq(S)
    BY TakeDrop, ConcatProperties
<1>2. s \o t = Take(s, n) \o (Drop(s, n) \o t)
    <2>1. \A x, y, z \in Seq(S) : (x \o y) \o z = x \o (y \o z)
        BY SMTT(30), ConcatAssociative
    <2>2. (Take(s, n) \o Drop(s, n)) \o t = Take(s, n) \o (Drop(s, n) \o t)
        BY SMTT(30), <1>1, <2>1
    <2> QED BY <2>2, SplitList
<1>3. Drop(Take(s, n) \o (Drop(s, n) \o t), Len(Take(s, n))) = Drop(s, n) \o t
    BY <1>1, DropConcat
<1> QED BY <1>1, <1>2, <1>3, Zenon

LEMMA TakeFirst ==
    ASSUME NEW S, NEW s \in Seq(S), NEW t \in Seq(S)
    PROVE  Take(s \o t, Len(s)) = s /\ Len(s \o t) >= Len(s)
<1>1. Len(s \o t) = Len(s) + Len(t) /\ Len(s) \in Nat /\ Len(t) \in Nat /\ s \o t \in Seq(S)
    BY ConcatProperties, LenProperties
<1>2. CASE s = <<>>
    <2>1. Len(s) = 0
        BY <1>2, EmptySeq
    <2>2. Take(s \o t, Len(s)) = <<>>
        BY <1>1, <2>1, TakeNone
    <2> QED BY <1>1, <1>2, <2>2
<1>3. CASE s # <<>>
    <2>1. Len(s) \in 1 .. Len(s)
        BY <1>1, <1>3, EmptySeq
    <2>2. 1 \in 1 .. Len(s)
        BY <1>1, <2>1
    <2>3. SubSeq(s \o t, 1, Len(s)) = SubSeq(s, 1, Len(s))
        BY <2>1, <2>2, SubSeqOfConcat1
    <2> QED BY <1>1, <2>3, SubSeqFull DEF Take
<1> QED BY <1>2, <1>3

(* The queue as WriteQueueFifo sees it, and its three ways to change.      *)
WriteQ == wt_submit \o wt_pending
Grown == Len(WriteQ') >= Len(WriteQ) /\ Take(WriteQ', Len(WriteQ)) = WriteQ
Consumed == WriteQ' = Drop(WriteQ, Len(hw_wt_done))
Emptied == WriteQ' = <<>> /\ dma_enable = 0 /\ dma_enable' = 1

LEMMA WriteQIsList ==
    ASSUME TypeOK
    PROVE  WriteQ \in Seq(WtBufs)
BY ConcatProperties DEF TypeOK, WriteQ

LEMMA AppendedIsGrown ==
    ASSUME TypeOK, NEW e \in WtBufs, WriteQ' = Append(WriteQ, e) \/ WriteQ' = WriteQ
    PROVE  Grown
<1>1. WriteQ \in Seq(WtBufs) /\ <<e>> \in Seq(WtBufs) /\ <<>> \in Seq(WtBufs)
    BY WriteQIsList
<1>2. WriteQ' = WriteQ \o <<e>> \/ WriteQ' = WriteQ \o <<>>
    <2>1. Append(WriteQ, e) = WriteQ \o <<e>>
        BY <1>1, AppendIsConcat
    <2>2. WriteQ \o <<>> = WriteQ
        BY <1>1, ConcatEmptySeq
    <2> QED BY <2>1, <2>2
<1>3. \A t \in Seq(WtBufs) : Take(WriteQ \o t, Len(WriteQ)) = WriteQ /\ Len(WriteQ \o t) >= Len(WriteQ)
    BY <1>1, TakeFirst
<1> QED BY <1>1, <1>2, <1>3 DEF Grown

LEMMA SameIsGrown ==
    ASSUME TypeOK, UNCHANGED <<wt_submit, wt_pending>>
    PROVE  Grown
<1>1. WriteQ' = WriteQ
    BY DEF WriteQ
<1>2. 1 \in WtBufs
    BY PoolAssumption DEF WtBufs
<1> QED BY <1>1, <1>2, AppendedIsGrown

(* A write is appended to the join of both lists, whichever list it joins. *)
LEMMA CommitGrows ==
    ASSUME TypeOK, PendingInv, NEW w \in Writers, WriteCommit(w)
    PROVE  Grown
<1>1. CASE WriteStopped(w)
    BY <1>1, SameIsGrown DEF WriteStopped
<1>2. CASE dma_enable = 1 /\ WriteQueue(w)
    <2>1. wbuf[w] \in WtBufs
        BY DEF TypeOK, WriteCommit, WStep
    <2>2. wt_submit \in Seq(WtBufs) /\ wt_pending \in Seq(WtBufs)
        BY DEF TypeOK
    <2>3. CASE wt_submit_cnt < WtDepth
        <3>1. wt_submit' = Append(wt_submit, wbuf[w]) /\ wt_pending' = wt_pending
            BY <1>2, <2>3 DEF WriteQueue
        <3>2. wt_pending = <<>>
            <4>1. wt_submit_cnt \in Int /\ WtDepth \in Nat
                BY PoolAssumption DEF TypeOK
            <4>2. wt_pending # <<>> => wt_submit_cnt = WtDepth
                BY <1>2 DEF PendingInv, PendingMeansFull
            <4> QED BY <2>3, <4>1, <4>2
        <3>3. WriteQ' = Append(wt_submit, wbuf[w]) /\ WriteQ = wt_submit
            <4>1. Append(wt_submit, wbuf[w]) \in Seq(WtBufs)
                BY <2>1, <2>2, AppendProperties
            <4>2. \A s \in Seq(WtBufs) : s \o <<>> = s
                BY ConcatEmptySeq
            <4> QED BY <2>2, <3>1, <3>2, <4>1, <4>2 DEF WriteQ
        <3> QED BY <2>1, <3>3, AppendedIsGrown
    <2>4. CASE ~(wt_submit_cnt < WtDepth)
        <3>1. wt_submit' = wt_submit /\ wt_pending' = Append(wt_pending, wbuf[w])
            BY <1>2, <2>4 DEF WriteQueue
        <3>2. /\ Append(wt_submit \o wt_pending, wbuf[w]) = wt_submit \o Append(wt_pending, wbuf[w])
              /\ Len(Append(wt_submit \o wt_pending, wbuf[w])) = Len(wt_submit \o wt_pending) + 1
            BY <2>1, <2>2, AppendConcat
        <3>3. WriteQ' = Append(WriteQ, wbuf[w])
            BY <3>1, <3>2, Zenon DEF WriteQ
        <3> QED BY <2>1, <3>3, AppendedIsGrown
    <2> QED BY <2>3, <2>4
<1> QED BY <1>1, <1>2 DEF WriteCommit

(* The interrupt takes completed writes off the front; what its submit     *)
(* loop moves stays where it is in the join.                               *)
LEMMA NotifyConsumes ==
    ASSUME TypeOK, IntrNotify, Len(hw_wt_done) # 0
    PROVE  Consumed
<1> DEFINE n == Len(hw_wt_done)
           rest == Drop(wt_submit, n)
           cnt == wt_submit_cnt - n
           k == Room(WtDepth, cnt, Len(wt_pending))
<1>1. TrySubmitWrite(wt_pending, rest, cnt) /\ dma_enable = 1 /\ n <= Len(wt_submit)
    BY DEF IntrNotify, NotifyWrite, CountsBacked
<1>2. /\ n \in Nat /\ Len(wt_submit) \in Nat /\ Len(wt_pending) \in Nat
      /\ wt_submit \in Seq(WtBufs) /\ wt_pending \in Seq(WtBufs)
      /\ wt_submit_cnt \in Int /\ WtDepth \in Nat
    BY LenProperties, PoolAssumption DEF TypeOK
<1>3. n \in 0 .. Len(wt_submit) /\ cnt \in Int
    BY <1>1, <1>2
<1>4. k \in 0 .. Len(wt_pending)
    BY <1>2, <1>3, RoomBounds
<1>5. wt_submit' = rest \o Take(wt_pending, k) /\ wt_pending' = Drop(wt_pending, k)
    BY <1>1 DEF TrySubmitWrite
<1>6. rest \in Seq(WtBufs) /\ Take(wt_pending, k) \in Seq(WtBufs) /\ Drop(wt_pending, k) \in Seq(WtBufs)
    BY <1>2, <1>3, <1>4, TakeDrop
<1>7. Take(wt_pending, k) \o Drop(wt_pending, k) = wt_pending
    BY <1>2, <1>4, SplitList
<1>8. Drop(wt_submit \o wt_pending, n) = rest \o wt_pending
    BY <1>2, <1>3, DropInside
<1> HIDE DEF n, rest, cnt, k
<1>9. (rest \o Take(wt_pending, k)) \o Drop(wt_pending, k) = rest \o wt_pending
    <2>1. (rest \o Take(wt_pending, k)) \o Drop(wt_pending, k)
              = rest \o (Take(wt_pending, k) \o Drop(wt_pending, k))
        BY <1>6, BufsAssociative
    <2> QED BY <1>7, <2>1, Zenon
<1>10. WriteQ' = Drop(WriteQ, n)
    BY <1>5, <1>8, <1>9, Zenon DEF WriteQ
<1> QED BY <1>10 DEF Consumed, n

LEMMA NextFifo ==
    TypeOK /\ StopInv /\ PendingInv /\ [Next]_vars
        => (clean => Grown \/ Consumed \/ Emptied)
<1> SUFFICES ASSUME TypeOK, StopInv, PendingInv, [Next]_vars, clean PROVE Grown \/ Consumed \/ Emptied
    OBVIOUS
<1>1. CASE UNCHANGED vars
    BY <1>1, SameIsGrown DEF vars, wt_vars
<1>2. CASE \E r \in Readers : ReadStep(r)
    BY <1>2, ReadKeepsWrites, SameIsGrown DEF wt_vars
<1>3. ASSUME NEW w \in Writers, WriteStep(w) PROVE Grown
    <2>1. CASE WriteCommit(w)
        BY <2>1, CommitGrows
    <2>2. CASE ~WriteCommit(w)
        <3>1. UNCHANGED <<wt_submit, wt_pending>>
            BY <1>3, <2>2 DEF WriteStep, WriteRun, TryWrite, WriteInc, WriteCheck, WriteTry, WriteFault,
                              WritePrepare, WriteLook, WriteAwake, WriteSignal, WriteFinishWait,
                              WriteRelock, WriteDec, wt_vars
        <3> QED BY <3>1, SameIsGrown
    <2> QED BY <2>1, <2>2
<1>4. ASSUME NEW c \in Ctls, CtlStep(c) PROVE Grown \/ Emptied
    <2>1. CASE StartListInit(c)
        <3>1. cpc[c] = "init" /\ dma_enable' = 1 /\ wt_submit' = <<>> /\ wt_pending' = <<>>
            BY <2>1 DEF StartListInit, CStep
        <3>2. dma_enable = 0
            BY <3>1 DEF StopInv, OffWhileStopping
        <3>3. <<>> \o <<>> = <<>>
            OBVIOUS
        <3> QED BY <3>1, <3>2, <3>3 DEF Emptied, WriteQ
    <2>2. CASE ~StartListInit(c)
        <3>1. UNCHANGED <<wt_submit, wt_pending>>
            BY <1>4, <2>2 DEF CtlStep, CtlRun, Ioctl, StartCheck, StopDisable, StopReset, StopWakeRd,
                              StopWakeWt, StopPoll, StartReset, StartSubmit, wt_vars
        <3> QED BY <3>1, SameIsGrown
    <2> QED BY <2>1, <2>2
<1>5. CASE IntrRun \/ HwReadDone \/ HwWriteDone
    <2>1. CASE IntrNotify /\ Len(hw_wt_done) # 0
        BY <2>1, NotifyConsumes
    <2>2. CASE ~(IntrNotify /\ Len(hw_wt_done) # 0)
        <3>1. UNCHANGED <<wt_submit, wt_pending>>
            BY <1>5, <2>2 DEF IntrRun, IntrStopped, IntrNotify, NotifyWrite, IntrOverrun, IntrWakeRd,
                              IntrWakeWt, HwReadDone, HwWriteDone, HwFrame, wt_vars
        <3> QED BY <3>1, SameIsGrown
    <2> QED BY <2>1, <2>2
<1> QED BY <1>1, <1>2, <1>3, <1>4, <1>5 DEF Next, ReadStep, WriteStep, CtlStep

(* Accepted writes reach the card in the order of acceptance, in every     *)
(* step of the driver, while no ioctl overlapped or was given up.          *)
THEOREM WritesInOrder == Spec => WriteQueueFifo
<1>1. TypeOK /\ StopInv /\ PendingInv /\ [Next]_vars
          => [ clean => LET old == wt_submit \o wt_pending
                            new == wt_submit' \o wt_pending'
                        IN  \/ Len(new) >= Len(old) /\ Take(new, Len(old)) = old
                            \/ new = Drop(old, Len(hw_wt_done))
                            \/ new = <<>> /\ dma_enable = 0 /\ dma_enable' = 1 ]_vars
    BY NextFifo DEF Grown, Consumed, Emptied, WriteQ
<1>2. Spec => []PendingInv
    <2>1. Init => PendingInv
        BY PoolAssumption DEF Init, PendingInv, PendingMeansFull, FifoBound
    <2> QED BY <2>1, NextPending, TypeCorrect, PTL DEF Spec
<1> QED BY <1>1, <1>2, TypeCorrect, StopHandshake, PTL DEF Spec, WriteQueueFifo
=============================================================================
