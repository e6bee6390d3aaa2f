---------------------------- MODULE PdmaDevProofs ----------------------------
(***************************************************************************)
(* Proofs about PdmaDev for any number of threads, any pool and any FIFO   *)
(* depth: types, the count of calls in flight, and the correspondence of   *)
(* the driver's lists with the card's FIFOs.                               *)
(***************************************************************************)
EXTENDS PdmaDev, TLAPS, SequenceTheorems, FiniteSetTheorems

-----------------------------------------------------------------------------
(* Lists.                                                                  *)

(* The loops never move more than the source list holds.                   *)
LEMMA RoomBounds ==
    ASSUME NEW depth \in Nat, NEW cnt \in Int, NEW len \in Nat
    PROVE  Room(depth, cnt, len) \in 0 .. len
BY DEF Room

(* A prefix and the rest of a list are lists of the expected lengths.      *)
LEMMA TakeDrop ==
    ASSUME NEW S, NEW s \in Seq(S), NEW n \in 0 .. Len(s)
    PROVE  /\ Take(s, n) \in Seq(S) /\ Len(Take(s, n)) = n
           /\ Drop(s, n) \in Seq(S) /\ Len(Drop(s, n)) = Len(s) - n
<1> Len(s) \in Nat /\ \A i \in 1 .. Len(s) : s[i] \in S
    BY LenProperties, ElementOfSeq
<1>1. Take(s, n) \in Seq(S) /\ Len(Take(s, n)) = n
    <2>1. \A i \in 1 .. n : s[i] \in S
        OBVIOUS
    <2> QED BY <2>1, SubSeqProperties DEF Take
<1>2. Drop(s, n) \in Seq(S) /\ Len(Drop(s, n)) = Len(s) - n
    <2>1. \A i \in n + 1 .. Len(s) : s[i] \in S
        OBVIOUS
    <2> QED BY <2>1, SubSeqProperties DEF Drop
<1> QED BY <1>1, <1>2

(* The initial free list is a list of the pool's buffers.                  *)
LEMMA PoolIsSeq ==
    ASSUME NEW n \in Nat
    PROVE  Pool(n) \in Seq(1 .. n) /\ Len(Pool(n)) = n
BY DEF Pool

-----------------------------------------------------------------------------
(* Types.                                                                  *)

(* Submitting read buffers keeps the lists and the FIFO well-typed.        *)
LEMMA TrySubmitReadType ==
    ASSUME TypeOK, NEW free \in Seq(RdBufs), NEW submit \in Seq(RdBufs), NEW cnt \in Int,
           TrySubmitRead(free, submit, cnt)
    PROVE  /\ rd_free' \in Seq(RdBufs) /\ rd_submit' \in Seq(RdBufs)
           /\ rd_submit_cnt' \in Int /\ hw_rd' \in Seq(RdBufs)
<1> DEFINE n == IF dma_enable = 0 THEN 0 ELSE Room(RdDepth, cnt, Len(free))
<1>1. n \in 0 .. Len(free)
    <2>1. Len(free) \in Nat /\ RdDepth \in Nat
        BY LenProperties, PoolAssumption
    <2>2. Room(RdDepth, cnt, Len(free)) \in 0 .. Len(free)
        BY <2>1, RoomBounds
    <2> QED BY <2>1, <2>2
<1>2. Take(free, n) \in Seq(RdBufs) /\ Drop(free, n) \in Seq(RdBufs)
    BY <1>1, TakeDrop
<1>3. n \in Int
    BY <1>1
<1> HIDE DEF n
<1>4. /\ rd_free' = Drop(free, n) /\ rd_submit' = submit \o Take(free, n)
      /\ rd_submit_cnt' = cnt + n /\ hw_rd' = hw_rd \o Take(free, n)
    BY DEF TrySubmitRead, n
<1>5. hw_rd \in Seq(RdBufs)
    BY DEF TypeOK
<1> QED BY <1>2, <1>3, <1>4, <1>5, ConcatProperties

LEMMA TrySubmitWriteType ==
    ASSUME TypeOK, NEW pending \in Seq(WtBufs), NEW submit \in Seq(WtBufs), NEW cnt \in Int,
           TrySubmitWrite(pending, submit, cnt)
    PROVE  /\ wt_pending' \in Seq(WtBufs) /\ wt_submit' \in Seq(WtBufs)
           /\ wt_submit_cnt' \in Int /\ hw_wt' \in Seq(WtBufs)
<1> DEFINE n == IF dma_enable = 0 THEN 0 ELSE Room(WtDepth, cnt, Len(pending))
<1>1. n \in 0 .. Len(pending)
    <2>1. Len(pending) \in Nat /\ WtDepth \in Nat
        BY LenProperties, PoolAssumption
    <2>2. Room(WtDepth, cnt, Len(pending)) \in 0 .. Len(pending)
        BY <2>1, RoomBounds
    <2> QED BY <2>1, <2>2
<1>2. Take(pending, n) \in Seq(WtBufs) /\ Drop(pending, n) \in Seq(WtBufs)
    BY <1>1, TakeDrop
<1>3. n \in Int
    BY <1>1
<1> HIDE DEF n
<1>4. /\ wt_pending' = Drop(pending, n) /\ wt_submit' = submit \o Take(pending, n)
      /\ wt_submit_cnt' = cnt + n /\ hw_wt' = hw_wt \o Take(pending, n)
    BY DEF TrySubmitWrite, n
<1>5. hw_wt \in Seq(WtBufs)
    BY DEF TypeOK
<1> QED BY <1>2, <1>3, <1>4, <1>5, ConcatProperties

ReadStep(r) == ReadCall(r) \/ ReadSignal(r) \/ ReadFault(r) \/ ReadRun(r)
WriteStep(w) == WriteInc(w) \/ WriteSignal(w) \/ WriteFault(w) \/ WriteRun(w)
CtlStep(c) == CtlRun(c) \/ \E op \in {"start", "stop"} : Ioctl(c, op)

(* Buffers are numbered from 1: 0 stands for no buffer in hand.            *)
LEMMA BufsNotZero == 0 \notin RdBufs /\ 0 \notin WtBufs
BY PoolAssumption DEF RdBufs, WtBufs

(* Taking the oldest filled buffer, or none, keeps the types.              *)
LEMMA TryReadType ==
    ASSUME TypeOK, NEW r \in Readers, NEW from \in {"try", "relock"}, TryRead(r, from)
    PROVE  TypeOK'
<1> USE DEF ReadPC, rd_vars, wt_vars, hwr_vars, hww_vars, rdr_vars, wtr_vars, ctl_vars, irq_vars
<1>1. CASE rd_pending # <<>>
    <2>1. Head(rd_pending) \in RdBufs /\ Tail(rd_pending) \in Seq(RdBufs)
        BY <1>1, HeadTailProperties DEF TypeOK
    <2>2. /\ rbuf' = [rbuf EXCEPT ![r] = Head(rd_pending)] /\ rd_pending' = Tail(rd_pending)
          /\ rpc' = [rpc EXCEPT ![r] = "copy"]
        BY <1>1 DEF TryRead, RStep
    <2>3. UNCHANGED <<flreg, flgrd, rw_cnt, rd_free, rd_submit, rd_submit_cnt, rdque, hwr_vars>>
            /\ ReadFrame
        BY DEF TryRead
    <2> QED BY <2>1, <2>2, <2>3, BufsNotZero DEF TypeOK, ReadFrame
<1>2. CASE rd_pending = <<>>
    BY ZenonT(30), <1>2 DEF TypeOK, TryRead, ReadFrame, RStep
<1> QED BY <1>1, <1>2

(* Every step of a reader keeps the types.                                 *)
LEMMA ReadType ==
    ASSUME TypeOK, NEW r \in Readers, ReadStep(r)
    PROVE  TypeOK'
<1> USE DEF ReadPC, rd_vars, wt_vars, hwr_vars, hww_vars, rdr_vars, wtr_vars, ctl_vars, irq_vars
<1>1. CASE ReadCall(r)
    BY <1>1 DEF TypeOK, ReadCall, ReadFrame, RStep
<1>2. CASE ReadSecond(r)
    BY <1>2 DEF TypeOK, ReadSecond, ReadFrame, RStep
<1>3. CASE ReadSecondReturn(r)
    <2>1. flreg[r] \in {0, 1}
        BY DEF TypeOK
    <2> QED BY <1>3, <2>1 DEF TypeOK, ReadSecondReturn, ReadFrame, RStep
<1>4. CASE ReadInc(r)
    BY <1>4 DEF TypeOK, ReadInc, ReadFrame, RStep
<1>5. CASE ReadCheck(r)
    BY ZenonT(30), <1>5 DEF TypeOK, ReadCheck, ReadFrame, RStep
<1>6. CASE ReadTry(r)
    BY <1>6, TryReadType DEF ReadTry
<1>7. CASE ReadCopy(r)
    BY <1>7 DEF TypeOK, ReadCopy, ReadFrame, RStep
<1>8. CASE ReadCopyInc(r)
    <2>1. flreg[r] \in {0, 1}
        BY DEF TypeOK
    <2> QED BY <1>8, <2>1 DEF TypeOK, ReadCopyInc, ReadFrame, RStep
<1>9. CASE ReadPut(r)
    BY <1>9 DEF TypeOK, ReadPut, ReadFrame, RStep
<1>10. CASE ReadFault(r)
    BY <1>10 DEF TypeOK, ReadFault, ReadFrame, RStep
<1>11. CASE ReadSubmit(r)
    <2>1. /\ rd_free' \in Seq(RdBufs) /\ rd_submit' \in Seq(RdBufs)
          /\ rd_submit_cnt' \in Int /\ hw_rd' \in Seq(RdBufs)
        BY <1>11, TrySubmitReadType DEF TypeOK, ReadSubmit
    <2>2. RStep(r, "submit", "dec") /\ ReadFrame
            /\ UNCHANGED <<rbuf, flreg, flgrd, rw_cnt, rd_pending, rdque, hw_rd_done>>
        BY <1>11 DEF ReadSubmit
    <2> QED BY <2>1, <2>2 DEF TypeOK, ReadFrame, RStep
<1>12. CASE ReadPrepare(r)
    BY <1>12 DEF TypeOK, ReadPrepare, ReadFrame, RStep
<1>13. CASE ReadLook(r)
    BY ZenonT(30), <1>13 DEF TypeOK, ReadLook, ReadFrame, RStep
<1>14. CASE ReadAwake(r)
    BY <1>14 DEF TypeOK, ReadAwake, ReadFrame, RStep
<1>15. CASE ReadSignal(r)
    BY ZenonT(30), <1>15 DEF TypeOK, ReadSignal, ReadFrame, RStep
<1>16. CASE ReadFinishWait(r)
    BY <1>16 DEF TypeOK, ReadFinishWait, ReadFrame, RStep
<1>17. CASE ReadRelock(r)
    <2>1. CASE dma_enable = 1 /\ TryRead(r, "relock")
        BY <2>1, TryReadType
    <2>2. CASE dma_enable = 0 /\ RStep(r, "relock", "dec")
               /\ UNCHANGED <<rbuf, flreg, flgrd, rw_cnt, rd_vars, rdque, hwr_vars>> /\ ReadFrame
        BY <2>2 DEF TypeOK, ReadFrame, RStep
    <2> QED BY <1>17, <2>1, <2>2 DEF ReadRelock
<1>18. CASE ReadDec(r)
    BY <1>18 DEF TypeOK, ReadDec, ReadFrame, RStep
<1> QED BY <1>1, <1>2, <1>3, <1>4, <1>5, <1>6, <1>7, <1>8, <1>9, <1>10, <1>11, <1>12, <1>13, <1>14, <1>15, <1>16, <1>17, <1>18 DEF ReadStep, ReadRun

LEMMA TryWriteType ==
    ASSUME TypeOK, NEW w \in Writers, NEW from \in {"try", "relock"}, TryWrite(w, from)
    PROVE  TypeOK'
<1> USE DEF WritePC, rd_vars, wt_vars, hwr_vars, hww_vars, rdr_vars, wtr_vars, ctl_vars, irq_vars
<1>1. CASE wt_free # <<>>
    <2>1. Head(wt_free) \in WtBufs /\ Tail(wt_free) \in Seq(WtBufs)
        BY <1>1, HeadTailProperties DEF TypeOK
    <2>2. /\ wbuf' = [wbuf EXCEPT ![w] = Head(wt_free)] /\ wt_free' = Tail(wt_free)
          /\ wpc' = [wpc EXCEPT ![w] = "copy"]
        BY <1>1 DEF TryWrite, WStep
    <2>3. UNCHANGED <<rw_cnt, wt_submit, wt_pending, wt_submit_cnt, wtque, hww_vars>> /\ WriteFrame
        BY DEF TryWrite
    <2> QED BY <2>1, <2>2, <2>3, BufsNotZero DEF TypeOK, WriteFrame
<1>2. CASE wt_free = <<>>
    BY ZenonT(30), <1>2 DEF TypeOK, TryWrite, WriteFrame, WStep
<1> QED BY <1>1, <1>2

(* Every step of a writer keeps the types.                                 *)
LEMMA WriteType ==
    ASSUME TypeOK, NEW w \in Writers, WriteStep(w)
    PROVE  TypeOK'
<1> USE DEF WritePC, rd_vars, wt_vars, hwr_vars, hww_vars, rdr_vars, wtr_vars, ctl_vars, irq_vars
<1>1. CASE WriteInc(w)
    BY <1>1 DEF TypeOK, WriteInc, WriteFrame, WStep
<1>2. CASE WriteCheck(w)
    BY ZenonT(30), <1>2 DEF TypeOK, WriteCheck, WriteFrame, WStep
<1>3. CASE WriteTry(w)
    BY <1>3, TryWriteType DEF WriteTry
<1>4. CASE WriteFault(w)
    BY <1>4 DEF TypeOK, WriteFault, WriteFrame, WStep
<1>5. CASE WriteCommit(w)
    <2>1. CASE WriteStopped(w)
        BY <1>5, <2>1 DEF TypeOK, WriteCommit, WriteStopped, WriteFrame, WStep
    <2>2. CASE dma_enable = 1 /\ WriteQueue(w)
        <3>1. wbuf[w] \in WtBufs
            BY <1>5 DEF TypeOK, WriteCommit, WStep
        <3>2. /\ wt_submit' \in Seq(WtBufs) /\ wt_pending' \in Seq(WtBufs) /\ hw_wt' \in Seq(WtBufs)
              /\ wt_submit_cnt' \in Int /\ hw_wt_done' \in Seq(WtBufs)
            <4>1. /\ Append(wt_submit, wbuf[w]) \in Seq(WtBufs)
                  /\ Append(wt_pending, wbuf[w]) \in Seq(WtBufs)
                  /\ Append(hw_wt, wbuf[w]) \in Seq(WtBufs)
                BY <3>1, AppendProperties DEF TypeOK
            <4>2. CASE wt_submit_cnt < WtDepth
                <5>1. /\ wt_submit' = Append(wt_submit, wbuf[w]) /\ hw_wt' = Append(hw_wt, wbuf[w])
                      /\ wt_submit_cnt' = wt_submit_cnt + 1 /\ UNCHANGED <<wt_pending, hw_wt_done>>
                    BY <2>2, <4>2 DEF WriteQueue
                <5>2. wt_submit_cnt + 1 \in Int
                    BY DEF TypeOK
                <5> QED BY <4>1, <5>1, <5>2 DEF TypeOK
            <4>3. CASE ~(wt_submit_cnt < WtDepth)
                BY <2>2, <4>1, <4>3 DEF TypeOK, WriteQueue
            <4> QED BY <4>2, <4>3
        <3>3. /\ WStep(w, "copy", "dec") /\ wbuf' = [wbuf EXCEPT ![w] = 0]
              /\ UNCHANGED <<rw_cnt, wt_free, wtque>> /\ WriteFrame
            BY <1>5, <2>2 DEF WriteCommit, WriteQueue
        <3> QED BY <3>2, <3>3 DEF TypeOK, WriteFrame, WStep
    <2> QED BY <1>5, <2>1, <2>2 DEF WriteCommit
<1>6. CASE WritePrepare(w)
    BY <1>6 DEF TypeOK, WritePrepare, WriteFrame, WStep
<1>7. CASE WriteLook(w)
    BY ZenonT(30), <1>7 DEF TypeOK, WriteLook, WriteFrame, WStep
<1>8. CASE WriteAwake(w)
    BY <1>8 DEF TypeOK, WriteAwake, WriteFrame, WStep
<1>9. CASE WriteSignal(w)
    BY <1>9 DEF TypeOK, WriteSignal, WriteFrame, WStep
<1>10. CASE WriteFinishWait(w)
    BY <1>10 DEF TypeOK, WriteFinishWait, WriteFrame, WStep
<1>11. CASE WriteRelock(w)
    <2>1. CASE dma_enable = 1 /\ TryWrite(w, "relock")
        BY <2>1, TryWriteType
    <2>2. CASE dma_enable = 0 /\ WStep(w, "relock", "dec")
               /\ UNCHANGED <<wbuf, rw_cnt, wt_vars, wtque, hww_vars>> /\ WriteFrame
        BY <2>2 DEF TypeOK, WriteFrame, WStep
    <2> QED BY <1>11, <2>1, <2>2 DEF WriteRelock
<1>12. CASE WriteDec(w)
    BY <1>12 DEF TypeOK, WriteDec, WriteFrame, WStep
<1> QED BY <1>1, <1>2, <1>3, <1>4, <1>5, <1>6, <1>7, <1>8, <1>9, <1>10, <1>11, <1>12 DEF WriteStep, WriteRun

LEMMA TimeoutType ==
    ASSUME TypeOK, InTime \/ TimedOut
    PROVE  timeouts' \in Nat /\ clean' \in BOOLEAN
<1>1. CASE InTime
    BY <1>1 DEF TypeOK, InTime
<1>2. CASE TimedOut
    <2>1. timeouts \in Nat
        BY DEF TypeOK
    <2>2. timeouts' = timeouts + 1 /\ clean' = FALSE
        BY <1>2 DEF TimedOut
    <2>3. timeouts' \in Nat
        BY <2>1, <2>2
    <2> QED BY <2>2, <2>3
<1> QED BY <1>1, <1>2

LEMMA ResetType ==
    ASSUME TypeOK, ResetDone \/ ResetFailed
    PROVE  /\ timeouts' \in Nat /\ clean' \in BOOLEAN
           /\ hw_rd' \in Seq(RdBufs) /\ hw_rd_done' \in Seq(RdBufs)
           /\ hw_wt' \in Seq(WtBufs) /\ hw_wt_done' \in Seq(WtBufs)
<1>1. timeouts' \in Nat /\ clean' \in BOOLEAN
    BY TimeoutType DEF ResetDone, ResetFailed
<1>2. CASE ResetDone
    BY <1>1, <1>2, EmptySeq DEF ResetDone
<1>3. CASE ResetFailed
    BY <1>1, <1>3 DEF TypeOK, ResetFailed, hwr_vars, hww_vars
<1> QED BY <1>2, <1>3

(* Every step of an ioctl keeps the types.                                 *)
LEMMA CtlType ==
    ASSUME TypeOK, NEW c \in Ctls, CtlStep(c)
    PROVE  TypeOK'
<1> USE DEF CtlPC, rd_vars, wt_vars, hwr_vars, hww_vars, rdr_vars, wtr_vars, ctl_vars, irq_vars
<1>1. CASE \E op \in {"start", "stop"} : Ioctl(c, op)
    BY <1>1 DEF TypeOK, Ioctl, CtlFrame, CStep
<1>2. CASE StartCheck(c)
    BY <1>2 DEF TypeOK, StartCheck, CtlFrame, CStep
<1>3. CASE StopDisable(c)
    BY <1>3 DEF TypeOK, StopDisable, CtlFrame, CStep
<1>4. CASE StopReset(c)
    <2>1. cpc' \in [Ctls -> CtlPC]
        BY <1>4 DEF TypeOK, StopReset, CStep, AfterStop
    <2>2. ResetDone \/ ResetFailed
        BY <1>4 DEF StopReset
    <2>3. UNCHANGED <<cmd, dma_enable, rd_vars, wt_vars, rdque, wtque, oops>> /\ CtlFrame
        BY <1>4 DEF StopReset
    <2> QED BY <2>1, <2>2, <2>3, ResetType DEF TypeOK, CtlFrame
<1>5. CASE StopWakeRd(c)
    BY <1>5 DEF TypeOK, StopWakeRd, CtlFrame, CStep
<1>6. CASE StopWakeWt(c)
    BY <1>6 DEF TypeOK, StopWakeWt, CtlFrame, CStep
<1>7. CASE StopPoll(c)
    <2>1. cpc' \in [Ctls -> CtlPC]
        BY <1>7 DEF TypeOK, StopPoll, CStep, AfterStop
    <2>2. InTime \/ TimedOut
        BY <1>7 DEF StopPoll
    <2>3. /\ UNCHANGED <<cmd, dma_enable, rd_vars, wt_vars, rdque, wtque, hwr_vars, hww_vars, oops>>
          /\ CtlFrame
        BY <1>7 DEF StopPoll
    <2> QED BY <2>1, <2>2, <2>3, TimeoutType DEF TypeOK, CtlFrame
<1>8. CASE StartReset(c)
    <2>1. cpc' \in [Ctls -> CtlPC]
        BY <1>8 DEF TypeOK, StartReset, CStep
    <2>2. ResetDone \/ ResetFailed
        BY <1>8 DEF StartReset
    <2>3. UNCHANGED <<cmd, dma_enable, rd_vars, wt_vars, rdque, wtque, oops>> /\ CtlFrame
        BY <1>8 DEF StartReset
    <2> QED BY <2>1, <2>2, <2>3, ResetType DEF TypeOK, CtlFrame
<1>9. CASE StartListInit(c)
    <2>1. Pool(RdBufNr) \in Seq(RdBufs) /\ Pool(WtBufNr) \in Seq(WtBufs)
        BY PoolIsSeq, PoolAssumption DEF RdBufs, WtBufs
    <2> QED BY <1>9, <2>1 DEF TypeOK, StartListInit, CtlFrame, CStep
<1>10. CASE StartSubmit(c)
    <2>1. /\ rd_free' \in Seq(RdBufs) /\ rd_submit' \in Seq(RdBufs)
          /\ rd_submit_cnt' \in Int /\ hw_rd' \in Seq(RdBufs)
        BY <1>10, TrySubmitReadType DEF TypeOK, StartSubmit
    <2> QED BY <1>10, <2>1 DEF TypeOK, StartSubmit, CtlFrame, CStep
<1> QED BY <1>1, <1>2, <1>3, <1>4, <1>5, <1>6, <1>7, <1>8, <1>9, <1>10 DEF CtlStep, CtlRun

(* The interrupt's move of completed reads keeps the types.                *)
LEMMA NotifyReadType ==
    ASSUME TypeOK, CountsBacked, NotifyRead
    PROVE  /\ rd_free' \in Seq(RdBufs) /\ rd_submit' \in Seq(RdBufs)
           /\ rd_pending' \in Seq(RdBufs) /\ rd_submit_cnt' \in Int /\ hw_rd' \in Seq(RdBufs)
<1> DEFINE n == Len(hw_rd_done)
<1>1. n \in 0 .. Len(rd_submit)
    BY LenProperties DEF TypeOK, CountsBacked
<1>2. Take(rd_submit, n) \in Seq(RdBufs) /\ Drop(rd_submit, n) \in Seq(RdBufs)
    BY <1>1, TakeDrop DEF TypeOK
<1>3. CASE n = 0
    BY <1>3 DEF TypeOK, NotifyRead, rd_vars
<1>4. CASE n # 0
    <2>1. /\ rd_pending' = rd_pending \o Take(rd_submit, n)
          /\ TrySubmitRead(rd_free, Drop(rd_submit, n), rd_submit_cnt - n)
        BY <1>4 DEF NotifyRead
    <2>2. rd_submit_cnt - n \in Int /\ rd_free \in Seq(RdBufs) /\ rd_pending \in Seq(RdBufs)
        BY <1>1 DEF TypeOK
    <2>3. rd_pending' \in Seq(RdBufs)
        BY <1>2, <2>1, <2>2, ConcatProperties
    <2> HIDE DEF n
    <2> QED BY <1>2, <2>1, <2>2, <2>3, TrySubmitReadType
<1> QED BY <1>3, <1>4

LEMMA NotifyWriteType ==
    ASSUME TypeOK, CountsBacked, NotifyWrite
    PROVE  /\ wt_free' \in Seq(WtBufs) /\ wt_submit' \in Seq(WtBufs)
           /\ wt_pending' \in Seq(WtBufs) /\ wt_submit_cnt' \in Int /\ hw_wt' \in Seq(WtBufs)
<1> DEFINE n == Len(hw_wt_done)
<1>1. n \in 0 .. Len(wt_submit)
    BY LenProperties DEF TypeOK, CountsBacked
<1>2. Take(wt_submit, n) \in Seq(WtBufs) /\ Drop(wt_submit, n) \in Seq(WtBufs)
    BY <1>1, TakeDrop DEF TypeOK
<1>3. CASE n = 0
    BY <1>3 DEF TypeOK, NotifyWrite, wt_vars
<1>4. CASE n # 0
    <2>1. /\ wt_free' = wt_free \o Take(wt_submit, n)
          /\ TrySubmitWrite(wt_pending, Drop(wt_submit, n), wt_submit_cnt - n)
        BY <1>4 DEF NotifyWrite
    <2>2. wt_submit_cnt - n \in Int /\ wt_pending \in Seq(WtBufs) /\ wt_free \in Seq(WtBufs)
        BY <1>1 DEF TypeOK
    <2>3. wt_free' \in Seq(WtBufs)
        BY <1>2, <2>1, <2>2, ConcatProperties
    <2> HIDE DEF n
    <2> QED BY <1>2, <2>1, <2>2, <2>3, TrySubmitWriteType
<1> QED BY <1>3, <1>4

(* So do the interrupt handler and the card.                               *)
LEMMA CardType ==
    ASSUME TypeOK, IntrRun \/ HwReadDone \/ HwWriteDone
    PROVE  TypeOK'
<1> USE DEF rd_vars, wt_vars, hwr_vars, hww_vars, rdr_vars, wtr_vars, ctl_vars, irq_vars
<1>1. CASE IntrStopped
    BY <1>1 DEF TypeOK, IntrStopped, IntrFrame
<1>2. CASE IntrNotify
    <2>1. CountsBacked /\ NotifyRead /\ NotifyWrite
        BY <1>2 DEF IntrNotify
    <2>2. WakesOwed \in SUBSET {"rd", "wt"}
        BY DEF WakesOwed
    <2>3. /\ rd_free' \in Seq(RdBufs) /\ rd_submit' \in Seq(RdBufs)
          /\ rd_pending' \in Seq(RdBufs) /\ rd_submit_cnt' \in Int /\ hw_rd' \in Seq(RdBufs)
          /\ wt_free' \in Seq(WtBufs) /\ wt_submit' \in Seq(WtBufs)
          /\ wt_pending' \in Seq(WtBufs) /\ wt_submit_cnt' \in Int /\ hw_wt' \in Seq(WtBufs)
        BY <2>1, NotifyReadType, NotifyWriteType
    <2>4. /\ hw_rd_done' = <<>> /\ hw_wt_done' = <<>> /\ msi' = FALSE /\ irq_wake' = WakesOwed
          /\ UNCHANGED <<oops, rdque, wtque>> /\ IntrFrame
        BY <1>2 DEF IntrNotify
    <2>5. hw_rd_done' \in Seq(RdBufs) /\ hw_wt_done' \in Seq(WtBufs)
        BY <2>4, EmptySeq
    <2> QED BY <2>2, <2>3, <2>4, <2>5 DEF TypeOK, IntrFrame
<1>3. CASE IntrOverrun
    BY <1>3 DEF TypeOK, IntrOverrun, IntrFrame
<1>4. CASE IntrWakeRd
    BY <1>4 DEF TypeOK, IntrWakeRd, IntrFrame
<1>5. CASE IntrWakeWt
    BY <1>5 DEF TypeOK, IntrWakeWt, IntrFrame
<1>6. CASE HwReadDone
    <2>1. Head(hw_rd) \in RdBufs /\ Tail(hw_rd) \in Seq(RdBufs)
        BY <1>6, HeadTailProperties DEF TypeOK, HwReadDone
    <2> QED BY <1>6, <2>1, AppendProperties DEF TypeOK, HwReadDone, HwFrame
<1>7. CASE HwWriteDone
    <2>1. Head(hw_wt) \in WtBufs /\ Tail(hw_wt) \in Seq(WtBufs)
        BY <1>7, HeadTailProperties DEF TypeOK, HwWriteDone
    <2> QED BY <1>7, <2>1, AppendProperties DEF TypeOK, HwWriteDone, HwFrame
<1> QED BY <1>1, <1>2, <1>3, <1>4, <1>5, <1>6, <1>7 DEF IntrRun

LEMMA InitType == Init => TypeOK
<1>1. Pool(RdBufNr) \in Seq(RdBufs) /\ Pool(WtBufNr) \in Seq(WtBufs)
    BY PoolIsSeq, PoolAssumption DEF RdBufs, WtBufs
<1>2. <<>> \in Seq(RdBufs) /\ <<>> \in Seq(WtBufs)
    BY EmptySeq
<1> SUFFICES ASSUME Init PROVE TypeOK
    OBVIOUS
<1>3. /\ rd_free \in Seq(RdBufs) /\ rd_submit \in Seq(RdBufs) /\ rd_pending \in Seq(RdBufs)
      /\ wt_free \in Seq(WtBufs) /\ wt_submit \in Seq(WtBufs) /\ wt_pending \in Seq(WtBufs)
      /\ hw_rd \in Seq(RdBufs) /\ hw_rd_done \in Seq(RdBufs)
      /\ hw_wt \in Seq(WtBufs) /\ hw_wt_done \in Seq(WtBufs)
    BY <1>1, <1>2 DEF Init
<1>4. /\ rpc \in [Readers -> ReadPC] /\ wpc \in [Writers -> WritePC] /\ cpc \in [Ctls -> CtlPC]
      /\ rbuf \in [Readers -> {0} \cup RdBufs] /\ wbuf \in [Writers -> {0} \cup WtBufs]
      /\ flreg \in [Readers -> {0, 1}] /\ cmd \in [Ctls -> {"none", "start", "stop"}]
    BY DEF Init, ReadPC, WritePC, CtlPC
<1>5. /\ \A r \in Readers : rpc[r] \in {"copy", "copy_inc", "put"} <=> rbuf[r] # 0
      /\ \A w \in Writers : wpc[w] = "copy" <=> wbuf[w] # 0
    BY DEF Init
<1>6. /\ dma_enable \in {0, 1} /\ rw_cnt \in Int /\ rd_submit_cnt \in Int /\ wt_submit_cnt \in Int
      /\ flgrd \in {0, 1} /\ timeouts \in Nat
    BY DEF Init
<1>7. /\ rdque \in SUBSET Readers /\ wtque \in SUBSET Writers /\ irq_wake \in SUBSET {"rd", "wt"}
      /\ msi \in BOOLEAN /\ oops \in BOOLEAN /\ clean \in BOOLEAN
    BY DEF Init
<1> QED BY <1>3, <1>4, <1>5, <1>6, <1>7 DEF TypeOK

LEMMA NextType == TypeOK /\ [Next]_vars => TypeOK'
<1> SUFFICES ASSUME TypeOK, [Next]_vars PROVE TypeOK'
    OBVIOUS
<1>1. CASE UNCHANGED vars
    BY <1>1 DEF TypeOK, vars, rd_vars, wt_vars, hwr_vars, hww_vars, rdr_vars, wtr_vars, ctl_vars, irq_vars
<1>2. CASE Next
    <2>1. CASE \E r \in Readers : ReadStep(r)
        BY <2>1, ReadType
    <2>2. CASE \E w \in Writers : WriteStep(w)
        BY <2>2, WriteType
    <2>3. CASE \E c \in Ctls : CtlStep(c)
        BY <2>3, CtlType
    <2>4. CASE IntrRun \/ HwReadDone \/ HwWriteDone
        BY <2>4, CardType
    <2> QED BY <1>2, <2>1, <2>2, <2>3, <2>4 DEF Next, ReadStep, WriteStep, CtlStep
<1> QED BY <1>1, <1>2

(* Every variable of the driver keeps its type, for every value of the     *)
(* constants.                                                              *)
THEOREM TypeCorrect == Spec => []TypeOK
<1> QED BY InitType, NextType, PTL DEF Spec

-----------------------------------------------------------------------------
(* The count of calls in flight.                                           *)

Uncounted == {"idle", "second", "second_inc", "inc"}

LEMMA CountsAreNat ==
    /\ IsFiniteSet(ReadersIn) /\ Cardinality(ReadersIn) \in Nat
    /\ IsFiniteSet(WritersIn) /\ Cardinality(WritersIn) \in Nat
<1>1. IsFiniteSet(ReadersIn) /\ IsFiniteSet(WritersIn)
    BY ThreadsAssumption, FS_Subset DEF ReadersIn, WritersIn
<1> QED BY <1>1, FS_CardinalityType

(* A step that neither enters nor leaves the counted part of a call.       *)
LEMMA ReaderStays ==
    ASSUME TypeOK, NEW r \in Readers, NEW from, NEW to, RStep(r, from, to),
           from \in Uncounted <=> to \in Uncounted
    PROVE  ReadersIn' = ReadersIn
BY DEF TypeOK, RStep, ReadersIn, Uncounted

LEMMA WriterStays ==
    ASSUME TypeOK, NEW w \in Writers, NEW from, NEW to, WStep(w, from, to),
           from # "idle", to # "idle"
    PROVE  WritersIn' = WritersIn
BY DEF TypeOK, WStep, WritersIn

LEMMA ReadCounted ==
    ASSUME TypeOK, CallsCounted, NEW r \in Readers, ReadStep(r)
    PROVE  CallsCounted'
<1> USE DEF Uncounted
<1>1. WritersIn' = WritersIn
    <2>1. UNCHANGED wpc
        BY DEF ReadStep, ReadRun, ReadFrame, wtr_vars, ReadCall, ReadSecond, ReadSecondReturn, ReadCheck, ReadTry, ReadCopy, ReadCopyInc, ReadPut, ReadFault, ReadSubmit, ReadPrepare, ReadLook, ReadAwake, ReadSignal, ReadFinishWait, ReadRelock, ReadInc, ReadDec, TryRead
    <2> QED BY <2>1 DEF WritersIn
<1>2. CASE ReadInc(r)
    <2>1. ReadersIn' = ReadersIn \cup {r} /\ r \notin ReadersIn
        BY <1>2 DEF TypeOK, ReadInc, RStep, ReadersIn
    <2>2. Cardinality(ReadersIn') = Cardinality(ReadersIn) + 1
        BY <2>1, FS_AddElement, CountsAreNat
    <2> QED BY <1>1, <1>2, <2>2, CountsAreNat DEF ReadInc, CallsCounted
<1>3. CASE ReadDec(r)
    <2>1. ReadersIn' = ReadersIn \ {r} /\ r \in ReadersIn
        BY <1>3 DEF TypeOK, ReadDec, RStep, ReadersIn
    <2>2. Cardinality(ReadersIn') = Cardinality(ReadersIn) - 1
        BY <2>1, FS_RemoveElement, CountsAreNat
    <2> QED BY <1>1, <1>3, <2>2, CountsAreNat DEF ReadDec, CallsCounted
<1>4. CASE ReadersIn' = ReadersIn /\ UNCHANGED rw_cnt
    BY <1>1, <1>4 DEF CallsCounted
<1>5. CASE ReadCall(r)
    BY <1>4, <1>5, ReaderStays DEF ReadCall
<1>6. CASE ReadSecond(r)
    BY <1>4, <1>6, ReaderStays DEF ReadSecond
<1>7. CASE ReadSecondReturn(r)
    BY <1>4, <1>7, ReaderStays DEF ReadSecondReturn
<1>8. CASE ReadCheck(r)
    BY <1>4, <1>8, ReaderStays DEF ReadCheck
<1>9. CASE ReadTry(r)
    BY <1>4, <1>9, ReaderStays DEF ReadTry, TryRead
<1>10. CASE ReadCopy(r)
    BY <1>4, <1>10, ReaderStays DEF ReadCopy
<1>11. CASE ReadCopyInc(r)
    BY <1>4, <1>11, ReaderStays DEF ReadCopyInc
<1>12. CASE ReadPut(r)
    BY <1>4, <1>12, ReaderStays DEF ReadPut
<1>13. CASE ReadFault(r)
    BY <1>4, <1>13, ReaderStays DEF ReadFault
<1>14. CASE ReadSubmit(r)
    BY <1>4, <1>14, ReaderStays DEF ReadSubmit
<1>15. CASE ReadPrepare(r)
    BY <1>4, <1>15, ReaderStays DEF ReadPrepare
<1>16. CASE ReadLook(r)
    BY <1>4, <1>16, ReaderStays DEF ReadLook
<1>17. CASE ReadAwake(r)
    BY <1>4, <1>17, ReaderStays DEF ReadAwake
<1>18. CASE ReadSignal(r)
    BY <1>4, <1>18, ReaderStays DEF ReadSignal
<1>19. CASE ReadFinishWait(r)
    BY <1>4, <1>19, ReaderStays DEF ReadFinishWait
<1>20. CASE ReadRelock(r)
    BY <1>4, <1>20, ReaderStays DEF ReadRelock, TryRead
<1> QED BY <1>2, <1>3, <1>5, <1>6, <1>7, <1>8, <1>9, <1>10, <1>11, <1>12, <1>13, <1>14, <1>15, <1>16, <1>17, <1>18, <1>19, <1>20 DEF ReadStep, ReadRun

LEMMA WriteCounted ==
    ASSUME TypeOK, CallsCounted, NEW w \in Writers, WriteStep(w)
    PROVE  CallsCounted'
<1>1. ReadersIn' = ReadersIn
    <2>1. UNCHANGED rpc
        BY DEF WriteStep, WriteRun, WriteFrame, rdr_vars, WriteCheck, WriteTry, WriteFault, WriteCommit, WritePrepare, WriteLook, WriteAwake, WriteSignal, WriteFinishWait, WriteRelock, WriteInc, WriteDec, TryWrite
    <2> QED BY <2>1 DEF ReadersIn
<1>2. CASE WriteInc(w)
    <2>1. WritersIn' = WritersIn \cup {w} /\ w \notin WritersIn
        BY <1>2 DEF TypeOK, WriteInc, WStep, WritersIn
    <2>2. Cardinality(WritersIn') = Cardinality(WritersIn) + 1
        BY <2>1, FS_AddElement, CountsAreNat
    <2> QED BY <1>1, <1>2, <2>2, CountsAreNat DEF WriteInc, CallsCounted
<1>3. CASE WriteDec(w)
    <2>1. WritersIn' = WritersIn \ {w} /\ w \in WritersIn
        BY <1>3 DEF TypeOK, WriteDec, WStep, WritersIn
    <2>2. Cardinality(WritersIn') = Cardinality(WritersIn) - 1
        BY <2>1, FS_RemoveElement, CountsAreNat
    <2> QED BY <1>1, <1>3, <2>2, CountsAreNat DEF WriteDec, CallsCounted
<1>4. CASE WritersIn' = WritersIn /\ UNCHANGED rw_cnt
    BY <1>1, <1>4 DEF CallsCounted
<1>5. CASE WriteCheck(w)
    BY <1>4, <1>5, WriterStays DEF WriteCheck
<1>6. CASE WriteTry(w)
    BY <1>4, <1>6, WriterStays DEF WriteTry, TryWrite
<1>7. CASE WriteFault(w)
    BY <1>4, <1>7, WriterStays DEF WriteFault
<1>8. CASE WriteCommit(w)
    BY <1>4, <1>8, WriterStays DEF WriteCommit
<1>9. CASE WritePrepare(w)
    BY <1>4, <1>9, WriterStays DEF WritePrepare
<1>10. CASE WriteLook(w)
    BY <1>4, <1>10, WriterStays DEF WriteLook
<1>11. CASE WriteAwake(w)
    BY <1>4, <1>11, WriterStays DEF WriteAwake
<1>12. CASE WriteSignal(w)
    BY <1>4, <1>12, WriterStays DEF WriteSignal
<1>13. CASE WriteFinishWait(w)
    BY <1>4, <1>13, WriterStays DEF WriteFinishWait
<1>14. CASE WriteRelock(w)
    BY <1>4, <1>14, WriterStays DEF WriteRelock, TryWrite
<1> QED BY <1>2, <1>3, <1>5, <1>6, <1>7, <1>8, <1>9, <1>10, <1>11, <1>12, <1>13, <1>14 DEF WriteStep, WriteRun

(* Ioctls, the interrupt and the card move no call in or out.              *)
LEMMA OthersCounted ==
    ASSUME CallsCounted, (\E c \in Ctls : CtlStep(c)) \/ IntrRun \/ HwReadDone \/ HwWriteDone
    PROVE  CallsCounted'
<1>1. UNCHANGED <<rw_cnt, rdr_vars, wtr_vars>>
    <2>1. CASE \E c \in Ctls : CtlStep(c)
        BY <2>1 DEF CtlStep, CtlRun, Ioctl, StartCheck, StopDisable, StopReset, StopWakeRd, StopWakeWt,
                    StopPoll, StartReset, StartListInit, StartSubmit, CtlFrame
    <2>2. CASE IntrRun
        BY <2>2 DEF IntrRun, IntrStopped, IntrNotify, IntrOverrun, IntrWakeRd, IntrWakeWt, IntrFrame
    <2>3. CASE HwReadDone \/ HwWriteDone
        BY <2>3 DEF HwReadDone, HwWriteDone, HwFrame
    <2> QED BY <2>1, <2>2, <2>3
<1> QED BY <1>1 DEF CallsCounted, ReadersIn, WritersIn, rdr_vars, wtr_vars

LEMMA InitCounted == Init => CallsCounted
<1> SUFFICES ASSUME Init PROVE CallsCounted
    OBVIOUS
<1>1. ReadersIn = {} /\ WritersIn = {}
    BY DEF Init, ReadersIn, WritersIn
<1> QED BY <1>1, FS_EmptySet DEF Init, CallsCounted

LEMMA NextCounted == TypeOK /\ CallsCounted /\ [Next]_vars => CallsCounted'
<1> SUFFICES ASSUME TypeOK, CallsCounted, [Next]_vars PROVE CallsCounted'
    OBVIOUS
<1>1. CASE UNCHANGED vars
    BY <1>1 DEF CallsCounted, ReadersIn, WritersIn, vars, rdr_vars, wtr_vars
<1>2. CASE Next
    BY <1>2, ReadCounted, WriteCounted, OthersCounted DEF Next, ReadStep, WriteStep, CtlStep
<1> QED BY <1>1, <1>2

(* rw_cnt is the number of calls between their atomic_inc and atomic_dec,  *)
(* for any number of threads: what STOP waits for is what it means to.     *)
THEOREM CallsAreCounted == Spec => []CallsCounted
<1> QED BY InitCounted, NextCounted, TypeCorrect, PTL DEF Spec

-----------------------------------------------------------------------------
(* The handshake between calls and STOP.                                   *)

(* With DMA off, a call that is before its check of dma_enable, or on its  *)
(* way out, stays so: the check sends it out.                              *)
LEMMA ReadStaysHarmless ==
    ASSUME TypeOK, dma_enable = 0, NEW r \in Readers, ReadStep(r), AllHarmless
    PROVE  AllHarmless'
<1>1. Harmless(rpc[r])
    BY DEF AllHarmless
<1>2. \E to : rpc' = [rpc EXCEPT ![r] = to] /\ Harmless(to)
    BY SMTT(30), <1>1 DEF ReadStep, ReadRun, RStep, Harmless, TryRead, ReadCall, ReadSecond, ReadSecondReturn, ReadInc, ReadCheck, ReadTry, ReadCopy, ReadCopyInc, ReadPut, ReadFault, ReadSubmit, ReadPrepare, ReadLook, ReadAwake, ReadSignal, ReadFinishWait, ReadRelock, ReadDec
<1>3. UNCHANGED wpc
    BY DEF ReadStep, ReadRun, ReadFrame, wtr_vars, TryRead, ReadCall, ReadSecond, ReadSecondReturn, ReadInc, ReadCheck, ReadTry, ReadCopy, ReadCopyInc, ReadPut, ReadFault, ReadSubmit, ReadPrepare, ReadLook, ReadAwake, ReadSignal, ReadFinishWait, ReadRelock, ReadDec
<1> QED BY <1>2, <1>3 DEF TypeOK, AllHarmless

LEMMA WriteStaysHarmless ==
    ASSUME TypeOK, dma_enable = 0, NEW w \in Writers, WriteStep(w), AllHarmless
    PROVE  AllHarmless'
<1>1. Harmless(wpc[w])
    BY DEF AllHarmless
<1>2. \E to : wpc' = [wpc EXCEPT ![w] = to] /\ Harmless(to)
    BY <1>1 DEF WriteStep, WriteRun, WStep, Harmless, TryWrite, WriteInc, WriteCheck, WriteTry, WriteFault, WriteCommit, WritePrepare, WriteLook, WriteAwake, WriteSignal, WriteFinishWait, WriteRelock, WriteDec
<1>3. UNCHANGED rpc
    BY DEF WriteStep, WriteRun, WriteFrame, rdr_vars, TryWrite, WriteInc, WriteCheck, WriteTry, WriteFault, WriteCommit, WritePrepare, WriteLook, WriteAwake, WriteSignal, WriteFinishWait, WriteRelock, WriteDec
<1> QED BY <1>2, <1>3 DEF TypeOK, AllHarmless

(* A count of zero leaves no call inside: what STOP's poll establishes.    *)
LEMMA ZeroIsHarmless ==
    ASSUME TypeOK, CallsCounted, rw_cnt = 0
    PROVE  AllHarmless
<1>1. Cardinality(ReadersIn) = 0 /\ Cardinality(WritersIn) = 0
    BY CountsAreNat DEF CallsCounted
<1>2. ReadersIn = {} /\ WritersIn = {}
    BY <1>1, CountsAreNat, FS_EmptySet
<1> QED BY <1>2 DEF ReadersIn, WritersIn, AllHarmless, Harmless

(* Calls leave the control state of the ioctls alone.                      *)
LEMMA CallsKeepCtl ==
    ASSUME (\E r \in Readers : ReadStep(r)) \/ (\E w \in Writers : WriteStep(w))
    PROVE  UNCHANGED <<dma_enable, cpc, cmd, clean>>
<1>1. CASE \E r \in Readers : ReadStep(r)
    BY <1>1 DEF ReadStep, ReadRun, ReadFrame, ctl_vars, TryRead, ReadCall, ReadSecond, ReadSecondReturn, ReadInc, ReadCheck, ReadTry, ReadCopy, ReadCopyInc, ReadPut, ReadFault, ReadSubmit, ReadPrepare, ReadLook, ReadAwake, ReadSignal, ReadFinishWait, ReadRelock, ReadDec
<1>2. CASE \E w \in Writers : WriteStep(w)
    BY <1>2 DEF WriteStep, WriteRun, WriteFrame, ctl_vars, TryWrite, WriteInc, WriteCheck, WriteTry, WriteFault, WriteCommit, WritePrepare, WriteLook, WriteAwake, WriteSignal, WriteFinishWait, WriteRelock, WriteDec
<1> QED BY <1>1, <1>2

(* So do the interrupt and the card, which leave the calls alone as well.  *)
LEMMA CardKeepsCtl ==
    ASSUME IntrRun \/ HwReadDone \/ HwWriteDone
    PROVE  UNCHANGED <<dma_enable, cpc, cmd, clean, rpc, wpc>>
BY DEF IntrRun, IntrStopped, IntrNotify, IntrOverrun, IntrWakeRd, IntrWakeWt, IntrFrame,
       HwReadDone, HwWriteDone, HwFrame, ctl_vars, rdr_vars, wtr_vars

LEMMA CtlStopInv ==
    ASSUME TypeOK, CallsCounted, StopInv, NEW c \in Ctls, CtlStep(c)
    PROVE  StopInv'
<1> SUFFICES ASSUME clean' PROVE OneIoctl' /\ OffWhileStopping' /\ DrainedWhenOff'
    BY DEF StopInv
<1> USE DEF OneIoctl, OffWhileStopping, DrainedWhenOff, Draining
<1>1. UNCHANGED <<rpc, wpc>>
    BY DEF CtlStep, CtlRun, Ioctl, StartCheck, StopDisable, StopReset, StopWakeRd, StopWakeWt,
           StopPoll, StartReset, StartListInit, StartSubmit, CtlFrame, rdr_vars, wtr_vars
<1>2. AllHarmless' <=> AllHarmless
    BY <1>1 DEF AllHarmless
<1>3. CASE \E op \in {"start", "stop"} : Ioctl(c, op)
    <2>1. PICK op \in {"start", "stop"} : Ioctl(c, op)
        BY <1>3
    <2>2. clean /\ \A d \in Ctls : cpc[d] = "idle"
        BY <2>1 DEF Ioctl
    <2>3. cpc' = [cpc EXCEPT ![c] = IF op = "start" THEN "start" ELSE "disable"] /\ dma_enable' = dma_enable
        BY <2>1 DEF Ioctl, CStep
    <2> QED BY <1>2, <2>2, <2>3 DEF TypeOK, StopInv
<1>4. ASSUME clean, OneIoctl, OffWhileStopping, DrainedWhenOff, cpc[c] # "idle", CtlRun(c)
      PROVE  OneIoctl' /\ OffWhileStopping' /\ DrainedWhenOff'
    <2>1. \A d \in Ctls : d # c => cpc[d] = "idle"
        BY <1>4
    <2>2. ASSUME NEW to, cpc' = [cpc EXCEPT ![c] = to],
                 to \in Draining \cup {"reset2", "init"} => dma_enable' = 0,
                 (dma_enable' = 0 /\ to \notin Draining) => AllHarmless
          PROVE  OneIoctl' /\ OffWhileStopping' /\ DrainedWhenOff'
        BY <1>2, <2>1, <2>2 DEF TypeOK
    <2>3. cpc[c] \notin Draining /\ dma_enable = 0 => AllHarmless
        BY <1>4, <2>1
    <2>4. CASE StartCheck(c)
        BY <1>4, <2>2, <2>3, <2>4 DEF TypeOK, StartCheck, CStep
    <2>5. CASE StopDisable(c)
        BY <1>4, <2>2, <2>5 DEF StopDisable, CStep
    <2>6. CASE StopReset(c)
        <3>1. cpc' = [cpc EXCEPT ![c] = "wake_rd"] /\ dma_enable' = dma_enable /\ cpc[c] = "reset"
            BY <2>6 DEF StopReset, CStep, ResetFailed, TimedOut
        <3> QED BY <1>4, <2>2, <3>1
    <2>7. CASE StopWakeRd(c)
        BY <1>4, <2>2, <2>7 DEF StopWakeRd, CStep
    <2>8. CASE StopWakeWt(c)
        BY <1>4, <2>2, <2>8 DEF StopWakeWt, CStep
    <2>9. CASE StopPoll(c)
        <3>1. cpc[c] = "poll" /\ dma_enable' = dma_enable
            BY <2>9 DEF StopPoll, CStep
        <3>2. CASE rw_cnt = 0 /\ cpc' = [cpc EXCEPT ![c] = AfterStop(c)]
            <4>1. AllHarmless
                BY <3>2, ZeroIsHarmless
            <4> QED BY <1>4, <2>2, <3>1, <3>2, <4>1 DEF AfterStop
        <3>3. CASE cpc' = [cpc EXCEPT ![c] = "wake_rd"]
            BY <1>4, <2>2, <3>1, <3>3
        <3> QED BY <2>9, <3>2, <3>3 DEF StopPoll, CStep, TimedOut
    <2>10. CASE StartReset(c)
        BY <1>4, <2>2, <2>3, <2>10 DEF StartReset, CStep
    <2>11. CASE StartListInit(c)
        BY <1>4, <2>2, <2>11 DEF StartListInit, CStep
    <2>12. CASE StartSubmit(c)
        BY <1>4, <2>2, <2>3, <2>12 DEF StartSubmit, CStep
    <2> QED BY <1>4, <2>4, <2>5, <2>6, <2>7, <2>8, <2>9, <2>10, <2>11, <2>12 DEF CtlRun
<1>5. CASE CtlRun(c)
    <2>1. cpc[c] # "idle"
        BY <1>5 DEF CtlRun, StartCheck, StopDisable, StopReset, StopWakeRd, StopWakeWt, StopPoll,
                    StartReset, StartListInit, StartSubmit, CStep
    <2>2. clean
        BY <1>5 DEF CtlRun, StartCheck, StopDisable, StopReset, StopWakeRd, StopWakeWt, StopPoll,
                    StartReset, StartListInit, StartSubmit, ResetDone, ResetFailed, InTime, TimedOut
    <2> QED BY <1>4, <1>5, <2>1, <2>2 DEF StopInv
<1> QED BY <1>3, <1>5 DEF CtlStep

LEMMA NextStopInv == TypeOK /\ CallsCounted /\ StopInv /\ [Next]_vars => StopInv'
<1> SUFFICES ASSUME TypeOK, CallsCounted, StopInv, [Next]_vars PROVE StopInv'
    OBVIOUS
<1> USE DEF StopInv, OneIoctl, OffWhileStopping, DrainedWhenOff
<1>1. CASE UNCHANGED vars
    BY <1>1 DEF AllHarmless, vars, ctl_vars, rdr_vars, wtr_vars
<1>2. CASE \E r \in Readers : ReadStep(r)
    <2>1. UNCHANGED <<dma_enable, cpc, cmd, clean>>
        BY <1>2, CallsKeepCtl
    <2>2. dma_enable = 0 /\ AllHarmless => AllHarmless'
        BY <1>2, ReadStaysHarmless
    <2> QED BY <2>1, <2>2
<1>3. CASE \E w \in Writers : WriteStep(w)
    <2>1. UNCHANGED <<dma_enable, cpc, cmd, clean>>
        BY <1>3, CallsKeepCtl
    <2>2. dma_enable = 0 /\ AllHarmless => AllHarmless'
        BY <1>3, WriteStaysHarmless
    <2> QED BY <2>1, <2>2
<1>4. CASE \E c \in Ctls : CtlStep(c)
    BY <1>4, CtlStopInv
<1>5. CASE IntrRun \/ HwReadDone \/ HwWriteDone
    BY <1>5, CardKeepsCtl DEF AllHarmless
<1> QED BY <1>1, <1>2, <1>3, <1>4, <1>5 DEF Next, ReadStep, WriteStep, CtlStep

LEMMA InitStopInv == Init => StopInv
BY DEF Init, StopInv, OneIoctl, OffWhileStopping, DrainedWhenOff, AllHarmless, Harmless, Draining

(* The strengthened handshake invariant.                                   *)
THEOREM StopHandshake == Spec => []StopInv
<1> QED BY InitStopInv, NextStopInv, TypeCorrect, CallsAreCounted, PTL DEF Spec

(* When START relinks the pools, no read or write is past its check of     *)
(* dma_enable, whatever the number of threads and their interleaving, so   *)
(* long as no STOP or reset timed out and no two ioctls overlapped.        *)
THEOREM RestartIsQuiescent == Spec => []RestartQuiescent
<1>1. StopInv => RestartQuiescent
    <2> SUFFICES ASSUME StopInv, clean, NEW c \in Ctls, cpc[c] = "init" PROVE AllHarmless
        BY DEF RestartQuiescent
    <2>1. dma_enable = 0
        BY DEF StopInv, OffWhileStopping
    <2>2. \A d \in Ctls : cpc[d] \notin Draining
        BY DEF StopInv, OneIoctl, Draining
    <2> QED BY <2>1, <2>2 DEF StopInv, DrainedWhenOff
<1> QED BY <1>1, StopHandshake, PTL

-----------------------------------------------------------------------------
(* The lists against the card's FIFOs.                                     *)

(* Cutting a list after its first part leaves the second.                  *)
LEMMA DropConcat ==
    ASSUME NEW S, NEW s \in Seq(S), NEW t \in Seq(S)
    PROVE  Drop(s \o t, Len(s)) = t
<1>1. Len(s \o t) = Len(s) + Len(t) /\ Len(s) \in Nat /\ Len(t) \in Nat /\ s \o t \in Seq(S)
    BY ConcatProperties, LenProperties
<1>2. CASE t = <<>>
    <2>1. Len(t) = 0 /\ Len(s) + 1 > Len(s \o t)
        BY <1>1, <1>2, EmptySeq
    <2> QED BY <1>1, <1>2, <2>1, SubSeqEmpty DEF Drop
<1>3. CASE t # <<>>
    <2>1. Len(t) > 0
        BY <1>1, <1>3, EmptySeq
    <2>2. Drop(s \o t, Len(s)) = SubSeq(t, 1, Len(t))
        BY <1>1, <2>1, SubSeqOfConcat2 DEF Drop
    <2> QED BY <2>2, SubSeqFull
<1> QED BY <1>2, <1>3

(* Moving the head of one list to the end of another keeps their join.     *)
LEMMA MoveHead ==
    ASSUME NEW S, NEW s \in Seq(S), NEW t \in Seq(S), t # <<>>
    PROVE  Append(s, Head(t)) \o Tail(t) = s \o t
<1>1. Head(t) \in S /\ Tail(t) \in Seq(S) /\ <<Head(t)>> \in Seq(S)
    BY HeadTailProperties
<1>2. <<Head(t)>> \o Tail(t) = t
    BY HeadTailProperties, ConcatProperties, SeqEqual
<1>3. Append(s, Head(t)) = s \o <<Head(t)>>
    BY <1>1, AppendIsConcat
<1> QED BY <1>1, <1>2, <1>3, ConcatAssociative

(* Associativity for lists of buffers, in the form the steps below use.    *)
LEMMA BufsAssociative ==
    /\ \A s, t, u \in Seq(RdBufs) : (s \o t) \o u = s \o (t \o u)
    /\ \A s, t, u \in Seq(WtBufs) : (s \o t) \o u = s \o (t \o u)
BY SMTT(30), ConcatAssociative

LEMMA TakeNone == ASSUME NEW S, NEW s \in Seq(S) PROVE Take(s, 0) = <<>>
BY SubSeqEmpty DEF Take

(* With DMA off the submit loops touch no FIFO.                            *)
LEMMA SubmitOff ==
    ASSUME TypeOK, dma_enable = 0, NEW free \in Seq(RdBufs), NEW submit, NEW cnt,
           TrySubmitRead(free, submit, cnt)
    PROVE  hw_rd' = hw_rd
<1>1. hw_rd' = hw_rd \o Take(free, 0)
    BY DEF TrySubmitRead
<1> QED BY <1>1, TakeNone, ConcatEmptySeq DEF TypeOK

(* What the loop appends to rd_submit it also hands to the card.           *)
LEMMA SubmitReadMirror ==
    ASSUME TypeOK, dma_enable = 1, NEW free \in Seq(RdBufs), NEW done \in Seq(RdBufs),
           TrySubmitRead(free, done \o hw_rd, Len(done \o hw_rd))
    PROVE  rd_submit' = done \o hw_rd' /\ rd_submit_cnt' = Len(rd_submit')
<1> DEFINE cnt == Len(done \o hw_rd)
           n == Room(RdDepth, cnt, Len(free))
<1>1. hw_rd \in Seq(RdBufs) /\ done \o hw_rd \in Seq(RdBufs) /\ cnt \in Nat
    BY ConcatProperties, LenProperties DEF TypeOK
<1>2. n \in 0 .. Len(free)
    <2>1. Len(free) \in Nat /\ RdDepth \in Nat /\ cnt \in Int
        BY <1>1, LenProperties, PoolAssumption
    <2> QED BY <2>1, RoomBounds
<1>3. Take(free, n) \in Seq(RdBufs) /\ Len(Take(free, n)) = n
    BY <1>2, TakeDrop
<1>4. /\ rd_submit' = (done \o hw_rd) \o Take(free, n) /\ rd_submit_cnt' = cnt + n
      /\ hw_rd' = hw_rd \o Take(free, n)
    BY DEF TrySubmitRead
<1> HIDE DEF n
<1>5. rd_submit' = done \o hw_rd'
    <2>1. (done \o hw_rd) \o Take(free, n) = done \o (hw_rd \o Take(free, n))
        BY SMTT(30), <1>1, <1>3, BufsAssociative
    <2> QED BY <1>4, <2>1, Zenon
<1>6. Len(rd_submit') = cnt + n
    BY <1>1, <1>3, <1>4, ConcatProperties
<1> QED BY <1>4, <1>5, <1>6

LEMMA SubmitWriteMirror ==
    ASSUME TypeOK, dma_enable = 1, NEW pending \in Seq(WtBufs), NEW done \in Seq(WtBufs),
           TrySubmitWrite(pending, done \o hw_wt, Len(done \o hw_wt))
    PROVE  wt_submit' = done \o hw_wt' /\ wt_submit_cnt' = Len(wt_submit')
<1> DEFINE cnt == Len(done \o hw_wt)
           n == Room(WtDepth, cnt, Len(pending))
<1>1. hw_wt \in Seq(WtBufs) /\ done \o hw_wt \in Seq(WtBufs) /\ cnt \in Nat
    BY ConcatProperties, LenProperties DEF TypeOK
<1>2. n \in 0 .. Len(pending)
    <2>1. Len(pending) \in Nat /\ WtDepth \in Nat /\ cnt \in Int
        BY <1>1, LenProperties, PoolAssumption
    <2> QED BY <2>1, RoomBounds
<1>3. Take(pending, n) \in Seq(WtBufs) /\ Len(Take(pending, n)) = n
    BY <1>2, TakeDrop
<1>4. /\ wt_submit' = (done \o hw_wt) \o Take(pending, n) /\ wt_submit_cnt' = cnt + n
      /\ hw_wt' = hw_wt \o Take(pending, n)
    BY DEF TrySubmitWrite
<1> HIDE DEF n
<1>5. wt_submit' = done \o hw_wt'
    <2>1. (done \o hw_wt) \o Take(pending, n) = done \o (hw_wt \o Take(pending, n))
        BY SMTT(30), <1>1, <1>3, BufsAssociative
    <2> QED BY <1>4, <2>1, Zenon
<1>6. Len(wt_submit') = cnt + n
    BY <1>1, <1>3, <1>4, ConcatProperties
<1> QED BY <1>4, <1>5, <1>6

LEMMA AppendConcat ==
    ASSUME NEW S, NEW s \in Seq(S), NEW t \in Seq(S), NEW e \in S
    PROVE  /\ Append(s \o t, e) = s \o Append(t, e)
           /\ Len(Append(s \o t, e)) = Len(s \o t) + 1
<1>1. s \o t \in Seq(S) /\ <<e>> \in Seq(S)
    BY ConcatProperties
<1>2. Append(s \o t, e) = (s \o t) \o <<e>> /\ Append(t, e) = t \o <<e>>
    BY <1>1, AppendIsConcat
<1>3. (s \o t) \o <<e>> = s \o (t \o <<e>>)
    <2>1. \A x, y, z \in Seq(S) : (x \o y) \o z = x \o (y \o z)
        BY SMTT(30), ConcatAssociative
    <2> QED BY <1>1, <2>1
<1> QED BY <1>1, <1>2, <1>3, AppendProperties

CardInv == CardMirrorsLists /\ StoppedCardIdle

(* What a step has to leave alone to keep CardInv trivially.               *)
CardState == <<rd_submit, rd_submit_cnt, wt_submit, wt_submit_cnt, hwr_vars, hww_vars>>

LEMMA CardUntouched ==
    ASSUME CardInv, UNCHANGED <<CardState, dma_enable, cpc, clean>>
    PROVE  CardInv'
BY DEF CardInv, CardState, CardMirrorsLists, StoppedCardIdle, ReadMirror, WriteMirror, CardEmpty,
       hwr_vars, hww_vars

(* The submit loop, from the lists as they are, keeps the mirror.          *)
LEMMA SubmitAsIs ==
    ASSUME TypeOK, clean => ReadMirror \/ dma_enable = 0, clean,
           TrySubmitRead(rd_free, rd_submit, rd_submit_cnt), UNCHANGED hw_rd_done
    PROVE  /\ dma_enable = 1 => ReadMirror'
           /\ dma_enable = 0 => hw_rd' = hw_rd
<1>1. CASE dma_enable = 1
    <2>1. rd_submit = hw_rd_done \o hw_rd /\ rd_submit_cnt = Len(hw_rd_done \o hw_rd)
        <3>1. dma_enable # 0
            BY <1>1
        <3>2. ReadMirror
            BY <3>1, Zenon
        <3> QED BY <3>2, Zenon DEF ReadMirror
    <2>2. TrySubmitRead(rd_free, hw_rd_done \o hw_rd, Len(hw_rd_done \o hw_rd))
        BY <2>1
    <2>3. rd_free \in Seq(RdBufs) /\ hw_rd_done \in Seq(RdBufs)
        BY DEF TypeOK
    <2>4. rd_submit' = hw_rd_done \o hw_rd' /\ rd_submit_cnt' = Len(rd_submit')
        BY <1>1, <2>2, <2>3, SubmitReadMirror
    <2> QED BY <1>1, <2>4 DEF ReadMirror
<1>2. CASE dma_enable = 0
    BY <1>2, SubmitOff DEF TypeOK
<1> QED BY <1>1, <1>2 DEF TypeOK

LEMMA ReadCard ==
    ASSUME TypeOK, CardInv, NEW r \in Readers, ReadStep(r)
    PROVE  CardInv'
<1>1. UNCHANGED <<dma_enable, cpc, cmd, clean>>
    BY CallsKeepCtl
<1>2. CASE ReadSubmit(r)
    <2>1. /\ TrySubmitRead(rd_free, rd_submit, rd_submit_cnt)
          /\ UNCHANGED <<hw_rd_done, wt_submit, wt_submit_cnt, hw_wt, hw_wt_done>>
        BY <1>2 DEF ReadSubmit, ReadFrame, wt_vars, hww_vars
    <2>2. clean => (dma_enable = 1 => ReadMirror') /\ (dma_enable = 0 => hw_rd' = hw_rd)
        BY <2>1, SubmitAsIs DEF TypeOK, CardInv, CardMirrorsLists
    <2> QED BY <1>1, <2>1, <2>2
            DEF CardInv, CardMirrorsLists, StoppedCardIdle, WriteMirror, CardEmpty
<1>3. CASE ~ReadSubmit(r)
    <2>1. UNCHANGED CardState
        BY <1>3 DEF ReadStep, ReadRun, ReadFrame, CardState, rd_vars, wt_vars, hwr_vars, hww_vars,
                    TryRead, ReadCall, ReadSecond, ReadSecondReturn, ReadInc, ReadCheck, ReadTry, ReadCopy, ReadCopyInc, ReadPut, ReadFault, ReadPrepare, ReadLook, ReadAwake, ReadSignal, ReadFinishWait, ReadRelock, ReadDec
    <2> QED BY <1>1, <2>1, CardUntouched
<1> QED BY <1>2, <1>3

LEMMA WriteCard ==
    ASSUME TypeOK, CardInv, NEW w \in Writers, WriteStep(w)
    PROVE  CardInv'
<1>1. UNCHANGED <<dma_enable, cpc, cmd, clean>>
    BY CallsKeepCtl
<1>2. CASE WriteCommit(w)
    <2>1. UNCHANGED <<rd_submit, rd_submit_cnt, hw_rd, hw_rd_done>>
        BY <1>2 DEF WriteCommit, WriteFrame, rd_vars, hwr_vars
    <2>2. CASE WriteStopped(w) \/ ~(wt_submit_cnt < WtDepth)
        <3>1. UNCHANGED CardState
            BY <1>2, <2>1, <2>2 DEF WriteCommit, WriteStopped, WriteQueue, CardState, hwr_vars, hww_vars
        <3> QED BY <1>1, <3>1, CardUntouched
    <2>3. CASE dma_enable = 1 /\ WriteQueue(w) /\ wt_submit_cnt < WtDepth
        <3>1. /\ wt_submit' = Append(wt_submit, wbuf[w]) /\ wt_submit_cnt' = wt_submit_cnt + 1
              /\ hw_wt' = Append(hw_wt, wbuf[w]) /\ hw_wt_done' = hw_wt_done
            BY <2>3 DEF WriteQueue
        <3>2. wbuf[w] \in WtBufs /\ hw_wt \in Seq(WtBufs) /\ hw_wt_done \in Seq(WtBufs)
            BY <1>2 DEF TypeOK, WriteCommit, WStep
        <3>3. ASSUME WriteMirror PROVE WriteMirror'
            <4>1. /\ Append(hw_wt_done \o hw_wt, wbuf[w]) = hw_wt_done \o Append(hw_wt, wbuf[w])
                  /\ Len(Append(hw_wt_done \o hw_wt, wbuf[w])) = Len(hw_wt_done \o hw_wt) + 1
                BY <3>2, AppendConcat
            <4>2. wt_submit = hw_wt_done \o hw_wt /\ wt_submit_cnt = Len(wt_submit)
                BY <3>3, Zenon DEF WriteMirror
            <4>3. wt_submit' = hw_wt_done \o hw_wt'
                BY <3>1, <4>1, <4>2, Zenon
            <4>4. wt_submit_cnt' = Len(wt_submit')
                BY <3>1, <4>1, <4>2, Zenon
            <4> QED BY <3>1, <4>3, <4>4, Zenon DEF WriteMirror
        <3>4. ReadMirror => ReadMirror'
            BY <2>1 DEF ReadMirror
        <3> QED BY <1>1, <2>3, <3>3, <3>4 DEF CardInv, CardMirrorsLists, StoppedCardIdle
    <2> QED BY <1>2, <2>2, <2>3 DEF WriteCommit
<1>3. CASE ~WriteCommit(w)
    <2>1. UNCHANGED CardState
        BY <1>3 DEF WriteStep, WriteRun, WriteFrame, CardState, rd_vars, wt_vars, hwr_vars, hww_vars,
                    TryWrite, WriteInc, WriteCheck, WriteTry, WriteFault, WritePrepare, WriteLook, WriteAwake, WriteSignal, WriteFinishWait, WriteRelock, WriteDec
    <2> QED BY <1>1, <2>1, CardUntouched
<1> QED BY <1>2, <1>3

LEMMA CtlCard ==
    ASSUME TypeOK, StopInv, CardInv, NEW c \in Ctls, CtlStep(c)
    PROVE  CardInv'
<1> SUFFICES ASSUME clean' PROVE CardInv'
    BY DEF CardInv, CardMirrorsLists, StoppedCardIdle
<1>1. clean
    BY DEF CtlStep, CtlRun, Ioctl, StartCheck, StopDisable, StopReset, StopWakeRd, StopWakeWt, StopPoll,
           StartReset, StartListInit, StartSubmit, ResetDone, ResetFailed, InTime, TimedOut
<1>2. CASE StopReset(c) \/ StartReset(c)
    <2>1. ResetDone /\ dma_enable' = dma_enable
        BY <1>2 DEF StopReset, StartReset, ResetFailed, TimedOut
    <2>2. dma_enable = 0
        BY <1>1, <1>2 DEF StopInv, OffWhileStopping, Draining, StopReset, StartReset, CStep
    <2> QED BY <2>1, <2>2 DEF ResetDone, CardInv, CardMirrorsLists, StoppedCardIdle, CardEmpty
<1>3. CASE StartListInit(c)
    <2>1. cpc[c] = "init"
        BY <1>3 DEF StartListInit, CStep
    <2>2. dma_enable = 0 /\ \A d \in Ctls : cpc[d] # "reset"
        BY <1>1, <2>1 DEF StopInv, OffWhileStopping, OneIoctl
    <2>3. CardEmpty
        BY <1>1, <2>2 DEF CardInv, StoppedCardIdle
    <2>4. <<>> \o <<>> = <<>> /\ Len(<<>>) = 0
        OBVIOUS
    <2>5. ReadMirror' /\ WriteMirror' /\ dma_enable' = 1
        BY <1>3, <2>3, <2>4 DEF StartListInit, CardEmpty, ReadMirror, WriteMirror, hwr_vars, hww_vars
    <2> QED BY <2>5 DEF CardInv, CardMirrorsLists, StoppedCardIdle
<1>4. CASE StartSubmit(c)
    <2>1. /\ TrySubmitRead(rd_free, rd_submit, rd_submit_cnt)
          /\ UNCHANGED <<dma_enable, hw_rd_done, wt_submit, wt_submit_cnt, hw_wt, hw_wt_done>>
        BY <1>4 DEF StartSubmit, wt_vars, hww_vars
    <2>2. (dma_enable = 1 => ReadMirror') /\ (dma_enable = 0 => hw_rd' = hw_rd)
        BY <1>1, <2>1, SubmitAsIs DEF TypeOK, CardInv, CardMirrorsLists
    <2>3. cpc' = [cpc EXCEPT ![c] = "idle"] /\ cpc[c] = "submit"
        BY <1>4 DEF StartSubmit, CStep
    <2>4. (\A d \in Ctls : cpc'[d] # "reset") => \A d \in Ctls : cpc[d] # "reset"
        BY <2>3 DEF TypeOK
    <2> QED BY <1>1, <2>1, <2>2, <2>4
            DEF CardInv, CardMirrorsLists, StoppedCardIdle, WriteMirror, CardEmpty
<1>5. CASE StopDisable(c)
    <2>1. cpc' = [cpc EXCEPT ![c] = "reset"] /\ dma_enable' = 0
        BY <1>5 DEF StopDisable, CStep
    <2>2. cpc'[c] = "reset"
        BY <2>1 DEF TypeOK
    <2> QED BY <2>1, <2>2 DEF CardInv, CardMirrorsLists, StoppedCardIdle
<1>6. ASSUME UNCHANGED <<CardState, dma_enable>>, NEW to, cpc[c] # "reset",
             cpc' = [cpc EXCEPT ![c] = to]
      PROVE  CardInv'
    <2>1. (\A d \in Ctls : cpc'[d] # "reset") => \A d \in Ctls : cpc[d] # "reset"
        BY <1>6 DEF TypeOK
    <2> QED BY <1>1, <1>6, <2>1 DEF CardInv, CardState, CardMirrorsLists, StoppedCardIdle, ReadMirror,
                               WriteMirror, CardEmpty, hwr_vars, hww_vars
<1>7. CASE StartCheck(c) \/ StopWakeRd(c) \/ StopWakeWt(c) \/ StopPoll(c)
           \/ \E op \in {"start", "stop"} : Ioctl(c, op)
    <2>1. UNCHANGED <<CardState, dma_enable>>
        BY <1>7 DEF Ioctl, StartCheck, StopWakeRd, StopWakeWt, StopPoll, CardState, rd_vars, wt_vars,
                    hwr_vars, hww_vars
    <2>2. cpc[c] # "reset" /\ \E to : cpc' = [cpc EXCEPT ![c] = to]
        BY <1>7 DEF Ioctl, StartCheck, StopWakeRd, StopWakeWt, StopPoll, CStep
    <2> QED BY <1>6, <2>1, <2>2
<1> QED BY <1>2, <1>3, <1>4, <1>5, <1>7 DEF CtlStep, CtlRun

(* A completion moves a descriptor's place on the card, not in the lists.  *)
LEMMA CompletionCard ==
    ASSUME TypeOK, CardInv, HwReadDone \/ HwWriteDone
    PROVE  CardInv'
<1>1. UNCHANGED <<dma_enable, cpc, clean, rd_submit, rd_submit_cnt, wt_submit, wt_submit_cnt>>
    BY DEF HwReadDone, HwWriteDone, HwFrame, ctl_vars, rd_vars, wt_vars
<1>2. ~CardEmpty
    BY DEF HwReadDone, HwWriteDone, CardEmpty
<1>3. CASE HwReadDone
    <2>1. hw_rd' = Tail(hw_rd) /\ hw_rd_done' = Append(hw_rd_done, Head(hw_rd)) /\ hw_rd # <<>>
        BY <1>3 DEF HwReadDone
    <2>2. Append(hw_rd_done, Head(hw_rd)) \o Tail(hw_rd) = hw_rd_done \o hw_rd
        BY SMTT(30), <2>1, MoveHead DEF TypeOK
    <2>3. hw_rd_done' \o hw_rd' = hw_rd_done \o hw_rd
        BY <2>1, <2>2, Zenon
    <2>4. ReadMirror => ReadMirror'
        BY <1>1, <2>3, Zenon DEF ReadMirror
    <2>5. WriteMirror => WriteMirror'
        BY <1>1, <1>3 DEF HwReadDone, WriteMirror, hww_vars
    <2> QED BY <1>1, <1>2, <2>4, <2>5 DEF CardInv, CardMirrorsLists, StoppedCardIdle
<1>4. CASE HwWriteDone
    <2>1. hw_wt' = Tail(hw_wt) /\ hw_wt_done' = Append(hw_wt_done, Head(hw_wt)) /\ hw_wt # <<>>
        BY <1>4 DEF HwWriteDone
    <2>2. Append(hw_wt_done, Head(hw_wt)) \o Tail(hw_wt) = hw_wt_done \o hw_wt
        BY <2>1, MoveHead DEF TypeOK
    <2>3. hw_wt_done' \o hw_wt' = hw_wt_done \o hw_wt
        BY <2>1, <2>2, Zenon
    <2>4. WriteMirror => WriteMirror'
        BY <1>1, <2>3, Zenon DEF WriteMirror
    <2>5. ReadMirror => ReadMirror'
        BY <1>1, <1>4 DEF HwWriteDone, ReadMirror, hwr_vars
    <2> QED BY <1>1, <1>2, <2>4, <2>5 DEF CardInv, CardMirrorsLists, StoppedCardIdle
<1> QED BY <1>3, <1>4

(* Moving as many heads as the card has counted leaves what it still has.  *)
LEMMA NotifyReadMirror ==
    ASSUME TypeOK, dma_enable = 1, ReadMirror, NotifyRead, hw_rd_done' = <<>>
    PROVE  ReadMirror'
<1>1. hw_rd \in Seq(RdBufs) /\ hw_rd_done \in Seq(RdBufs) /\ rd_free \in Seq(RdBufs)
    BY DEF TypeOK
<1>2. <<>> \o hw_rd = hw_rd /\ <<>> \in Seq(RdBufs)
    BY <1>1, ConcatEmptySeq, EmptySeq
<1>3. Len(hw_rd_done) \in Nat /\ Len(hw_rd) \in Nat
    BY <1>1, LenProperties
<1>4. rd_submit = hw_rd_done \o hw_rd /\ rd_submit_cnt = Len(rd_submit)
    BY Zenon DEF ReadMirror
<1>5. CASE Len(hw_rd_done) = 0
    <2>1. hw_rd_done = <<>>
        BY <1>1, <1>5, EmptySeq
    <2>2. UNCHANGED <<rd_submit, rd_submit_cnt, hw_rd>>
        BY <1>5 DEF NotifyRead, rd_vars
    <2> QED BY <1>4, <2>1, <2>2, Zenon DEF ReadMirror
<1>6. CASE Len(hw_rd_done) # 0
    <2>1. Drop(rd_submit, Len(hw_rd_done)) = <<>> \o hw_rd
        <3>1. Drop(hw_rd_done \o hw_rd, Len(hw_rd_done)) = hw_rd
            BY <1>1, DropConcat
        <3> QED BY <1>2, <1>4, <3>1, Zenon
    <2>2. rd_submit_cnt - Len(hw_rd_done) = Len(<<>> \o hw_rd)
        <3>1. Len(hw_rd_done \o hw_rd) = Len(hw_rd_done) + Len(hw_rd)
            BY <1>1, ConcatProperties
        <3>2. rd_submit_cnt = Len(hw_rd_done) + Len(hw_rd)
            BY <1>4, <3>1, Zenon
        <3>3. rd_submit_cnt - Len(hw_rd_done) = Len(hw_rd)
            BY <1>3, <3>2
        <3> QED BY <1>2, <3>3, Zenon
    <2>3. TrySubmitRead(rd_free, Drop(rd_submit, Len(hw_rd_done)), rd_submit_cnt - Len(hw_rd_done))
        BY <1>6, Zenon DEF NotifyRead
    <2>4. TrySubmitRead(rd_free, <<>> \o hw_rd, Len(<<>> \o hw_rd))
        BY <2>1, <2>2, <2>3, Zenon
    <2>5. rd_submit' = <<>> \o hw_rd' /\ rd_submit_cnt' = Len(rd_submit')
        BY <1>1, <1>2, <2>4, SubmitReadMirror
    <2> QED BY <2>5, Zenon DEF ReadMirror
<1> QED BY <1>5, <1>6

LEMMA NotifyWriteMirror ==
    ASSUME TypeOK, dma_enable = 1, WriteMirror, NotifyWrite, hw_wt_done' = <<>>
    PROVE  WriteMirror'
<1>1. hw_wt \in Seq(WtBufs) /\ hw_wt_done \in Seq(WtBufs) /\ wt_pending \in Seq(WtBufs)
    BY DEF TypeOK
<1>2. <<>> \o hw_wt = hw_wt /\ <<>> \in Seq(WtBufs)
    BY <1>1, ConcatEmptySeq, EmptySeq
<1>3. Len(hw_wt_done) \in Nat /\ Len(hw_wt) \in Nat
    BY <1>1, LenProperties
<1>4. wt_submit = hw_wt_done \o hw_wt /\ wt_submit_cnt = Len(wt_submit)
    BY Zenon DEF WriteMirror
<1>5. CASE Len(hw_wt_done) = 0
    <2>1. hw_wt_done = <<>>
        BY <1>1, <1>5, EmptySeq
    <2>2. UNCHANGED <<wt_submit, wt_submit_cnt, hw_wt>>
        BY <1>5 DEF NotifyWrite, wt_vars
    <2> QED BY <1>4, <2>1, <2>2, Zenon DEF WriteMirror
<1>6. CASE Len(hw_wt_done) # 0
    <2>1. Drop(wt_submit, Len(hw_wt_done)) = <<>> \o hw_wt
        <3>1. Drop(hw_wt_done \o hw_wt, Len(hw_wt_done)) = hw_wt
            BY <1>1, DropConcat
        <3> QED BY <1>2, <1>4, <3>1, Zenon
    <2>2. wt_submit_cnt - Len(hw_wt_done) = Len(<<>> \o hw_wt)
        <3>1. Len(hw_wt_done \o hw_wt) = Len(hw_wt_done) + Len(hw_wt)
            BY <1>1, ConcatProperties
        <3>2. wt_submit_cnt = Len(hw_wt_done) + Len(hw_wt)
            BY <1>4, <3>1, Zenon
        <3>3. wt_submit_cnt - Len(hw_wt_done) = Len(hw_wt)
            BY <1>3, <3>2
        <3> QED BY <1>2, <3>3, Zenon
    <2>3. TrySubmitWrite(wt_pending, Drop(wt_submit, Len(hw_wt_done)), wt_submit_cnt - Len(hw_wt_done))
        BY <1>6, Zenon DEF NotifyWrite
    <2>4. TrySubmitWrite(wt_pending, <<>> \o hw_wt, Len(<<>> \o hw_wt))
        BY <2>1, <2>2, <2>3, Zenon
    <2>5. wt_submit' = <<>> \o hw_wt' /\ wt_submit_cnt' = Len(wt_submit')
        BY <1>1, <1>2, <2>4, SubmitWriteMirror
    <2> QED BY <2>5, Zenon DEF WriteMirror
<1> QED BY <1>5, <1>6

LEMMA IntrCard ==
    ASSUME TypeOK, CardInv, IntrRun
    PROVE  CardInv'
<1>1. UNCHANGED <<dma_enable, cpc, clean>>
    BY CardKeepsCtl
<1>2. CASE IntrNotify
    <2>1. dma_enable = 1 /\ NotifyRead /\ NotifyWrite /\ hw_rd_done' = <<>> /\ hw_wt_done' = <<>>
        BY <1>2 DEF IntrNotify
    <2>2. (ReadMirror => ReadMirror') /\ (WriteMirror => WriteMirror')
        BY <2>1, NotifyReadMirror, NotifyWriteMirror
    <2> QED BY <1>1, <2>1, <2>2 DEF CardInv, CardMirrorsLists, StoppedCardIdle
<1>3. CASE IntrStopped \/ IntrOverrun \/ IntrWakeRd \/ IntrWakeWt
    <2>1. UNCHANGED CardState
        BY <1>3 DEF IntrStopped, IntrOverrun, IntrWakeRd, IntrWakeWt, CardState, rd_vars, wt_vars,
                    hwr_vars, hww_vars
    <2> QED BY <1>1, <2>1, CardUntouched
<1> QED BY <1>2, <1>3 DEF IntrRun

LEMMA NextCard == TypeOK /\ StopInv /\ CardInv /\ [Next]_vars => CardInv'
<1> SUFFICES ASSUME TypeOK, StopInv, CardInv, [Next]_vars PROVE CardInv'
    OBVIOUS
<1>1. CASE UNCHANGED vars
    BY <1>1, CardUntouched DEF vars, ctl_vars, rd_vars, wt_vars, CardState
<1>2. CASE \E r \in Readers : ReadStep(r)
    BY <1>2, ReadCard
<1>3. CASE \E w \in Writers : WriteStep(w)
    BY <1>3, WriteCard
<1>4. CASE \E c \in Ctls : CtlStep(c)
    BY <1>4, CtlCard
<1>5. CASE IntrRun
    BY <1>5, IntrCard
<1>6. CASE HwReadDone \/ HwWriteDone
    BY <1>6, CompletionCard
<1> QED BY <1>1, <1>2, <1>3, <1>4, <1>5, <1>6 DEF Next, ReadStep, WriteStep, CtlStep

LEMMA InitCard == Init => CardInv
BY DEF Init, CardInv, CardMirrorsLists, StoppedCardIdle, CardEmpty

LEMMA CardAlways == Spec => []CardInv
<1> QED BY InitCard, NextCard, TypeCorrect, StopHandshake, PTL DEF Spec

(* While DMA runs, the submit lists mirror the card's FIFOs, in order and  *)
(* in number, for every number of threads, buffers and FIFO entries.       *)
THEOREM CardIsMirrored == Spec => []CardMirrorsLists
<1>1. CardInv => CardMirrorsLists
    BY DEF CardInv
<1> QED BY <1>1, CardAlways, PTL

(* Between STOP's reset and the next START the card holds no descriptor.   *)
THEOREM StoppedMeansIdle == Spec => []StoppedCardIdle
<1>1. CardInv => StoppedCardIdle
    BY DEF CardInv
<1> QED BY <1>1, CardAlways, PTL

-----------------------------------------------------------------------------
(* No corruption: the mirror rules out an interrupt with too many          *)
(* completions, the handshake a START over a held buffer.                  *)

LEMMA MirrorBacksCounts ==
    ASSUME TypeOK, ReadMirror, WriteMirror
    PROVE  CountsBacked
<1>1. Len(hw_rd_done \o hw_rd) = Len(hw_rd_done) + Len(hw_rd) /\ Len(hw_rd_done) \in Nat /\ Len(hw_rd) \in Nat
    BY ConcatProperties, LenProperties DEF TypeOK
<1>2. Len(hw_wt_done \o hw_wt) = Len(hw_wt_done) + Len(hw_wt) /\ Len(hw_wt_done) \in Nat /\ Len(hw_wt) \in Nat
    BY ConcatProperties, LenProperties DEF TypeOK
<1>3. Len(rd_submit) = Len(hw_rd_done) + Len(hw_rd)
    BY <1>1, Zenon DEF ReadMirror
<1>4. Len(wt_submit) = Len(hw_wt_done) + Len(hw_wt)
    BY <1>2, Zenon DEF WriteMirror
<1> QED BY <1>1, <1>2, <1>3, <1>4 DEF CountsBacked

LEMMA QuietHoldsNothing ==
    ASSUME TypeOK, AllHarmless
    PROVE  (\A r \in Readers : rbuf[r] = 0) /\ (\A w \in Writers : wbuf[w] = 0)
BY DEF TypeOK, AllHarmless, Harmless

LEMMA NextUncorrupted ==
    TypeOK /\ RestartQuiescent /\ CardMirrorsLists /\ NoCorruption /\ [Next]_vars => NoCorruption'
<1> SUFFICES ASSUME TypeOK, RestartQuiescent, CardMirrorsLists, NoCorruption, [Next]_vars, clean'
             PROVE  ~oops'
    BY DEF NoCorruption
<1>1. CASE UNCHANGED vars
    BY <1>1 DEF NoCorruption, vars, ctl_vars, irq_vars
<1>2. CASE \E r \in Readers : ReadStep(r)
    <2>1. UNCHANGED <<clean, oops>>
        BY <1>2 DEF ReadStep, ReadRun, ReadFrame, ctl_vars, irq_vars, TryRead, ReadCall, ReadSecond, ReadSecondReturn, ReadInc, ReadCheck, ReadTry, ReadCopy, ReadCopyInc, ReadPut, ReadFault, ReadSubmit, ReadPrepare, ReadLook, ReadAwake, ReadSignal, ReadFinishWait, ReadRelock, ReadDec
    <2> QED BY <2>1 DEF NoCorruption
<1>3. CASE \E w \in Writers : WriteStep(w)
    <2>1. UNCHANGED <<clean, oops>>
        BY <1>3 DEF WriteStep, WriteRun, WriteFrame, ctl_vars, irq_vars, TryWrite, WriteInc, WriteCheck, WriteTry, WriteFault, WriteCommit, WritePrepare, WriteLook, WriteAwake, WriteSignal, WriteFinishWait, WriteRelock, WriteDec
    <2> QED BY <2>1 DEF NoCorruption
<1>4. ASSUME NEW c \in Ctls, CtlStep(c) PROVE ~oops'
    <2>1. clean
        BY <1>4 DEF CtlStep, CtlRun, Ioctl, StartCheck, StopDisable, StopReset, StopWakeRd, StopWakeWt,
                    StopPoll, StartReset, StartListInit, StartSubmit, ResetDone, ResetFailed, InTime,
                    TimedOut
    <2>2. CASE StartListInit(c)
        <3>1. cpc[c] = "init"
            BY <2>2 DEF StartListInit, CStep
        <3>2. AllHarmless
            BY <2>1, <3>1 DEF RestartQuiescent
        <3>3. (\A r \in Readers : rbuf[r] = 0) /\ (\A w \in Writers : wbuf[w] = 0)
            BY <3>2, QuietHoldsNothing
        <3> QED BY <2>2, <3>3 DEF StartListInit
    <2>3. CASE ~StartListInit(c)
        <3>1. UNCHANGED oops
            BY <1>4, <2>3 DEF CtlStep, CtlRun, Ioctl, StartCheck, StopDisable, StopReset, StopWakeRd,
                              StopWakeWt, StopPoll, StartReset, StartSubmit
        <3> QED BY <2>1, <3>1 DEF NoCorruption
    <2> QED BY <2>2, <2>3
<1>5. CASE IntrRun \/ HwReadDone \/ HwWriteDone
    <2>1. UNCHANGED <<clean, dma_enable>>
        BY <1>5, CardKeepsCtl
    <2>2. ~IntrOverrun
        <3>1. (clean /\ dma_enable = 1) => CountsBacked
            BY MirrorBacksCounts DEF CardMirrorsLists
        <3> QED BY <2>1, <3>1 DEF IntrOverrun
    <2>3. UNCHANGED oops
        BY <1>5, <2>2 DEF IntrRun, IntrStopped, IntrNotify, IntrWakeRd, IntrWakeWt, HwReadDone,
                          HwWriteDone, HwFrame
    <2> QED BY <2>1, <2>3 DEF NoCorruption
<1> QED BY <1>1, <1>2, <1>3, <1>4, <1>5 DEF Next, ReadStep, WriteStep, CtlStep

(* No list is corrupted, unless a STOP or reset was given up or two ioctls *)
(* overlapped.                                                             *)
THEOREM NeverCorrupted == Spec => []NoCorruption
<1>1. Init => NoCorruption
    BY DEF Init, NoCorruption
<1> QED BY <1>1, NextUncorrupted, TypeCorrect, RestartIsQuiescent, CardIsMirrored, PTL DEF Spec
=============================================================================
