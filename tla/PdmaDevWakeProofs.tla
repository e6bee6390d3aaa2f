-------------------------- MODULE PdmaDevWakeProofs --------------------------
(***************************************************************************)
(* Proof that no thread sleeps through data or space: prepare_to_wait, the *)
(* unlocked second look and the interrupt's wake-ups after its unlock fit  *)
(* together.                                                               *)
(***************************************************************************)
EXTENDS PdmaDevQueueProofs

(* The two halves of NoLostWakeup.                                         *)
ReadersAwake == \A r \in rdque : (rpc[r] = "sleep" /\ rd_pending # <<>>) => "rd" \in irq_wake
WritersAwake == \A w \in wtque : (wpc[w] = "sleep" /\ wt_free # <<>>) => "wt" \in irq_wake

LEMMA ReadersKept ==
    ASSUME ReadersAwake, UNCHANGED <<rpc, irq_wake>>, rd_pending = <<>> => rd_pending' = <<>>,
           rdque' \subseteq rdque
    PROVE  ReadersAwake'
BY DEF ReadersAwake

LEMMA WritersKept ==
    ASSUME WritersAwake, UNCHANGED <<wpc, irq_wake>>, wt_free = <<>> => wt_free' = <<>>,
           wtque' \subseteq wtque
    PROVE  WritersAwake'
BY DEF WritersAwake

-----------------------------------------------------------------------------
(* A reader goes to sleep only after its second look has found nothing.    *)
LEMMA ReadAwakes ==
    ASSUME TypeOK, ~UserFaults, ReadersAwake, NEW r \in Readers, ReadStep(r)
    PROVE  ReadersAwake'
<1>1. irq_wake' = irq_wake
    BY DEF ReadStep, ReadRun, ReadFrame, irq_vars, TryRead, ReadCall, ReadSecond, ReadSecondReturn,
           ReadInc, ReadCheck, ReadTry, ReadCopy, ReadCopyInc, ReadPut, ReadFault, ReadSubmit,
           ReadPrepare, ReadLook, ReadAwake, ReadSignal, ReadFinishWait, ReadRelock, ReadDec
<1>2. CASE ReadLook(r)
    <2>1. UNCHANGED <<rd_pending, rdque>>
        BY <1>2 DEF ReadLook, rd_vars
    <2>2. CASE rd_pending = <<>>
        BY <2>1, <2>2 DEF ReadersAwake
    <2>3. CASE rd_pending # <<>>
        <3>1. rpc' = [rpc EXCEPT ![r] = "woken"]
            BY <1>2, <2>3 DEF ReadLook, RStep
        <3> QED BY <1>1, <2>1, <3>1 DEF ReadersAwake, TypeOK
    <2> QED BY <2>2, <2>3
<1>3. CASE ReadTry(r) \/ ReadRelock(r)
    <2>1. rdque' = rdque
        BY <1>3 DEF ReadTry, ReadRelock, TryRead
    <2>2. rd_pending = <<>> => rd_pending' = <<>>
        BY <1>3 DEF ReadTry, ReadRelock, TryRead, rd_vars
    <2>3. \E to : to # "sleep" /\ rpc' = [rpc EXCEPT ![r] = to]
        BY <1>3 DEF ReadTry, ReadRelock, TryRead, RStep
    <2> QED BY <1>1, <2>1, <2>2, <2>3 DEF ReadersAwake, TypeOK
<1>4. CASE ~ReadLook(r) /\ ~ReadTry(r) /\ ~ReadRelock(r)
    <2>1. rd_pending' = rd_pending /\ rdque' \subseteq rdque \cup {r}
        BY <1>4 DEF ReadStep, ReadRun, rd_vars, ReadCall, ReadSecond, ReadSecondReturn, ReadInc,
                    ReadCheck, ReadCopy, ReadCopyInc, ReadPut, ReadFault, ReadSubmit, ReadPrepare,
                    ReadAwake, ReadSignal, ReadFinishWait, ReadDec
    <2>2. \E to : to # "sleep" /\ rpc' = [rpc EXCEPT ![r] = to]
        BY <1>4 DEF ReadStep, ReadRun, RStep, ReadCall, ReadSecond, ReadSecondReturn, ReadInc, ReadCheck,
                    ReadCopy, ReadCopyInc, ReadPut, ReadFault, ReadSubmit, ReadPrepare, ReadAwake,
                    ReadSignal, ReadFinishWait, ReadDec
    <2> QED BY <1>1, <2>1, <2>2 DEF ReadersAwake, TypeOK
<1> QED BY <1>2, <1>3, <1>4

LEMMA ReadKeepsWriters ==
    ASSUME NEW r \in Readers, ReadStep(r)
    PROVE  UNCHANGED <<wt_free, wtque, wpc, irq_wake, clean>>
BY DEF ReadStep, ReadRun, ReadFrame, wt_vars, wtr_vars, ctl_vars, irq_vars, TryRead, ReadCall, ReadSecond,
       ReadSecondReturn, ReadInc, ReadCheck, ReadTry, ReadCopy, ReadCopyInc, ReadPut, ReadFault,
       ReadSubmit, ReadPrepare, ReadLook, ReadAwake, ReadSignal, ReadFinishWait, ReadRelock, ReadDec

-----------------------------------------------------------------------------
(* The same for a writer and the free list.                                *)
LEMMA WriteAwakes ==
    ASSUME TypeOK, ~UserFaults, WritersAwake, NEW w \in Writers, WriteStep(w)
    PROVE  WritersAwake'
<1>1. irq_wake' = irq_wake
    BY DEF WriteStep, WriteRun, WriteFrame, irq_vars, TryWrite, WriteInc, WriteCheck, WriteTry, WriteFault,
           WriteCommit, WritePrepare, WriteLook, WriteAwake, WriteSignal, WriteFinishWait, WriteRelock,
           WriteDec
<1>2. CASE WriteLook(w)
    <2>1. UNCHANGED <<wt_free, wtque>>
        BY <1>2 DEF WriteLook, wt_vars
    <2>2. CASE wt_free = <<>>
        BY <2>1, <2>2 DEF WritersAwake
    <2>3. CASE wt_free # <<>>
        <3>1. wpc' = [wpc EXCEPT ![w] = "woken"]
            BY <1>2, <2>3 DEF WriteLook, WStep
        <3> QED BY <1>1, <2>1, <3>1 DEF WritersAwake, TypeOK
    <2> QED BY <2>2, <2>3
<1>3. CASE WriteTry(w) \/ WriteRelock(w)
    <2>1. wtque' = wtque
        BY <1>3 DEF WriteTry, WriteRelock, TryWrite
    <2>2. wt_free = <<>> => wt_free' = <<>>
        BY <1>3 DEF WriteTry, WriteRelock, TryWrite, wt_vars
    <2>3. \E to : to # "sleep" /\ wpc' = [wpc EXCEPT ![w] = to]
        BY <1>3 DEF WriteTry, WriteRelock, TryWrite, WStep
    <2> QED BY <1>1, <2>1, <2>2, <2>3 DEF WritersAwake, TypeOK
<1>4. CASE ~WriteLook(w) /\ ~WriteTry(w) /\ ~WriteRelock(w)
    <2>1. wt_free' = wt_free /\ wtque' \subseteq wtque \cup {w}
        BY <1>4 DEF WriteStep, WriteRun, wt_vars, WriteInc, WriteCheck, WriteFault, WriteCommit,
                    WritePrepare, WriteAwake, WriteSignal, WriteFinishWait, WriteDec
    <2>2. \E to : to # "sleep" /\ wpc' = [wpc EXCEPT ![w] = to]
        BY <1>4 DEF WriteStep, WriteRun, WStep, WriteInc, WriteCheck, WriteFault, WriteCommit,
                    WritePrepare, WriteAwake, WriteSignal, WriteFinishWait, WriteDec
    <2> QED BY <1>1, <2>1, <2>2 DEF WritersAwake, TypeOK
<1> QED BY <1>2, <1>3, <1>4

LEMMA WriteKeepsReaders ==
    ASSUME NEW w \in Writers, WriteStep(w)
    PROVE  UNCHANGED <<rd_pending, rdque, rpc, irq_wake, clean>>
BY DEF WriteStep, WriteRun, WriteFrame, rd_vars, rdr_vars, ctl_vars, irq_vars, TryWrite, WriteInc,
       WriteCheck, WriteTry, WriteFault, WriteCommit, WritePrepare, WriteLook, WriteAwake, WriteSignal,
       WriteFinishWait, WriteRelock, WriteDec

-----------------------------------------------------------------------------
(* START relinks the pools when nobody sleeps; no other step of an ioctl   *)
(* puts a buffer where a sleeper waits.                                    *)
LEMMA CtlAwakes ==
    ASSUME TypeOK, RestartQuiescent, clean, ReadersAwake, WritersAwake, NEW c \in Ctls, CtlStep(c)
    PROVE  ReadersAwake' /\ WritersAwake'
<1>1. UNCHANGED <<rpc, wpc, irq_wake>> /\ rdque' \subseteq rdque /\ wtque' \subseteq wtque
    BY DEF CtlStep, CtlRun, Ioctl, StartCheck, StopDisable, StopReset, StopWakeRd, StopWakeWt, StopPoll,
           StartReset, StartListInit, StartSubmit, CtlFrame, rdr_vars, wtr_vars
<1>2. CASE StartListInit(c)
    <2>1. cpc[c] = "init"
        BY <1>2 DEF StartListInit, CStep
    <2>2. AllHarmless
        BY <2>1 DEF RestartQuiescent
    <2>3. (\A r \in Readers : rpc[r] # "sleep") /\ (\A w \in Writers : wpc[w] # "sleep")
        BY <2>2 DEF AllHarmless, Harmless
    <2> QED BY <1>1, <2>3 DEF ReadersAwake, WritersAwake, TypeOK
<1>3. CASE ~StartListInit(c)
    <2>1. UNCHANGED <<rd_pending, wt_free>>
        BY <1>3 DEF CtlStep, CtlRun, Ioctl, StartCheck, StopDisable, StopReset, StopWakeRd, StopWakeWt,
                    StopPoll, StartReset, StartSubmit, rd_vars, wt_vars
    <2> QED BY <1>1, <2>1, ReadersKept, WritersKept
<1> QED BY <1>2, <1>3

(* A side that gains buffers is owed a wake-up; a wake-up leaves nobody    *)
(* linked in its queue.                                                    *)
LEMMA IntrAwakes ==
    ASSUME TypeOK, ReadersAwake, WritersAwake, IntrRun \/ HwReadDone \/ HwWriteDone
    PROVE  ReadersAwake' /\ WritersAwake'
<1>1. UNCHANGED <<rpc, wpc>>
    BY CardKeepsCtl
<1>2. CASE IntrNotify
    <2>1. /\ irq_wake = {} /\ irq_wake' = WakesOwed /\ UNCHANGED <<rdque, wtque>>
          /\ NotifyRead /\ NotifyWrite
        BY <1>2 DEF IntrNotify
    <2>2. ReadersAwake'
        <3>1. CASE hw_rd_done = <<>>
            <4>1. rd_pending' = rd_pending
                BY <2>1, <3>1 DEF NotifyRead, rd_vars
            <4> QED BY <1>1, <2>1, <4>1 DEF ReadersAwake
        <3>2. CASE hw_rd_done # <<>>
            BY <2>1, <3>2 DEF ReadersAwake, WakesOwed
        <3> QED BY <3>1, <3>2
    <2>3. WritersAwake'
        <3>1. CASE hw_wt_done = <<>>
            <4>1. wt_free' = wt_free
                BY <2>1, <3>1 DEF NotifyWrite, wt_vars
            <4> QED BY <1>1, <2>1, <4>1 DEF WritersAwake
        <3>2. CASE hw_wt_done # <<>>
            BY <2>1, <3>2 DEF WritersAwake, WakesOwed
        <3> QED BY <3>1, <3>2
    <2> QED BY <2>2, <2>3
<1>3. CASE IntrWakeRd
    <2>1. rdque' = {} /\ irq_wake' = irq_wake \ {"rd"} /\ UNCHANGED <<wt_free, wtque>>
        BY <1>3 DEF IntrWakeRd, wt_vars
    <2> QED BY <1>1, <2>1 DEF ReadersAwake, WritersAwake
<1>4. CASE IntrWakeWt
    <2>1. /\ wtque' = {} /\ irq_wake = {"wt"} /\ irq_wake' = {}
          /\ UNCHANGED <<rd_pending, rdque>>
        BY <1>4 DEF IntrWakeWt, rd_vars
    <2> QED BY <1>1, <2>1 DEF ReadersAwake, WritersAwake
<1>5. CASE IntrStopped \/ IntrOverrun \/ HwReadDone \/ HwWriteDone
    <2>1. UNCHANGED <<rd_pending, wt_free, rdque, wtque, irq_wake>>
        BY <1>5 DEF IntrStopped, IntrOverrun, HwReadDone, HwWriteDone, HwFrame, rd_vars, wt_vars
    <2> QED BY <1>1, <2>1, ReadersKept, WritersKept
<1> QED BY <1>2, <1>3, <1>4, <1>5 DEF IntrRun

LEMMA NextAwake == TypeOK /\ RestartQuiescent /\ NoLostWakeup /\ [Next]_vars => NoLostWakeup'
<1> SUFFICES ASSUME TypeOK, RestartQuiescent, NoLostWakeup, [Next]_vars, clean', ~UserFaults
             PROVE  ReadersAwake' /\ WritersAwake'
    BY DEF NoLostWakeup, ReadersAwake, WritersAwake
<1>1. clean => ReadersAwake /\ WritersAwake
    BY DEF NoLostWakeup, ReadersAwake, WritersAwake
<1>2. CASE UNCHANGED vars
    BY <1>1, <1>2, ReadersKept, WritersKept DEF vars, rd_vars, wt_vars, rdr_vars, wtr_vars, ctl_vars, irq_vars
<1>3. ASSUME NEW r \in Readers, ReadStep(r) PROVE ReadersAwake' /\ WritersAwake'
    BY <1>1, <1>3, ReadAwakes, ReadKeepsWriters, WritersKept
<1>4. ASSUME NEW w \in Writers, WriteStep(w) PROVE ReadersAwake' /\ WritersAwake'
    BY <1>1, <1>4, WriteAwakes, WriteKeepsReaders, ReadersKept
<1>5. ASSUME NEW c \in Ctls, CtlStep(c) PROVE ReadersAwake' /\ WritersAwake'
    <2>1. clean
        BY <1>5 DEF CtlStep, CtlRun, Ioctl, StartCheck, StopDisable, StopReset, StopWakeRd, StopWakeWt,
                    StopPoll, StartReset, StartListInit, StartSubmit, ResetDone, ResetFailed, InTime,
                    TimedOut
    <2> QED BY <1>1, <1>5, <2>1, CtlAwakes
<1>6. CASE IntrRun \/ HwReadDone \/ HwWriteDone
    BY <1>1, <1>6, IntrAwakes, CardKeepsCtl
<1> QED BY <1>2, <1>3, <1>4, <1>5, <1>6 DEF Next, ReadStep, WriteStep, CtlStep

(* No thread sleeps through data or space (pdma-dev.c:271-275, 391-395     *)
(* against 743-775), for all numbers of threads and buffers.               *)
THEOREM NoWakeupIsLost == Spec => []NoLostWakeup
<1>1. Init => NoLostWakeup
    BY DEF Init, NoLostWakeup
<1> QED BY <1>1, NextAwake, TypeCorrect, RestartIsQuiescent, PTL DEF Spec
=============================================================================
