------------------------------- MODULE PdmaDev -------------------------------
(***************************************************************************)
(* The character-device core of the PCIe DMA driver, pdma-v1.3-src/        *)
(* pdma-dev.c, with the part of pdma-pcie.c it calls: two pools of DMA     *)
(* buffers moved between free, submit and pending lists by read(2),        *)
(* write(2), the START and STOP ioctls and the completion interrupt.       *)
(*                                                                         *)
(* One critical section under ppdma->lock is one step.  What the code does *)
(* outside the lock - the check of dma_enable, the count of calls in       *)
(* flight, the sleep protocol of the wait queues, the wake-ups after an    *)
(* unlock, the polls of STOP - is a step of its own.  The card and its     *)
(* descriptor FIFOs are external.                                          *)
(*                                                                         *)
(* Operators named Bug... are not part of the model: each is a definition  *)
(* with a plausible mistake in it, and shows that a property notices it.   *)
(***************************************************************************)
EXTENDS Integers, Sequences, FiniteSets, Functions

CONSTANTS
    Readers,        \* threads that call read(2)
    Writers,        \* threads that call write(2)
    Ctls,           \* threads that issue the START and STOP ioctls
    RdBufNr,        \* ppdma->rd_buf_nr
    WtBufNr,        \* ppdma->wt_buf_nr
    RdDepth,        \* PDMA_RD_FIFO_DEPTH
    WtDepth,        \* PDMA_WT_FIFO_DEPTH
    UserFaults,     \* may copy_to_user and copy_from_user fail?
    MaxTimeouts     \* bound: how often the card's reset, or STOP's drain, may time out

ASSUME ThreadsAssumption ==
    /\ IsFiniteSet(Readers) /\ IsFiniteSet(Writers) /\ IsFiniteSet(Ctls)
ASSUME PoolAssumption ==
    /\ RdBufNr \in Nat \ {0} /\ WtBufNr \in Nat \ {0}
    /\ RdDepth \in Nat \ {0} /\ WtDepth \in Nat \ {0}
ASSUME SwitchAssumption == UserFaults \in BOOLEAN /\ MaxTimeouts \in Nat

RdBufs == 1 .. RdBufNr
WtBufs == 1 .. WtBufNr

VARIABLES
    dma_enable,     \* 0 | 1
    rw_cnt,         \* atomic count of the calls STOP has to wait for
    rd_free, rd_submit, rd_pending, rd_submit_cnt,
    wt_free, wt_submit, wt_pending, wt_submit_cnt,
    rdque, wtque,   \* the threads linked in the two wait queues
    flgrd,          \* parity of the global flgrd: 1 = serve the next read from bbuf
    rpc, rbuf, flreg,   \* per reader: control point, buffer in hand, flgrd as loaded
    wpc, wbuf,      \* per writer: control point, buffer in hand
    cpc, cmd,       \* per controller: control point, ioctl being served
    irq_wake,       \* wake-ups the interrupt handler owes after its unlock
    oops,           \* a list has been corrupted
    hw_rd, hw_rd_done,  \* card: read descriptors queued; filled but not reported
    hw_wt, hw_wt_done,  \* card: write descriptors queued; consumed, not reported
    msi,            \* a completion interrupt is pending
    timeouts,       \* resets and drains that have timed out
    clean           \* history: none has, and no two ioctls were in progress at once

rd_vars  == <<rd_free, rd_submit, rd_pending, rd_submit_cnt>>
wt_vars  == <<wt_free, wt_submit, wt_pending, wt_submit_cnt>>
hwr_vars == <<hw_rd, hw_rd_done>>
hww_vars == <<hw_wt, hw_wt_done>>
rdr_vars == <<rpc, rbuf, flreg, flgrd>>
wtr_vars == <<wpc, wbuf>>
ctl_vars == <<cpc, cmd, timeouts, clean>>
irq_vars == <<irq_wake, msi, oops>>
vars == <<dma_enable, rw_cnt, rd_vars, wt_vars, rdque, wtque, rdr_vars, wtr_vars,
          ctl_vars, irq_vars, hwr_vars, hww_vars>>

-----------------------------------------------------------------------------
(* Lists.  A pool starts in array order, as list_init links it.            *)

Take(s, n) == SubSeq(s, 1, n)
Drop(s, n) == SubSeq(s, n + 1, Len(s))
Pool(n)    == [i \in 1 .. n |-> i]

(* How many entries the submit loops move: until the FIFO is full or the   *)
(* source list is empty.                                                   *)
Room(depth, cnt, len) == IF cnt >= depth THEN 0
                         ELSE IF len <= depth - cnt THEN len ELSE depth - cnt

(* pdma_try_to_submit_read_nolock, from the lists its caller has reached.  *)
TrySubmitRead(free, submit, cnt) ==
    LET n == IF dma_enable = 0 THEN 0 ELSE Room(RdDepth, cnt, Len(free))
    IN  /\ rd_free' = Drop(free, n)
        /\ rd_submit' = submit \o Take(free, n)
        /\ rd_submit_cnt' = cnt + n
        /\ hw_rd' = hw_rd \o Take(free, n)

(* pdma_try_to_submit_write_nolock, likewise.                              *)
TrySubmitWrite(pending, submit, cnt) ==
    LET n == IF dma_enable = 0 THEN 0 ELSE Room(WtDepth, cnt, Len(pending))
    IN  /\ wt_pending' = Drop(pending, n)
        /\ wt_submit' = submit \o Take(pending, n)
        /\ wt_submit_cnt' = cnt + n
        /\ hw_wt' = hw_wt \o Take(pending, n)

-----------------------------------------------------------------------------
(* pdma_dev_ctrl_init at probe: DMA stopped, everything free.              *)
Init ==
    /\ dma_enable = 0 /\ rw_cnt = 0
    /\ rd_free = Pool(RdBufNr) /\ rd_submit = <<>> /\ rd_pending = <<>> /\ rd_submit_cnt = 0
    /\ wt_free = Pool(WtBufNr) /\ wt_submit = <<>> /\ wt_pending = <<>> /\ wt_submit_cnt = 0
    /\ rdque = {} /\ wtque = {} /\ flgrd = 0
    /\ rpc = [r \in Readers |-> "idle"] /\ rbuf = [r \in Readers |-> 0]
    /\ flreg = [r \in Readers |-> 0]
    /\ wpc = [w \in Writers |-> "idle"] /\ wbuf = [w \in Writers |-> 0]
    /\ cpc = [c \in Ctls |-> "idle"] /\ cmd = [c \in Ctls |-> "none"]
    /\ irq_wake = {} /\ msi = FALSE /\ oops = FALSE
    /\ hw_rd = <<>> /\ hw_rd_done = <<>> /\ hw_wt = <<>> /\ hw_wt_done = <<>>
    /\ timeouts = 0 /\ clean = TRUE

-----------------------------------------------------------------------------
(* pdma_read.                                                              *)

RStep(r, from, to) == rpc[r] = from /\ rpc' = [rpc EXCEPT ![r] = to]

ReadFrame == UNCHANGED <<dma_enable, wt_vars, wtque, wtr_vars, ctl_vars, irq_vars, hww_vars>>

(* Entry: an odd flgrd sends the call to the copy kept in bbuf, outside    *)
(* the count of calls and the check of dma_enable.                         *)
ReadCall(r) ==
    /\ RStep(r, "idle", IF flgrd = 1 THEN "second" ELSE "inc")
    /\ UNCHANGED <<rbuf, flreg, flgrd, rw_cnt, rd_vars, rdque, hwr_vars>> /\ ReadFrame

(* flgrd++ is a plain load and store that other readers may interleave.    *)
ReadSecond(r) ==
    /\ RStep(r, "second", "second_inc")
    /\ flreg' = [flreg EXCEPT ![r] = flgrd]
    /\ UNCHANGED <<rbuf, flgrd, rw_cnt, rd_vars, rdque, hwr_vars>> /\ ReadFrame

ReadSecondReturn(r) ==
    /\ RStep(r, "second_inc", "idle")
    /\ flgrd' = 1 - flreg[r]
    /\ UNCHANGED <<rbuf, flreg, rw_cnt, rd_vars, rdque, hwr_vars>> /\ ReadFrame

ReadInc(r) ==
    /\ RStep(r, "inc", "chk")
    /\ rw_cnt' = rw_cnt + 1
    /\ UNCHANGED <<rbuf, flreg, flgrd, rd_vars, rdque, hwr_vars>> /\ ReadFrame

(* The unlocked check of dma_enable, then of the size: EIO, EINVAL or on.  *)
ReadCheck(r) ==
    /\ \/ dma_enable = 1 /\ RStep(r, "chk", "try")
       \/ RStep(r, "chk", "dec")
    /\ UNCHANGED <<rbuf, flreg, flgrd, rw_cnt, rd_vars, rdque, hwr_vars>> /\ ReadFrame

(* try_read under the lock: take the oldest filled buffer; with none,      *)
(* leave with EAGAIN (O_NONBLOCK) or go to sleep.                          *)
TryRead(r, from) ==
    /\ \/ /\ rd_pending # <<>>
          /\ RStep(r, from, "copy")
          /\ rbuf' = [rbuf EXCEPT ![r] = Head(rd_pending)]
          /\ rd_pending' = Tail(rd_pending)
       \/ /\ rd_pending = <<>>
          /\ RStep(r, from, "prep") \/ RStep(r, from, "dec")
          /\ UNCHANGED <<rbuf, rd_pending>>
    /\ UNCHANGED <<flreg, flgrd, rw_cnt, rd_free, rd_submit, rd_submit_cnt, rdque, hwr_vars>>
    /\ ReadFrame

ReadTry(r) == TryRead(r, "try")

(* memcpy to bbuf and the load half of flgrd++.                            *)
ReadCopy(r) ==
    /\ RStep(r, "copy", "copy_inc")
    /\ flreg' = [flreg EXCEPT ![r] = flgrd]
    /\ UNCHANGED <<rbuf, flgrd, rw_cnt, rd_vars, rdque, hwr_vars>> /\ ReadFrame

ReadCopyInc(r) ==
    /\ RStep(r, "copy_inc", "put")
    /\ flgrd' = 1 - flreg[r]
    /\ UNCHANGED <<rbuf, flreg, rw_cnt, rd_vars, rdque, hwr_vars>> /\ ReadFrame

BugReadPutKeepsBuffer(r) ==
    /\ RStep(r, "put", "submit")
    /\ rd_free' = Append(rd_free, rbuf[r])
    /\ UNCHANGED <<rbuf, flreg, flgrd, rw_cnt, rd_submit, rd_pending, rd_submit_cnt, rdque, hwr_vars>>
    /\ ReadFrame

BugReadPutNoSubmit(r) ==
    /\ RStep(r, "put", "dec")
    /\ rd_free' = Append(rd_free, rbuf[r]) /\ rbuf' = [rbuf EXCEPT ![r] = 0]
    /\ UNCHANGED <<flreg, flgrd, rw_cnt, rd_submit, rd_pending, rd_submit_cnt, rdque, hwr_vars>>
    /\ ReadFrame

(* copy_to_user done: the buffer goes to the tail of rd_free.              *)
ReadPut(r) ==
    /\ RStep(r, "put", "submit")
    /\ rd_free' = Append(rd_free, rbuf[r]) /\ rbuf' = [rbuf EXCEPT ![r] = 0]
    /\ UNCHANGED <<flreg, flgrd, rw_cnt, rd_submit, rd_pending, rd_submit_cnt, rdque, hwr_vars>>
    /\ ReadFrame

BugReadFaultLoses(r) ==
    /\ UserFaults
    /\ RStep(r, "put", "dec")
    /\ rbuf' = [rbuf EXCEPT ![r] = 0]
    /\ UNCHANGED <<flreg, flgrd, rw_cnt, rd_vars, rdque, hwr_vars>> /\ ReadFrame

(* copy_to_user failed: back to the head of rd_pending, nobody woken.      *)
ReadFault(r) ==
    /\ UserFaults
    /\ RStep(r, "put", "dec")
    /\ rd_pending' = <<rbuf[r]>> \o rd_pending /\ rbuf' = [rbuf EXCEPT ![r] = 0]
    /\ UNCHANGED <<flreg, flgrd, rw_cnt, rd_free, rd_submit, rd_submit_cnt, rdque, hwr_vars>>
    /\ ReadFrame

ReadSubmit(r) ==
    /\ RStep(r, "submit", "dec")
    /\ TrySubmitRead(rd_free, rd_submit, rd_submit_cnt)
    /\ UNCHANGED <<rbuf, flreg, flgrd, rw_cnt, rd_pending, rdque, hw_rd_done>> /\ ReadFrame

(* prepare_to_wait, then the unlocked second look at the list.             *)
ReadPrepare(r) ==
    /\ RStep(r, "prep", "look")
    /\ rdque' = rdque \cup {r}
    /\ UNCHANGED <<rbuf, flreg, flgrd, rw_cnt, rd_vars, hwr_vars>> /\ ReadFrame

BugReadLookNoRecheck(r) ==
    /\ RStep(r, "look", "sleep")
    /\ UNCHANGED <<rbuf, flreg, flgrd, rw_cnt, rd_vars, rdque, hwr_vars>> /\ ReadFrame

ReadLook(r) ==
    /\ \/ rd_pending = <<>> /\ RStep(r, "look", "sleep")
       \/ rd_pending # <<>> /\ RStep(r, "look", "woken")
    /\ UNCHANGED <<rbuf, flreg, flgrd, rw_cnt, rd_vars, rdque, hwr_vars>> /\ ReadFrame

(* schedule() returns once a wake-up has unlinked the thread ...           *)
ReadAwake(r) ==
    /\ r \notin rdque /\ RStep(r, "sleep", "woken")
    /\ UNCHANGED <<rbuf, flreg, flgrd, rw_cnt, rd_vars, rdque, hwr_vars>> /\ ReadFrame

BugReadSignalNoDec(r) ==
    /\ RStep(r, "sleep", "idle") \/ RStep(r, "woken", "idle")
    /\ rdque' = rdque \ {r}
    /\ UNCHANGED <<rbuf, flreg, flgrd, rw_cnt, rd_vars, hwr_vars>> /\ ReadFrame

(* ... or because of a signal; the call then ends in finish_wait and       *)
(* ERESTARTSYS.                                                            *)
ReadSignal(r) ==
    /\ RStep(r, "sleep", "dec") \/ RStep(r, "woken", "dec")
    /\ rdque' = rdque \ {r}
    /\ UNCHANGED <<rbuf, flreg, flgrd, rw_cnt, rd_vars, hwr_vars>> /\ ReadFrame

ReadFinishWait(r) ==
    /\ RStep(r, "woken", "relock")
    /\ rdque' = rdque \ {r}
    /\ UNCHANGED <<rbuf, flreg, flgrd, rw_cnt, rd_vars, hwr_vars>> /\ ReadFrame

(* Lock again: EIO if DMA has been stopped, else try_read in the same      *)
(* critical section.                                                       *)
ReadRelock(r) ==
    \/ /\ dma_enable = 0 /\ RStep(r, "relock", "dec")
       /\ UNCHANGED <<rbuf, flreg, flgrd, rw_cnt, rd_vars, rdque, hwr_vars>> /\ ReadFrame
    \/ dma_enable = 1 /\ TryRead(r, "relock")

ReadDec(r) ==
    /\ RStep(r, "dec", "idle")
    /\ rw_cnt' = rw_cnt - 1
    /\ UNCHANGED <<rbuf, flreg, flgrd, rd_vars, rdque, hwr_vars>> /\ ReadFrame

-----------------------------------------------------------------------------
(* pdma_write.                                                             *)

WStep(w, from, to) == wpc[w] = from /\ wpc' = [wpc EXCEPT ![w] = to]

WriteFrame == UNCHANGED <<dma_enable, rd_vars, rdque, rdr_vars, ctl_vars, irq_vars, hwr_vars>>

WriteInc(w) ==
    /\ WStep(w, "idle", "chk")
    /\ rw_cnt' = rw_cnt + 1
    /\ UNCHANGED <<wbuf, wt_vars, wtque, hww_vars>> /\ WriteFrame

WriteCheck(w) ==
    /\ \/ dma_enable = 1 /\ WStep(w, "chk", "try")
       \/ WStep(w, "chk", "dec")
    /\ UNCHANGED <<wbuf, rw_cnt, wt_vars, wtque, hww_vars>> /\ WriteFrame

(* try_write under the lock: take a free buffer, or leave, or sleep.       *)
TryWrite(w, from) ==
    /\ \/ /\ wt_free # <<>>
          /\ WStep(w, from, "copy")
          /\ wbuf' = [wbuf EXCEPT ![w] = Head(wt_free)]
          /\ wt_free' = Tail(wt_free)
       \/ /\ wt_free = <<>>
          /\ WStep(w, from, "prep") \/ WStep(w, from, "dec")
          /\ UNCHANGED <<wbuf, wt_free>>
    /\ UNCHANGED <<rw_cnt, wt_submit, wt_pending, wt_submit_cnt, wtque, hww_vars>> /\ WriteFrame

WriteTry(w) == TryWrite(w, "try")

(* copy_from_user failed: back to the head of wt_free, nobody woken.       *)
WriteFault(w) ==
    /\ UserFaults
    /\ WStep(w, "copy", "dec")
    /\ wt_free' = <<wbuf[w]>> \o wt_free /\ wbuf' = [wbuf EXCEPT ![w] = 0]
    /\ UNCHANGED <<rw_cnt, wt_submit, wt_pending, wt_submit_cnt, wtque, hww_vars>> /\ WriteFrame

(* The lock taken again after the copy: with DMA stopped the call fails    *)
(* and the buffer is on no list; else it is handed to the card, or queued  *)
(* behind a full FIFO.                                                     *)
WriteStopped(w) ==
    /\ dma_enable = 0
    /\ wbuf' = [wbuf EXCEPT ![w] = 0]
    /\ UNCHANGED <<wt_submit, wt_pending, wt_submit_cnt, hww_vars>>

BugWriteQueueOffByOne(w) ==
    /\ wbuf' = [wbuf EXCEPT ![w] = 0]
    /\ IF wt_submit_cnt + 1 < WtDepth
       THEN /\ wt_submit' = Append(wt_submit, wbuf[w])
            /\ wt_submit_cnt' = wt_submit_cnt + 1
            /\ hw_wt' = Append(hw_wt, wbuf[w])
            /\ UNCHANGED <<wt_pending, hw_wt_done>>
       ELSE /\ wt_pending' = Append(wt_pending, wbuf[w])
            /\ UNCHANGED <<wt_submit, wt_submit_cnt, hww_vars>>

WriteQueue(w) ==
    /\ wbuf' = [wbuf EXCEPT ![w] = 0]
    /\ IF wt_submit_cnt < WtDepth
       THEN /\ wt_submit' = Append(wt_submit, wbuf[w])
            /\ wt_submit_cnt' = wt_submit_cnt + 1
            /\ hw_wt' = Append(hw_wt, wbuf[w])
            /\ UNCHANGED <<wt_pending, hw_wt_done>>
       ELSE /\ wt_pending' = Append(wt_pending, wbuf[w])
            /\ UNCHANGED <<wt_submit, wt_submit_cnt, hww_vars>>

BugWriteCommitUnchecked(w) ==
    /\ WStep(w, "copy", "dec") /\ WriteQueue(w)
    /\ UNCHANGED <<rw_cnt, wt_free, wtque>> /\ WriteFrame

WriteCommit(w) ==
    /\ WStep(w, "copy", "dec")
    /\ WriteStopped(w) \/ (dma_enable = 1 /\ WriteQueue(w))
    /\ UNCHANGED <<rw_cnt, wt_free, wtque>> /\ WriteFrame

WritePrepare(w) ==
    /\ WStep(w, "prep", "look")
    /\ wtque' = wtque \cup {w}
    /\ UNCHANGED <<wbuf, rw_cnt, wt_vars, hww_vars>> /\ WriteFrame

WriteLook(w) ==
    /\ \/ wt_free = <<>> /\ WStep(w, "look", "sleep")
       \/ wt_free # <<>> /\ WStep(w, "look", "woken")
    /\ UNCHANGED <<wbuf, rw_cnt, wt_vars, wtque, hww_vars>> /\ WriteFrame

WriteAwake(w) ==
    /\ w \notin wtque /\ WStep(w, "sleep", "woken")
    /\ UNCHANGED <<wbuf, rw_cnt, wt_vars, wtque, hww_vars>> /\ WriteFrame

WriteSignal(w) ==
    /\ WStep(w, "sleep", "dec") \/ WStep(w, "woken", "dec")
    /\ wtque' = wtque \ {w}
    /\ UNCHANGED <<wbuf, rw_cnt, wt_vars, hww_vars>> /\ WriteFrame

WriteFinishWait(w) ==
    /\ WStep(w, "woken", "relock")
    /\ wtque' = wtque \ {w}
    /\ UNCHANGED <<wbuf, rw_cnt, wt_vars, hww_vars>> /\ WriteFrame

WriteRelock(w) ==
    \/ /\ dma_enable = 0 /\ WStep(w, "relock", "dec")
       /\ UNCHANGED <<wbuf, rw_cnt, wt_vars, wtque, hww_vars>> /\ WriteFrame
    \/ dma_enable = 1 /\ TryWrite(w, "relock")

WriteDec(w) ==
    /\ WStep(w, "dec", "idle")
    /\ rw_cnt' = rw_cnt - 1
    /\ UNCHANGED <<wbuf, wt_vars, wtque, hww_vars>> /\ WriteFrame

-----------------------------------------------------------------------------
(* The START and STOP ioctls, pdma_dma_start and pdma_dma_stop.            *)

CStep(c, from, to) == cpc[c] = from /\ cpc' = [cpc EXCEPT ![c] = to]

CtlFrame == UNCHANGED <<rw_cnt, rdr_vars, wtr_vars, irq_wake, msi>>

Ioctl(c, op) ==
    /\ CStep(c, "idle", IF op = "start" THEN "start" ELSE "disable")
    /\ cmd' = [cmd EXCEPT ![c] = op]
    /\ clean' = (clean /\ \A d \in Ctls : cpc[d] = "idle")
    /\ UNCHANGED <<timeouts, dma_enable, rd_vars, wt_vars, rdque, wtque, hwr_vars, hww_vars, oops>>
    /\ CtlFrame

BugStartOnRunning(c) ==
    /\ CStep(c, "start", "reset2")
    /\ UNCHANGED <<cmd, timeouts, clean, dma_enable, rd_vars, wt_vars, rdque, wtque, hwr_vars,
                   hww_vars, oops>>
    /\ CtlFrame

(* START stops a running DMA first; the look at dma_enable is unlocked.    *)
StartCheck(c) ==
    /\ CStep(c, "start", IF dma_enable = 1 THEN "disable" ELSE "reset2")
    /\ UNCHANGED <<cmd, timeouts, clean, dma_enable, rd_vars, wt_vars, rdque, wtque, hwr_vars,
                   hww_vars, oops>>
    /\ CtlFrame

StopDisable(c) ==
    /\ CStep(c, "disable", "reset")
    /\ dma_enable' = 0
    /\ UNCHANGED <<cmd, timeouts, clean, rd_vars, wt_vars, rdque, wtque, hwr_vars, hww_vars, oops>>
    /\ CtlFrame

(* Where a STOP goes when pdma_dma_stop returns, whatever it returns:      *)
(* START ignores the result.                                               *)
AfterStop(c) == IF cmd[c] = "start" THEN "reset2" ELSE "idle"

InTime == UNCHANGED <<timeouts, clean>>
TimedOut == timeouts < MaxTimeouts /\ timeouts' = timeouts + 1 /\ clean' = FALSE

(* pdma_pcie_dma_reset: the card pauses and forgets its descriptors, or    *)
(* does not answer in time and nothing is known to be forgotten.           *)
ResetDone == InTime /\ hw_rd' = <<>> /\ hw_rd_done' = <<>> /\ hw_wt' = <<>> /\ hw_wt_done' = <<>>
ResetFailed == TimedOut /\ UNCHANGED <<hwr_vars, hww_vars>>

StopReset(c) ==
    /\ \/ CStep(c, "reset", "wake_rd") /\ ResetDone
       \/ CStep(c, "reset", AfterStop(c)) /\ ResetFailed
    /\ UNCHANGED <<cmd, dma_enable, rd_vars, wt_vars, rdque, wtque, oops>> /\ CtlFrame

StopWakeRd(c) ==
    /\ CStep(c, "wake_rd", "wake_wt") /\ rdque' = {}
    /\ UNCHANGED <<cmd, timeouts, clean, dma_enable, rd_vars, wt_vars, wtque, hwr_vars, hww_vars,
                   oops>>
    /\ CtlFrame

StopWakeWt(c) ==
    /\ CStep(c, "wake_wt", "poll") /\ wtque' = {}
    /\ UNCHANGED <<cmd, timeouts, clean, dma_enable, rd_vars, wt_vars, rdque, hwr_vars, hww_vars,
                   oops>>
    /\ CtlFrame

BugStopPollNoWait(c) ==
    /\ CStep(c, "poll", AfterStop(c)) /\ InTime
    /\ UNCHANGED <<cmd, dma_enable, rd_vars, wt_vars, rdque, wtque, hwr_vars, hww_vars, oops>>
    /\ CtlFrame

BugStopPollWakesOnce(c) ==
    /\ \/ rw_cnt = 0 /\ CStep(c, "poll", AfterStop(c)) /\ InTime
       \/ rw_cnt # 0 /\ CStep(c, "poll", "poll") /\ InTime
    /\ UNCHANGED <<cmd, dma_enable, rd_vars, wt_vars, rdque, wtque, hwr_vars, hww_vars, oops>>
    /\ CtlFrame

(* rw_cnt read: drained, or another microsecond, or given up.              *)
StopPoll(c) ==
    /\ \/ rw_cnt = 0 /\ CStep(c, "poll", AfterStop(c)) /\ InTime
       \/ rw_cnt # 0 /\ CStep(c, "poll", "wake_rd") /\ InTime
       \/ rw_cnt # 0 /\ CStep(c, "poll", AfterStop(c)) /\ TimedOut
    /\ UNCHANGED <<cmd, dma_enable, rd_vars, wt_vars, rdque, wtque, hwr_vars, hww_vars, oops>>
    /\ CtlFrame

StartReset(c) ==
    /\ CStep(c, "reset2", "init")
    /\ ResetDone \/ ResetFailed
    /\ UNCHANGED <<cmd, dma_enable, rd_vars, wt_vars, rdque, wtque, oops>> /\ CtlFrame

(* pdma_dev_list_init and dma_enable = 1, one critical section.  A buffer  *)
(* in the hands of a call is linked into the free list under it; nothing   *)
(* is specified of the driver after that.                                  *)
StartListInit(c) ==
    /\ CStep(c, "init", "submit")
    /\ rd_free' = Pool(RdBufNr) /\ rd_submit' = <<>> /\ rd_pending' = <<>> /\ rd_submit_cnt' = 0
    /\ wt_free' = Pool(WtBufNr) /\ wt_submit' = <<>> /\ wt_pending' = <<>> /\ wt_submit_cnt' = 0
    /\ dma_enable' = 1
    /\ oops' = ((\E r \in Readers : rbuf[r] # 0) \/ (\E w \in Writers : wbuf[w] # 0))
    /\ UNCHANGED <<cmd, timeouts, clean, rdque, wtque, hwr_vars, hww_vars>> /\ CtlFrame

StartSubmit(c) ==
    /\ CStep(c, "submit", "idle")
    /\ TrySubmitRead(rd_free, rd_submit, rd_submit_cnt)
    /\ UNCHANGED <<cmd, timeouts, clean, dma_enable, rd_pending, wt_vars, rdque, wtque, hw_rd_done,
                   hww_vars, oops>>
    /\ CtlFrame

-----------------------------------------------------------------------------
(* pdma_intr_notify, from one MSI vector: the handler does not nest.       *)

IntrFrame == UNCHANGED <<dma_enable, rw_cnt, rdr_vars, wtr_vars, ctl_vars>>

(* DMA stopped: out without reading the card's counters.                   *)
IntrStopped ==
    /\ msi /\ irq_wake = {} /\ dma_enable = 0
    /\ msi' = FALSE
    /\ UNCHANGED <<irq_wake, oops, rd_vars, wt_vars, rdque, wtque, hwr_vars, hww_vars>> /\ IntrFrame

BugNotifyReadCount ==
    LET n == Len(hw_rd_done)
    IN  IF n = 0 THEN UNCHANGED <<rd_vars, hw_rd>>
        ELSE /\ rd_pending' = rd_pending \o Take(rd_submit, n)
             /\ TrySubmitRead(rd_free, Drop(rd_submit, n), rd_submit_cnt)

(* rd_cnt heads of rd_submit become pending, then the FIFO is refilled.    *)
NotifyRead ==
    LET n == Len(hw_rd_done)
    IN  IF n = 0 THEN UNCHANGED <<rd_vars, hw_rd>>
        ELSE /\ rd_pending' = rd_pending \o Take(rd_submit, n)
             /\ TrySubmitRead(rd_free, Drop(rd_submit, n), rd_submit_cnt - n)

BugNotifyWriteNoRefill ==
    LET n == Len(hw_wt_done)
    IN  /\ wt_free' = wt_free \o Take(wt_submit, n)
        /\ wt_submit' = Drop(wt_submit, n) /\ wt_submit_cnt' = wt_submit_cnt - n
        /\ UNCHANGED <<wt_pending, hw_wt>>

(* wt_cnt heads of wt_submit become free, then pending writes follow.      *)
NotifyWrite ==
    LET n == Len(hw_wt_done)
    IN  IF n = 0 THEN UNCHANGED <<wt_vars, hw_wt>>
        ELSE /\ wt_free' = wt_free \o Take(wt_submit, n)
             /\ TrySubmitWrite(wt_pending, Drop(wt_submit, n), wt_submit_cnt - n)

CountsBacked == Len(hw_rd_done) <= Len(rd_submit) /\ Len(hw_wt_done) <= Len(wt_submit)

BugWakesOwed == IF hw_rd_done # <<>> THEN {"rd"} ELSE {}

(* The wake-ups to do after the unlock.                                    *)
WakesOwed == (IF hw_rd_done # <<>> THEN {"rd"} ELSE {}) \cup (IF hw_wt_done # <<>> THEN {"wt"} ELSE {})

(* The counters are read and so cleared; both sides are served under one   *)
(* hold of the lock, and the wake-ups wait until after the unlock.         *)
IntrNotify ==
    /\ msi /\ irq_wake = {} /\ dma_enable = 1 /\ CountsBacked
    /\ NotifyRead /\ NotifyWrite
    /\ hw_rd_done' = <<>> /\ hw_wt_done' = <<>> /\ msi' = FALSE
    /\ irq_wake' = WakesOwed
    /\ UNCHANGED <<oops, rdque, wtque>> /\ IntrFrame

(* More completions than submitted entries: the loop takes the list head   *)
(* itself for an entry.  Nothing is specified of the driver after that.    *)
IntrOverrun ==
    /\ msi /\ irq_wake = {} /\ dma_enable = 1 /\ ~CountsBacked
    /\ oops' = TRUE
    /\ UNCHANGED <<msi, irq_wake, rd_vars, wt_vars, rdque, wtque, hwr_vars, hww_vars>> /\ IntrFrame

IntrWakeRd ==
    /\ "rd" \in irq_wake
    /\ rdque' = {} /\ irq_wake' = irq_wake \ {"rd"}
    /\ UNCHANGED <<msi, oops, rd_vars, wt_vars, wtque, hwr_vars, hww_vars>> /\ IntrFrame

IntrWakeWt ==
    /\ irq_wake = {"wt"}
    /\ wtque' = {} /\ irq_wake' = {}
    /\ UNCHANGED <<msi, oops, rd_vars, wt_vars, rdque, hwr_vars, hww_vars>> /\ IntrFrame

-----------------------------------------------------------------------------
(* The card: descriptors complete in the order of submission, each         *)
(* completion counts in the RW_CNT register and raises the MSI.            *)

HwFrame == UNCHANGED <<dma_enable, rw_cnt, rd_vars, wt_vars, rdque, wtque, rdr_vars, wtr_vars,
                       ctl_vars, irq_wake, oops>>

HwReadDone ==
    /\ hw_rd # <<>>
    /\ hw_rd' = Tail(hw_rd) /\ hw_rd_done' = Append(hw_rd_done, Head(hw_rd))
    /\ msi' = TRUE
    /\ UNCHANGED hww_vars /\ HwFrame

HwWriteDone ==
    /\ hw_wt # <<>>
    /\ hw_wt' = Tail(hw_wt) /\ hw_wt_done' = Append(hw_wt_done, Head(hw_wt))
    /\ msi' = TRUE
    /\ UNCHANGED hwr_vars /\ HwFrame

-----------------------------------------------------------------------------
(* The steps a thread takes once its call has begun, without those that    *)
(* need a signal or a bad user address: the kernel's scheduler runs them.  *)
ReadRun(r) ==
    \/ ReadSecond(r) \/ ReadSecondReturn(r) \/ ReadInc(r) \/ ReadCheck(r) \/ ReadTry(r)
    \/ ReadCopy(r) \/ ReadCopyInc(r) \/ ReadPut(r) \/ ReadSubmit(r) \/ ReadPrepare(r)
    \/ ReadLook(r) \/ ReadAwake(r) \/ ReadFinishWait(r) \/ ReadRelock(r) \/ ReadDec(r)

WriteRun(w) ==
    \/ WriteCheck(w) \/ WriteTry(w) \/ WriteCommit(w) \/ WritePrepare(w) \/ WriteLook(w)
    \/ WriteAwake(w) \/ WriteFinishWait(w) \/ WriteRelock(w) \/ WriteDec(w)

CtlRun(c) ==
    \/ StartCheck(c) \/ StopDisable(c) \/ StopReset(c) \/ StopWakeRd(c) \/ StopWakeWt(c)
    \/ StopPoll(c) \/ StartReset(c) \/ StartListInit(c) \/ StartSubmit(c)

IntrRun == IntrStopped \/ IntrNotify \/ IntrOverrun \/ IntrWakeRd \/ IntrWakeWt

Next ==
    /\ ~oops
    /\ \/ \E r \in Readers : ReadCall(r) \/ ReadSignal(r) \/ ReadFault(r) \/ ReadRun(r)
       \/ \E w \in Writers : WriteInc(w) \/ WriteSignal(w) \/ WriteFault(w) \/ WriteRun(w)
       \/ \E c \in Ctls : CtlRun(c) \/ \E op \in {"start", "stop"} : Ioctl(c, op)
       \/ IntrRun \/ HwReadDone \/ HwWriteDone

Spec == Init /\ [][Next]_vars

(* Threads in the kernel are scheduled, a pending interrupt is delivered,  *)
(* and the card consumes the writes it is given.  Nothing makes data       *)
(* arrive, and there is no fairness of new calls, signals, faults or       *)
(* timeouts.                                                               *)
Fairness ==
    /\ \A r \in Readers : WF_vars(~oops /\ ReadRun(r))
    /\ \A w \in Writers : WF_vars(~oops /\ WriteRun(w))
    /\ \A c \in Ctls : WF_vars(~oops /\ CtlRun(c))
    /\ WF_vars(~oops /\ IntrRun) /\ WF_vars(~oops /\ HwWriteDone)

FairSpec == Spec /\ Fairness

-----------------------------------------------------------------------------
(* Types.                                                                  *)

ReadPC == {"idle", "second", "second_inc", "inc", "chk", "try", "copy", "copy_inc", "put",
           "submit", "prep", "look", "sleep", "woken", "relock", "dec"}
WritePC == {"idle", "chk", "try", "copy", "prep", "look", "sleep", "woken", "relock", "dec"}
CtlPC == {"idle", "start", "disable", "reset", "wake_rd", "wake_wt", "poll", "reset2", "init",
          "submit"}

(* Every variable keeps its type through every step of pdma-dev.c.         *)
TypeOK ==
    /\ dma_enable \in {0, 1} /\ rw_cnt \in Int
    /\ rd_free \in Seq(RdBufs) /\ rd_submit \in Seq(RdBufs) /\ rd_pending \in Seq(RdBufs)
    /\ wt_free \in Seq(WtBufs) /\ wt_submit \in Seq(WtBufs) /\ wt_pending \in Seq(WtBufs)
    /\ rd_submit_cnt \in Int /\ wt_submit_cnt \in Int
    /\ rdque \in SUBSET Readers /\ wtque \in SUBSET Writers
    /\ flgrd \in {0, 1} /\ flreg \in [Readers -> {0, 1}]
    /\ rpc \in [Readers -> ReadPC] /\ wpc \in [Writers -> WritePC]
    /\ rbuf \in [Readers -> {0} \cup RdBufs] /\ wbuf \in [Writers -> {0} \cup WtBufs]
    /\ \A r \in Readers : rpc[r] \in {"copy", "copy_inc", "put"} <=> rbuf[r] # 0
    /\ \A w \in Writers : wpc[w] = "copy" <=> wbuf[w] # 0
    /\ cpc \in [Ctls -> CtlPC] /\ cmd \in [Ctls -> {"none", "start", "stop"}]
    /\ irq_wake \in SUBSET {"rd", "wt"} /\ msi \in BOOLEAN /\ oops \in BOOLEAN
    /\ hw_rd \in Seq(RdBufs) /\ hw_rd_done \in Seq(RdBufs)
    /\ hw_wt \in Seq(WtBufs) /\ hw_wt_done \in Seq(WtBufs)
    /\ timeouts \in Nat /\ clean \in BOOLEAN

-----------------------------------------------------------------------------
(* The handshake between calls and STOP.                                   *)

ReadersIn == {r \in Readers : rpc[r] \notin {"idle", "second", "second_inc", "inc"}}
WritersIn == {w \in Writers : wpc[w] # "idle"}

(* rw_cnt counts exactly the calls between atomic_inc and atomic_dec       *)
(* (pdma-dev.c:202-296, 313-413): zero means that nobody is left inside.   *)
CallsCounted == rw_cnt = Cardinality(ReadersIn) + Cardinality(WritersIn)

(* A call that cannot touch the lists any more, or not before it has read  *)
(* dma_enable: before the check, or on its way out.                        *)
Harmless(pc) == pc \in {"idle", "second", "second_inc", "inc", "chk", "dec"}
AllHarmless == (\A r \in Readers : Harmless(rpc[r])) /\ (\A w \in Writers : Harmless(wpc[w]))

(* pdma_dev_list_init relinks every buffer (pdma-dev.c:904-936): when it   *)
(* is about to, no read or write may be past its check of dma_enable, let  *)
(* alone hold a buffer or sleep.  Only the order inc-then-check of the     *)
(* calls against disable-then-poll of STOP gives that; an ioctl that was   *)
(* given up (its result is ignored at 456 and 459), or two ioctls at once, *)
(* take it away, hence "clean".                                            *)
RestartQuiescent == clean => \A c \in Ctls : cpc[c] = "init" => AllHarmless

(* No list is ever corrupted: neither by relinking a buffer that a call    *)
(* holds, nor by an interrupt that moves more entries than are submitted   *)
(* (745-749, 757-761 test no list for emptiness).                          *)
NoCorruption == clean => ~oops

-----------------------------------------------------------------------------
(* The driver's lists against the card's FIFOs.                            *)

ReadMirror == rd_submit = hw_rd_done \o hw_rd /\ rd_submit_cnt = Len(rd_submit)
WriteMirror == wt_submit = hw_wt_done \o hw_wt /\ wt_submit_cnt = Len(wt_submit)
CardEmpty == hw_rd = <<>> /\ hw_rd_done = <<>> /\ hw_wt = <<>> /\ hw_wt_done = <<>>

(* While DMA runs, the submit lists hold, in order, what the card has      *)
(* completed but not reported and then what it still has queued: this is   *)
(* what lets the interrupt (pdma-dev.c:743-766) move list heads by a count *)
(* alone, without looking at which buffer completed.                       *)
CardMirrorsLists ==
    (clean /\ dma_enable = 1) => ReadMirror /\ WriteMirror

(* Once STOP's reset is done, the card holds no descriptor until the next  *)
(* START: a writer that was copying when DMA stopped must not submit       *)
(* afterwards (the second check, pdma-dev.c:366-371), nor the interrupt or *)
(* a reader; the pool is freed on that ground (pdma_dev_exit, 1038-1041).  *)
StoppedCardIdle ==
    (clean /\ dma_enable = 0 /\ \A c \in Ctls : cpc[c] # "reset") => CardEmpty

-----------------------------------------------------------------------------
(* The strengthening of RestartQuiescent that the steps preserve: at most  *)
(* one ioctl in progress, DMA off from STOP's disable to START's list_init *)
(* and, with DMA off and no STOP still draining, no call past its check.   *)

Draining == {"reset", "wake_rd", "wake_wt", "poll"}
OneIoctl == \A c, d \in Ctls : (cpc[c] # "idle" /\ cpc[d] # "idle") => c = d
OffWhileStopping == \A c \in Ctls : cpc[c] \in Draining \cup {"reset2", "init"} => dma_enable = 0
DrainedWhenOff == (dma_enable = 0 /\ \A c \in Ctls : cpc[c] \notin Draining) => AllHarmless
StopInv == clean => OneIoctl /\ OffWhileStopping /\ DrainedWhenOff

-----------------------------------------------------------------------------
(* The lists themselves.                                                   *)

Hands(f, T) == {f[t] : t \in T} \ {0}
Holding(f, T) == Cardinality({t \in T : f[t] # 0})

(* While DMA runs every buffer of a pool is in exactly one place: on one   *)
(* list, once, or in the hands of one call.                                *)
PoolConserved ==
    (clean /\ dma_enable = 1) =>
        /\ Range(rd_free \o rd_submit \o rd_pending) \cup Hands(rbuf, Readers) = RdBufs
        /\ Len(rd_free) + Len(rd_submit) + Len(rd_pending) + Holding(rbuf, Readers) = RdBufNr
        /\ Range(wt_free \o wt_submit \o wt_pending) \cup Hands(wbuf, Writers) = WtBufs
        /\ Len(wt_free) + Len(wt_submit) + Len(wt_pending) + Holding(wbuf, Writers) = WtBufNr

(* A free read buffer lies idle beside a FIFO with room only while someone *)
(* is on the way to submit it: the reader that returned it (258-293) or    *)
(* START (466).  Otherwise the card would run out of addresses.            *)
ReadFifoFed ==
    (dma_enable = 1 /\ rd_free # <<>> /\ rd_submit_cnt < RdDepth)
        => \/ \E r \in Readers : rpc[r] = "submit"
           \/ \E c \in Ctls : cpc[c] = "submit"

(* Writes queue in wt_pending only behind a full FIFO, so the direct       *)
(* submit of pdma_write (372) cannot overtake an older write.              *)
PendingMeansFull ==
    (dma_enable = 1 /\ wt_pending # <<>>) => wt_submit_cnt = WtDepth

(* Its strengthening: a FIFO is never given more than it holds.            *)
FifoBound == dma_enable = 1 => wt_submit_cnt <= WtDepth
PendingInv == PendingMeansFull /\ FifoBound

(* Accepted writes reach the card in the order of acceptance: the queue    *)
(* wt_submit followed by wt_pending grows at its end (372-380), loses from *)
(* its front what the card has completed (756-766), moves from one list to *)
(* the other without overtaking, and is emptied by START alone (462).      *)
WriteQueueFifo ==
    [][ clean =>
        LET old == wt_submit \o wt_pending
            new == wt_submit' \o wt_pending'
        IN  \/ Len(new) >= Len(old) /\ Take(new, Len(old)) = old
            \/ new = Drop(old, Len(hw_wt_done))
            \/ new = <<>> /\ dma_enable = 0 /\ dma_enable' = 1 ]_vars

-----------------------------------------------------------------------------
(* Sleeping and waking.                                                    *)

(* No thread sleeps through data or space: asleep and still linked in its  *)
(* queue, with the list it waits for not empty, only while the interrupt   *)
(* is between its unlock and its wake-up.  A faulting call that gives its  *)
(* buffer back wakes nobody (249-256, 345-352), so this is promised        *)
(* without user faults only.                                               *)
NoLostWakeup ==
    (clean /\ ~UserFaults) =>
        /\ \A r \in rdque : (rpc[r] = "sleep" /\ rd_pending # <<>>) => "rd" \in irq_wake
        /\ \A w \in wtque : (wpc[w] = "sleep" /\ wt_free # <<>>) => "wt" \in irq_wake

(* Once DMA is stopped, every read in progress returns, or DMA starts      *)
(* again: STOP wakes both queues over and over until the last call has     *)
(* left (434-446), so a reader that was about to sleep is not missed.      *)
StopDrainsReaders ==
    \A r \in Readers : (dma_enable = 0 /\ r \in ReadersIn) ~> (r \notin ReadersIn \/ dma_enable = 1)

(* The same for the writes in progress.                                    *)
StopDrainsWriters ==
    \A w \in Writers : (dma_enable = 0 /\ w \in WritersIn) ~> (w \notin WritersIn \/ dma_enable = 1)

(* A reader that sleeps while a filled buffer waits in rd_pending is       *)
(* woken (pdma_intr_notify, 770-772, against pdma_read, 271-275).          *)
SleepingReaderWakes ==
    \A r \in Readers : (rpc[r] = "sleep" /\ rd_pending # <<>>) ~> rpc[r] # "sleep"

(* No writer sleeps for ever: the buffers it waits for are with the card,  *)
(* behind its FIFO or with another call, and each of these gives them back *)
(* and wakes it (743-775, 389-394).                                        *)
SleepingWriterWakes == \A w \in Writers : wpc[w] = "sleep" ~> wpc[w] # "sleep"
=============================================================================
