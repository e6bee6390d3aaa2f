# A TLA+ model of the PDMA driver and its Xen backends

The repository holds a Linux character driver for a PCIe DMA card
(`src/pdma-v1.3-src`), two generations of a Xen split-driver backend that lends
that card to guests (`src/ire/Dom0`, `src/ire/Net_Dom0`), and programs that test
them. This directory models the parts whose correctness rests on interleavings,
checks the models with TLC and proves the most important facts with TLAPS.

## 1. The system

| component | state it keeps | operations | talks to |
|---|---|---|---|
| PDMA buffer engine, `pdma-dev.c` | six lists of buffers, two submit counts, `dma_enable`, `rw_cnt`, two wait queues | `read`, `write`, ioctls START and STOP, `pdma_intr_notify` | the card through `pdma-pcie.c`; user threads; the MSI |
| read mirror, `pdma-dev.c` | globals `bbuf`, `flgrd` | every second `read` is served from a copy | the engine |
| card access, `pdma-pcie.c` | register window | submit a descriptor, read the completion counts, reset, user registers | the card |
| PCIe error recovery, both files | none of its own | `error_detected`, `slot_reset` | re-initialises the engine |
| probe and removal, both files | resources acquired | `probe`, `setup`, `remove` | PCI core |
| statistics (`PDMA_DEBUG`) | shadow counters | PDMA_IOC_STAT | the engine |
| Xen queue, `xen_queue.c` | links of an intrusive ring | init, push, pop, front, empty, length | Net_Dom0 |
| Xen backend of one host, `ire/Dom0/data.c` | request ring, free requests, owner of the device and wait flag | map, open, write, read, ioctl, close requests | frontends (ring, event channel), the engine |
| Xen backend over the network, `ire/Net_Dom0/data.c` | four queues, one remote buffer, completions | native and remote write requests | frontends, the engine, a UDP peer |
| Xenbus handshake, `dom0.c` | device state, mapped ring, irq | `probe`, `frontend_changed`, `remove` | xenstore |
| tools and test programs | none across calls | argument parsing, loops of reads and writes, an encoder, an interleaver | the device file |

What is hard, by component:

* **Engine.** Calls, ioctls and the interrupt share lists under one spin lock,
  but the check of `dma_enable` on entry, the copies to and from user space, the
  second look before sleeping, the wake-ups and STOP's polls are outside it. A
  call is protected from START's relinking of all lists only by the order of
  `atomic_inc` and the check on its side, and of "disable" and "poll until zero"
  on the other. The interrupt trusts the card's counts and tests no list. STOP
  may give up, and START ignores that it did. *Correct when*: the count of calls
  is exact; START relinks only when nobody is inside; no list is corrupted; the
  submit lists mirror the card's FIFOs; a stopped card has no descriptor; no
  buffer is lost or duplicated while DMA runs; accepted writes reach the card in
  order; the read FIFO is kept fed; no thread sleeps through data, space or STOP.
* **Probe, removal and error recovery.** Two ladders of acquisitions, each with a
  label per failure; recovery gives back what setup got and gets it again;
  `slot_reset` sets `rw_cnt` to zero and reinitialises wait queues under whatever
  calls are still in flight, and both recovery and removal go on a second after
  they disabled DMA. *Correct when*: nothing leaks or is released twice, a bound
  card has all its resources, and a call past its check of `dma_enable` keeps its
  device for as long as STOP's drain did its work.
* **Backend of one host.** One worker per guest sleeps on a flag that its event
  handler sets; all workers share a pool of pending requests, one device file and
  its count of opens. The device is passed between guests by an owner variable, a
  flag and a mutex that is dropped before waiting and unlocked by a thread that
  does not hold it; failed requests get no response. *Correct when*: no request is
  left behind by a worker at rest, no pending request is lost, responses come in
  order and once, one guest at a time writes the device.
* **Backend over the network.** Interrupt handlers answer what they can and queue
  the rest for one thread. Tasks refer to ring slots, a shared response and a
  single remote buffer; a handler that finds no pending request, or a thread being
  stopped, gives up for good; a failed receive queues a task all the same;
  one queue has no consumer; the module's removal closes the device under the
  threads. *Correct when*: each request is answered once, under its own id; each
  datagram's data reaches the card before the next one's overwrites it.
* **Xen queue.** *Correct when*: it implements a FIFO.

`PROJECT.json` lists each hazard at its line with the properties that cover it,
or the reason why none does.

## 2. Modules

| module | models |
|---|---|
| `PdmaDev.tla` | the buffer engine: `pdma-dev.c` 103-467, 591-712 (START, STOP), 728-779, 904-950, and `pdma_pcie_dma_reset`; the card is external |
| `MCPdmaDev.tla` | threads as model values, their symmetry |
| `PdmaDevProofs.tla` | theorems about `PdmaDev`: types, handshake, mirror of the card |
| `PdmaDevQueueProofs.tla` | theorems about its queues: order of writes, feeding of the read FIFO |
| `PdmaDevWakeProofs.tla` | the theorem that no wake-up is lost |
| `PdmaDevPoolProofs.tla` | the theorem that no buffer is lost or doubled |
| `PdmaProbe.tla` | the life of a card: probe, setup, removal, error recovery, next to programs with the device open |
| `MCPdmaProbe.tla` | two programs |
| `PdmaProbeProofs.tla` | theorems about `PdmaProbe`: its types and all its safety invariants |
| `Fifo.tla` | abstract: what a queue of Net_Dom0 promises to the threads that share it |
| `XenQueue.tla` | `xen_queue.c`, link by link, refining `Fifo` |
| `MCXenQueue.tla` | threads and elements as model values, their symmetry |
| `XenQueueProofs.tla` | theorems about `XenQueue`: the ring reads both ways, and is a FIFO |
| `XenRing.tla` | the ring, event channels and front end of a guest, shared by both backends; external |
| `CharServer.tla` | abstract: what a backend promises each guest |
| `XenBackDom0.tla` | the backend of one host: `ire/Dom0/data.c` and the connection of a guest, refining `CharServer` |
| `MCXenBackDom0.tla` | two guests and their workloads |
| `XenBackProofs.tla` | theorems about `XenBackDom0`, the refinement among them |
| `NetDom0.tla` | the server end of `ire/Net_Dom0/data.c`, refining `CharServer` |
| `MCNetDom0.tla` | two guests, datagrams and their workloads |
| `NetDom0Proofs.tla` | theorems about `NetDom0`: its types and all its safety invariants, and the refinement |

### PdmaDev: state and steps

The variables have the names of the fields of `struct pdma`. A list is a
sequence of buffer numbers; `list_add_tail` appends, `list_add` prepends,
`list_del_init` of `next` takes the head. Each thread has a control point
(`rpc`, `wpc`, `cpc`) and the buffer it holds. A step is what the code does
without another party being able to interfere: one critical section under
`ppdma->lock`, or one unlocked access to shared state. So `pdma_read` is split
into

    ReadCall, ReadInc, ReadCheck, ReadTry, ReadCopy, ReadCopyInc, ReadPut | ReadFault, ReadSubmit,
    ReadPrepare, ReadLook, ReadAwake | ReadSignal, ReadFinishWait, ReadRelock, ReadDec

plus `ReadSecond` and `ReadSecondReturn`, the calls that an odd `flgrd` sends to
`bbuf` without touching the engine (only the parity is kept, and `flgrd++` is a
load and a store that other readers may interleave). `pdma_write` is split
alike. `TrySubmitRead` and `TrySubmitWrite` are the submit loops, moved in one
step because the lock is held. START and STOP are the steps of `cpc`, from
`Ioctl` on; START runs the steps of STOP first when it sees DMA enabled, and
goes on whatever STOP returns (`AfterStop`). The interrupt handler is
`IntrNotify` (or `IntrStopped`) followed by the wake-ups it owes, each a step.

* **Wake-ups.** A wake-up unlinks all threads of a queue (`wake_up_interruptible`
  on non-exclusive waiters); a thread in `schedule()` goes on when it is no longer
  linked, or on a signal. `prepare_to_wait` links, then the list is looked at
  again without the lock, then the thread sleeps.
* **The card** completes descriptors in FIFO order, counts them (`hw_rd_done`,
  `hw_wt_done` hold them until the counters are read) and raises `msi`. A reset
  empties all of it; a reset that times out leaves it as it is.
* **Choices left open**: blocking or `O_NONBLOCK` files, legal or illegal sizes
  (a call may leave with an error where the code has an early return), faulting
  user addresses (`UserFaults`), signals, timeouts.
* **Undefined outcomes.** If the interrupt finds fewer submitted entries than
  the card counted, the code takes the list head for a buffer; if START relinks
  a buffer that a call holds, the buffer will be on two lists. The model then
  sets `oops` and stops: nothing can be said of the driver afterwards.
* **`clean`** is a history variable: no reset or drain has timed out, and no
  ioctl was issued while another was in progress. The code gives no guarantee
  beyond `CallsCounted` without it, because START ignores failures (456, 459)
  and nothing serialises the ioctls. `TypeOK` and `CallsCounted` do not need it.

Left out of `PdmaDev`: the contents of buffers and of `bbuf`, the statistics,
the ioctls that do not touch the engine (registers, info), and what surrounds
the engine's life, which is `PdmaProbe`.

### PdmaProbe: state and steps

`pdma_pci_probe`, `pdma_pcie_setup`, `pdma_pcie_cleanup`, `pdma_pci_remove`,
`pdma_pci_error_detected` and `pdma_pci_slot_reset`, and the functions of
`pdma-dev.c` they call, are straight-line code: an acquisition per step, and at a
failure a label from which everything so far is given back. So each routine is
the sequence of its steps (`Probe`, `Recover`, `SlotReset`, `PciRemove`), each
label the sequence of what it gives back (`UndoSetup`, `UndoProbe`), and the core's
thread does the head of `todo` at each step: `Acquire`, `Fail`, `Release`,
`CtrlInit`, `Config`, or a step of STOP or START. `held` is what the driver has.
STOP and START are also issued by programs, whose calls are reduced to counting,
checking, using the device and counting back; `PdmaDev` has what happens in
between. `minor_idx` is never given back, so a second probe with `max_dev` of one
fails in its last step and has to undo a whole probe.

* **`upset`** is a history variable: a drain gave up or a reset timed out, an
  ioctl met a routine of the core or another ioctl, `slot_reset` found calls
  counted, or the card was removed while a file was open. **`abandoned`**: the
  card was removed before it had recovered. The driver protects itself against
  neither. In particular nothing keeps a file's pointer to the device alive after
  removal (`UseAfterFree` ends the program's part), and `remove` after a failed
  recovery releases what recovery released (`NoFault` says that this is the only
  way, other than `upset`).

### XenQueue: state and steps

`next` and `prev` are the heap: the links of the head and of every element. An
element's links start out arbitrary, because nothing initialises them before its
first push (the call in `data.c` 469 is commented out). Every user of the file in
`data.c` takes the queue's spin lock around push and pop, so `lock`, `step`,
`arg`, `last` and `count` describe the one call in progress. Only
`xen_queue_is_empty` is called without the lock, in the conditions of
`wait_event_interruptible` (799, 838, 864), so each write of a link that such a
look can see is a step: push is `PushCall`, `PushPrepare` (19-20, an element
nobody can reach yet), `PushLink` (21), `PushTail` (22); pop is `PopCall`,
`PopUnlink` (31), `PopPrev` (32), `PopSelf` (33-35). Memory is taken to be
sequentially consistent. `xen_queue_front` and `xen_queue_length` have no caller;
they are modelled under the lock, as their links would need it.

`ImplementsFifo` maps `items` to the elements on the way along `next`. A push
takes effect at line 21 and a pop at line 31, before the call returns: `Effect`
gives the caller its answer at that point.

### XenRing and CharServer

Each guest's ring is two indexes on each side, the index of the next event on each
side, and the ids of the responses so far. The macros of `xen/interface/io/ring.h`
pair every push with a check for an event and every last look with a request for
one; their barriers make each pair one step. A front end posts a request only into
a slot it knows to be free (`Post`) and reads responses when its event arrives
(`FrontInterrupt`); which requests it posts is its `script`, fixed at the start.
Indexes do not wrap. All of this is external: it is the contract that both
backends rely on.

`CharServer` says what a guest gets: its requests are dealt with in the order it
posted them, each is answered once with its own id or, if its kind may go
unanswered, dropped.

### XenBackDom0: state and steps

One worker per guest, at a place `pc`: the loop of `xen_chrif_schedule` and
`do_char_io_op` (`WaitRequests`, `WaitPool`, `Snapshot`, `Take` or `TakeLater`,
`FinalCheck`, `FreeReq`), the operations of the switch in between, and for most of
them `MakeResponse`, which is one step since it runs under the ring's lock. OPEN
and CLOSE count in one step and open or close the shared file in another
(`ServeOpen`, `OpenFile`, `ServeClose`, `CloseFile`). WRITE takes the mutex and,
if nobody has it, the mark `wting_domu_id` (`WriteLock`); who finds another's mark
clears the flag, drops the mutex and waits (`WriteTest`, `Nap`, `Awake`); the last
read of a transfer gives up the mark and wakes the waiters, without the mutex
(`ReadFinish`, `ReadWake`). `write_pdma_wq` is the set of threads linked to that
queue: the test of the flag in `wait_event` and the link are one step, under the
queue's lock, but a wake-up may come before it. Every other sleep is a guard.

`mutex_unlock` of a mutex that is not held either frees it once more or does
nothing, according to how the kernel was built: `Unlock` allows both.
`waiting_reqs` starts with what `kmalloc` returned, and `ctrl.val` is a free
choice for the same reason. A transfer without an open file ends the worker
(`dead`): the code follows a null, erroneous or stale pointer. `CloseFile` of what
is no file ends it too, and of a file that was closed before it may.

What can fail, each at most `MaxErrors` times (`Fail`): a transfer; `filp_open`,
whose error pointer is kept and whose OPEN is answered alike; mapping the ring or
binding its event channel, which `connect_ring` (138-141) ignores, so that the guest
is told Connected (`bus` is then `Unbound`), posts, and its worker, if
`waiting_reqs` happens to be set, dies at its first look (`lost`); and `kthread_run`,
after which the guest has no worker for good (`absent`).

* **`contended`** is a history variable: some guest had to wait for another, or
  read the device without having the mark. Before that the arbitration keeps its
  promise (`ExclusiveUntilContended`); after it, it does not (finding
  `backend_mark`).

### NetDom0: state and steps

The requests of a guest are handled in its event handler, in interrupt context
(`irq`): the same loop, but nobody waits for a pending request or tries again
(`GiveUp`, which leaves the handler at `gave_up` until its next event), a round
allocates one response structure for all the requests it takes (`Snapshot` adds
one to `resp`), and a WRITE is queued with a pointer to its slot of the ring and to
that structure (`QueueWrite`). `reqthread` pops tasks and serves them (`WaitTask`,
`Pop`, `DoWrite`, `AnswerTask`, `SendTask`, and for a datagram `RemoteWrite`,
`RemoteRead`); `conthread` receives into the one remote buffer and queues a task
(`Receive`, `PushRemote`). `kernel_recvmsg` may fail: the code prints that and queues
a task all the same (656-669), so `received` counts its returns and such a task has
the id 0 (`NewTask`); the card then works on whatever the buffer holds, `Worked`
telling the result of data from the result of an earlier result. `native_queue` is the FIFO that `XenQueue` is shown to
implement. `Exit` is the module's removal: it closes the device file and then asks
`reqthread` to stop. That thread's loop has no end, so `kthread_stop` never returns,
nor does the removal, whose later steps are not reached; a call of the closed device
may end the thread or the handler that makes it (`oops`).

The handler asks `kthread_should_stop` before each request (439), which in interrupt
context answers for the thread that was interrupted. `MayBeStopping` is when it may
say yes: `reqthread` was told to stop, or (`foreign_stop`, fixed by the workload)
kernel threads of somebody else are being stopped. Which thread an interrupt meets
is not modelled, so the answer is then a free choice. That the call returns an
answer at all, whatever it interrupts, is assumed.

`xen_make_response` reads the request's id from the slot when the WRITE is
answered, which may be long after other requests or responses were written there.
`SlotId` is what it finds: of the indexes that share the slot, the last the front
end wrote (`req_prod` less the remainder of its distance), as a response if one was
pushed there since, otherwise as the request itself. Hence the promises' conditions:

* to a guest that posts nothing else while a WRITE of its own is queued, the
  backend implements `CharServer` (`Mixes` excludes the others, for whom only the
  number of responses is promised, `OneResponseEach`);
* the card works on the data of its task's own datagram as long as no datagram
  arrived while an earlier receive's task, failed or not, was queued or served
  (**`overrun`**, a history variable); the task of a failed receive itself is
  promised nothing (`OwnDataUntilOverrun`);
* a handler that took its last look leaves no request unseen, and none gives up
  unless the guests share too few pending requests or `MayBeStopping`
  (`RequestsSeen`); the requests it then leaves behind wait for the next event, and
  `EverythingServed` excuses them.

Operators named `Bug...` are definitions with a plausible mistake; replacing the
real one by it makes the property named in `PROJECT.json` fail.

## 3. Runs

| run | instance | shows |
|---|---|---|
| `read` | 2 readers, 1 controller, 3 buffers, FIFO of 2 | `TypeOK`, `CardMirrorsLists`, `ReadFifoFed`, `NoLostWakeup` on the read path |
| `write` | 2 writers, 1 controller, 3 buffers, FIFO of 2 | `PendingMeansFull`, `WriteQueueFifo`, `NoLostWakeup` on the write path |
| `stop` | 1 reader, 1 writer, 1 controller, 1 buffer each, user faults, 1 timeout | `RestartQuiescent`, `NoCorruption`, `StoppedCardIdle`, `PoolConserved` |
| `ioctls` | 1 reader, 2 controllers, faults, 1 timeout | `CallsCounted` when START and STOP overlap |
| `queue` | 2 threads, 3 elements with arbitrary links | `RingIsDouble`, `ImplementsFifo` |
| `queue_length` | the same | violated as it should be: `LengthCountsQueue` |
| `live_read` | 2 readers, 1 controller, 1 buffer, fair | `StopDrainsReaders`, `SleepingReaderWakes` |
| `live_write` | 2 writers, 1 controller, 1 buffer, fair | `StopDrainsWriters`, `SleepingWriterWakes` |
| `backend` | 2 guests, rings of 2, four workloads, 1 failure, fair | `RequestsSeen`, `PoolAccounted`, `NeverOverflows`, `ExclusiveUntilContended`, `ImplementsServer`, `EveryRequestTaken` |
| `backend_mark` | the same without failures | violated as it should be: `MarkedWhileWriting` |
| `net` | 2 guests, rings of 2, six workloads, up to 3 receives, fair | `RequestsSeen`, `ServesUntilExit`, `OwnDataUntilOverrun`, `OneResponseEach`, `ImplementsServer`, `EverythingServed` |
| `probe` | 2 programs, 1 device number, 1 failed acquisition, 1 bus error, fair | `NothingLeaks`, `BoundHoldsAll`, `NoFault`, `CallsHaveDevice`, `RoutinesEnd` |

`backend`, `net` and `probe` check their module's `TypeOK` as well.

**Bounds.** Two threads of a kind are enough for one to take the buffer another
was woken for, and for a race on the last buffer. Three buffers over a FIFO of
two give a full FIFO with a buffer left over, which is when `wt_pending` and
`ReadFifoFed` matter; one buffer makes every second call sleep, which is what
the liveness runs need. START and STOP may be issued any number of times.
`MaxTimeouts` bounds how often a reset or drain times out; one already leads to
every state a timeout can cause, and the runs with one check that the guarantees
made without `clean` survive it. There is no other bound: the state space of
`PdmaDev` is finite. In `XenQueue` one thread is inside and another looks at the
queue, and three elements give a first, a middle and a last one; `MaxCount`
stops the endless count of `xen_queue_length`. `stop` and `ioctls` switch deadlock checking off because the model stops
on `oops`, which a timeout or overlapping ioctls can cause; in the other runs
the system must never be stuck. The symmetry of threads is used in safety runs
only.

In `backend` and `net`, two guests are enough to compete for the device, the
pool and the queue, and a ring of two with up to three requests makes a slot be
used again. The workloads are chosen so that every operation occurs, both guests
want the device, a guest reads without the mark, an OPEN races a CLOSE, requests
that are never answered fill a ring, and the pool has fewer requests than there
are guests. The one failure of `backend` strikes mapping, starting a worker, opening
the file and each transfer in turn. Two datagrams make one overrun the other; three
receives let one fail before, between or after two datagrams. Only one workload of
`net` lets threads of others be stopped, since the removal, which all of them reach,
has the same effect; another has one pending request for two guests. In `probe` one failure
strikes each acquisition in turn, in probe and in recovery, and one error lets a
recovery meet calls, ioctls and removal; probe and removal may follow each other
any number of times. Deadlock checking is off in `backend` and `net` because
front ends stop when their script is done and workers when they are stuck.

**Fairness.** A thread inside the kernel that can go on does so (weak fairness of
each thread's steps), because the scheduler runs runnable threads and spin locks
are held briefly; a pending interrupt is handled; the card consumes the writes
it is given. No fairness is assumed of new calls, signals, faults, timeouts or
of the arrival of read data. Hence `SleepingReaderWakes` is conditional on data,
and the drains are promised until DMA is started again. A drain that gives up
after a second is excluded in the liveness runs (`MaxTimeouts = 0`).

In `XenBackDom0` workers are scheduled, a connection that began is completed,
events are delivered and front ends read the responses they are told of; none owes
another request. A worker's fairness is stated on its `pc`, which each of its
steps changes. `EveryRequestTaken` excuses a guest whose wake-up was missed or
whose worker died on the device file, and a guest whose ring was not mapped, whose
channel was not bound or whose worker was not made, since the code allows all that;
the other guests must be served next to those last. In `NetDom0`
handlers run to their end once their event came, both threads are scheduled and a
task is queued for each receive that returned; guests, other hosts and the administrator
owe nothing. In `PdmaProbe` only the core's thread is fair: `RoutinesEnd` holds
although programs may stop inside a call, because STOP waits a second at most.

**Findings.** `queue_length` shows that `xen_queue_length` counts past the
elements of any queue of two or more and does not end: its loop (63) never moves
`element` on, where the comment (54) says "queue length". Nothing calls it.

`backend_mark` shows a guest inside `do_write_resp` without the mark. A guest
that waited takes the mark after `wait_event` without `pdma_lock`
(`Dom0/data.c` 443), and unlocks that mutex although it dropped it before (452);
the read that gives the mark up (262) takes no lock either. So two guests may
write at once, or one write while the mark is another's, where the field's
comment (49) calls `wting_domu_id` "the mark to operate pdma".

`NoLostWakeup` is promised without user faults: a call whose copy fails puts its
buffer back and wakes nobody (249-256, 345-352), so a sleeper may wait for the
next completion. That is how the code is, and the property says so.

## 4. Proofs

### The engine (`PdmaDev...Proofs`)

The four proof modules prove, for all numbers of threads, buffers and FIFO
entries, with or without faults, and from the three assumptions of `PdmaDev`
(the sets of threads are finite, pools and FIFOs are not empty, the switches
have their types):

* `TypeCorrect`: `Spec => []TypeOK`. `TypeOK` also says that a call holds a
  buffer exactly between taking it and giving it back.
* `CallsAreCounted`: `CallsCounted` is inductive given `TypeOK`; the steps split
  into those that enter, those that leave and those that stay.
* `StopHandshake`: the inductive `StopInv`, which strengthens
  `RestartQuiescent`: while `clean`, at most one ioctl is in progress, DMA is off
  from STOP's disable to START's relinking, and with DMA off and no STOP still
  draining every call is before its check or on its way out. The step that
  establishes the last part is STOP's poll: it sees a zero, and by
  `CallsCounted` a zero means nobody; with DMA off no call then passes its check.
  `RestartQuiescent` alone is not inductive: it says nothing of the states from
  which START's relinking is reached.
* `RestartIsQuiescent`: from `StopHandshake`.
* `CardIsMirrored`, `StoppedMeansIdle`: their conjunction is inductive given
  `TypeOK` and `StopInv`. The lemmas on `TrySubmitRead` and `TrySubmitWrite` show
  that what a submit loop appends to a list it hands to the card; those on
  `NotifyRead` and `NotifyWrite` that moving as many heads as the card counted
  leaves what the card still has. `StopInv` is needed where START relinks: the
  card is empty because a reset preceded with DMA off ever since.
* `NeverCorrupted`: an overrun would contradict the mirror, a relinked buffer in
  a call's hands would contradict `RestartQuiescent` with `TypeOK`.

* `PendingBehindFullFifo`: `PendingMeansFull` with the bound `FifoBound` is
  inductive. The bound is needed: a direct submit at a count above the depth, or
  a completion that brings the count down to it, could otherwise leave pending
  writes beside a count that is not the depth. Neither `clean` nor the mirror is
  used.
* `ReadFifoIsFed`: inductive as it stands, given `TypeOK`; a submit loop ends at a
  full FIFO or an empty free list, and whoever returns a buffer is then on the
  way to a submit loop.
* `WritesInOrder`: every step leaves the join of `wt_submit` and `wt_pending` as
  it is, appends to it, drops the completed part from its front, or empties it
  with DMA off (`StopInv`). A direct submit appends to the join because
  `PendingInv` says that `wt_pending` is empty.
* `NoWakeupIsLost`: inductive given `TypeOK` and `RestartQuiescent`, which is
  needed where START fills the free lists: nobody sleeps then.

* `BuffersAreConserved`: `PoolConserved` is inductive given `TypeOK` and
  `RestartQuiescent`. It is proved as two facts for each pool: the lists and the
  hands together are the pool, and the lengths and the hands add up to its size.
  Lemmas say what appending, taking the head, and moving a prefix to another list
  do to the range of each list; each step moves one buffer, or as many as the
  card counted, from one place to another. `RestartQuiescent` is needed where
  START relinks: all hands are empty then, so the fresh lists are the pool.

### The backend of one host (`XenBackProofs`)

For any number of guests, sizes of ring and pool, scripts and numbers of failures,
from `RingAssumption` and `BackAssumption`:

* `TypeCorrect`, `PoolIsAccounted`: inductive together with `Counts`, the order of
  a ring's indexes (responses read, made, requests dealt with, taken, seen,
  posted). Neither stands alone: that a request taken has a type needs the
  indexes, that the count of free requests stays within the pool needs the account,
  and the account needs the types.
* `RingNeverOverflows`: from the same invariant. The front end counts the slots of
  unanswered requests as used, so a request in the ring means that the backend's
  count of them is below the ring's size.
* `RequestsAreSeen`: inductive once strengthened by what a worker knows between its
  snapshot and its last look: it has asked for the next event, or an event is on
  the way, or it will look again.
* `WritesAlone`: by `OwnedInv`. Until there is contention at most one worker
  is between lock and unlock and the mutex is then held, and whoever writes, or has just read
  under the mark, still has it; a read by another sets `contended`.
* `ServesAsPromised`: `Spec => Server!Spec`. A post is a post, a pushed response an
  answer, a failed transfer or a MAP a drop, and every other step a stutter. It
  needs the indexes and the fact (`Kinds`) that a worker on the path of an
  operation serves a request of that kind, so that only kinds that may be silent
  are dropped.

### The backend over the network (`NetDom0Proofs`)

For any number of guests, ring sizes, scripts and receives, from `RingAssumption`
and `NetAssumption`:

* `ServesUntilTheExit`: by `ThreadInv`: a thread about to pop has a queue that is
  not empty, since it is the only one that pops and was woken by an element, or
  the removal has begun.
* `RequestsAreSeen`: by `Seen`. For a handler that took its last look the argument
  is the one for the workers, whatever the pool's size. For one that gave up,
  `NetInv` (the indexes' types and order, and the account of pending requests) shows
  that `alloc_req` cannot have failed when there is a pending request for each
  guest: a handler holds at most one, and the one that allocates holds none. What is
  left is `MayBeStopping`, and a reason once given stays (`ReasonsStay`).
* `NetDom0Types`: by `TypesInv`. The types of the responses sent rest on what the
  tasks in the queue refer to: each names a response structure that its round
  allocated and a WRITE that its handler has passed on (`TaskOK`). That stays true
  because a round only adds structures and a handler only passes on more
  (`TasksStayOK`), whatever other handlers do to their own guests' tasks.
* `DataIsItsOwn`: by `DataInv`: until a datagram overruns an earlier task, a
  datagram about to be queued finds no task of `conthread`'s before it; the task of a
  datagram is before all others of `conthread`'s in the queue, and from there through
  `reqthread`'s hands its data is in the buffer until its result is; the buffer then
  keeps that result until another task is served, and those queued meanwhile are of
  failed receives.
  `OwnDataUntilOverrun` alone says nothing of the data before it reaches the card.
* `RequestsCounted`, `EachIsAnsweredOnce`: `CountInv` says that what a guest's
  handler has taken is what was answered, what waits in the queue, what the thread
  and the handler have in their hands, and the MAPs. A task is counted by its place
  (`Upto`); the lemmas `WaitingAppended` and `WaitingPopped` say what the count does
  when a task joins the queue or leaves it, the second by a bijection between the
  places of a queue and of its tail.
* `NetServesAsPromised`: `Spec => Server!Spec`. For a guest that does not mix,
  `OrderInv` adds that the WRITEs in the queue are numbered as they stand there,
  ending with the last that the handler passed on, that the thread has the
  one before them, and that a response about to be sent has the id of its request.
  So the task the thread answers is the oldest request that is not dealt with, and
  whatever the handler answers itself comes when no WRITE is waiting. `SlotIdOwn` is
  why the late read of the id is harmless then: with fewer responses pushed than the
  request's number, the front end has had no room to write that slot again and no
  response has reached it.

### The queue (`XenQueueProofs`)

For any threads and any finite set of elements, from `QueueAssumption`. The
contents of the queue are a walk along `next`, and facts about a walk of any length
need an induction. The library's induction theorems cannot be used, but that a
set of natural numbers has a least member can be had from the well-foundedness of
strict inclusion on finite sets (`Least`), and an induction is then an argument
about the least place where it fails: `WalkExists`, and `WayIsQueue`, by which a
sequence that the links go through *is* the contents.

* `LinksMakeAQueue`: `QueueInv` is inductive. The links go from the head through the
  contents, each element once, and back to the head (`Linked`); `prev` leads back
  except for the one link that a push or a pop has still to write; an element in the
  caller's hands is outside the queue until it is linked and after it is unlinked.
* `RingReadsBothWays`: from it, since with the lock free no link is missing.
* `QueueIsFifo`: `Spec => ImplementsFifo`. The write at line 21 takes the contents to
  the contents with the element appended, the one at line 31 to their tail, and
  every other write leaves them alone.

### The life of a card (`PdmaProbeProofs`)

For any number of programs, device numbers, failed acquisitions and bus errors,
from `ProbeAssumption`, `ProbeInv`, the conjunction of two invariants, is inductive
(`CardIsOrderly`):

* `ListInv`: what an actor has left is an end of the routine it is in, so the length
  of what is left says which steps are done (`EndHas`); what the driver holds is
  what the routine has got so far, or has still to give back (`Holds`). The lemmas
  `ProbeGot`, `SlotResetGot`, `UndoProbeIs`, `UndoResetIs` state what the labels of the code
  are written for: the label a failed step jumps to gives back exactly what was got
  before that step. It gives `CardTypes`, `ProbeUndoesItself` and
  `RecoveryIsComplete`, whatever happens, and the part of `FaultsHaveACause` about
  getting and giving back twice.
* `CleanInv`, while nothing is `upset`: one ioctl at a time and none next to a
  routine (`Alone`); the calls past their count are finitely many and at most
  `rw_cnt` (`Counted`); a call past its check still has DMA enabled, or a drain to
  wait for it (`Drained`); DMA is off from a STOP's disable on, and
  whenever the card is not set up (`Stopped`, `Off`). A drain that ends at a count
  of zero has therefore nobody left to wait for, and what is then given back is in
  nobody's use: `CallsAreServed`. `Apart` is about the removal of a card whose recovery
  failed, which has less to give back than it tries to, and is why `FaultsHaveACause`
  must excuse it.

### Only model-checked

The liveness properties, `StopDrainsReaders`, `StopDrainsWriters`,
`SleepingReaderWakes`, `SleepingWriterWakes`, `EveryRequestTaken`,
`EverythingServed` and `RoutinesEnd`: fairness and ENABLED are outside TLAPS's
reach. Every type invariant, safety invariant and refinement that a passing run
checks is also a theorem.

## 5. Plan

Done: the engine, the queue, the card's life and both backends, with every safety
invariant proved, the queue proved to be a FIFO and both backends to implement one
abstract server. What would come next, in this order:

1. What the proofs share between `XenBackProofs` and `NetDom0Proofs` about the ring's
   indexes, as lemmas about `XenRing` alone.
2. A promise to the guests that mix WRITEs with other requests: which ids their
   responses may carry.
3. The contents of `bbuf`: whose data a read from the mirror returns.

## 6. Not modelled

* The client end of `Net_Dom0` (`dispatch_remote_queue`, and the branches taken with `dev_on` false): module
  initialisation chooses it when `filp_open` returns NULL (997-1002), but that
  function reports failure by an error pointer, so no loaded module runs it.
  `dispatch_sendtocli_queue`, with `get_send_len`, is started by no thread either;
  `sendtocli_queue` is modelled as far as it is filled.
* Closing, reconnecting and removing a guest: `frontend_changed` in its other
  states, and `chrback_remove`, which frees the ring's state while the worker, the
  event handler and queued tasks use it. The code does nothing to make this safe,
  so there is no promise to check. Only one connection of each guest is
  in `XenBackDom0`; in `NetDom0` guests are connected from the start, and the
  device file, the socket and the threads of `dom_init` are taken to be there: the
  server end with a file that did not open calls through the error pointer at once.
* Failures to allocate memory of the Xen backends, whose results are not tested, and
  signals to their threads.
* Bytes: the contents of buffers, of `bbuf` and of mapped pages, the sizes of
  blocks, the registers other than the counts and the reset. The counts
  `writed_sz` and `readed_sz` of `Dom0` are a free choice of when a transfer ends.
* Statistics (`PDMA_DEBUG`) are shadow counters of the list lengths. The user
  interrupt hook is an empty function.
* The command-line tools and test programs are sequential clients of the device
  file; `kerptest/kerpdma.c` drives the device from kernel threads and adds no
  state to it.
* Earlier revisions (`pdma-v1.1-src`, `pdma-v1.2-src`, `backup`, `ire/backup_con`)
  are superseded; `Dom0_nodev` is `Dom0` but for its register setup.
* `lte_phy_sim` is a vendored physical-layer simulator (OpenAirInterface) that
  nothing here calls. It is by far the largest part of the tree: signal
  processing and its tables, with no state machine of this system in it.
