----------------------------- MODULE XenBackDom0 ----------------------------
(***************************************************************************)
(* The single-host back end, ire/Dom0/data.c, with the part of dom0.c that *)
(* connects a guest: one worker thread per guest, which share the pool of  *)
(* pending requests, the device file, the mutex pdma_lock and the mark of  *)
(* the guest that operates the device.  A sleep in wait_event is a guard,  *)
(* except the one on write_pdma_wq, whose wake-up can be missed.  The      *)
(* bytes moved, the card's registers and the counts writed_sz and          *)
(* readed_sz are abstracted: whether a read is the last of its transfer is *)
(* a free choice, as is ctrl.val, uninitialised in all but the first read. *)
(***************************************************************************)
EXTENDS XenRing

CONSTANTS
    Workloads,  \* where a run may start: what the guests will request, who has the
                \* device open already, the module parameter reqs (pending requests)
    NoGuest,    \* wting_domu_id = -1
    MaxErrors   \* bound on the failures of the device and of connecting to a guest

ASSUME BackAssumption ==
    /\ Workloads \subseteq [script : Scripts, opened : SUBSET Guests, reqs : Nat \ {0}]
    /\ NoGuest \notin Guests /\ MaxErrors \in Nat

VARIABLES
    bus,                        \* where frontend_changed is in connecting the guest
    pc, rp, waiting_reqs,       \* the worker: its place, its snapshot of req_prod, its flag
    reqs, pending_free,         \* number of pending requests, and of the free ones
    open_cnt, chrif_filp,       \* opens counted, and the device file
    pdma_lock,                  \* the mutex's count: 1 free, 0 held
    wting_domu_id,              \* the mark to operate pdma
    write_pdma_wq, write_pdma_ws,
    contended,                  \* a guest had to wait for another, or read without the mark
    errors                      \* failures so far

file_vars == <<open_cnt, chrif_filp>>
mark_vars == <<wting_domu_id, write_pdma_wq, write_pdma_ws>>
dev_vars  == <<file_vars, pdma_lock, mark_vars, contended, errors>>
loop_vars == <<rp, waiting_reqs, reqs, pending_free>>
vars      == <<ring_vars, bus, pc, loop_vars, dev_vars>>

-----------------------------------------------------------------------------
(* Where a worker may be.  A response is followed by one of four tails.    *)

BugAfterResponseTwice == [resp_put |-> "put", resp_unlock |-> "unlock",
                          resp_wlen |-> "resp_unlock", resp_rfin |-> "rfin"]

AfterResponse == [resp_put |-> "put", resp_unlock |-> "unlock",
                  resp_wlen |-> "unlock", resp_rfin |-> "rfin"]

Writing  == {"write", "resp_wlen"}
Serving  == {"open", "filp_open", "close", "filp_close", "wlock", "wtest", "nap", "asleep",
             "ilock", "read", "rfin", "rwake", "unlock", "put", "dead"}
            \cup Writing \cup DOMAIN AfterResponse
(* No thread yet, none for good, one that died on a ring not mapped.       *)
Places   == {"none", "absent", "lost", "idle", "pool", "snap", "scan"} \cup Serving

(* The switch over the operation.  MAP has no response, an unknown one is  *)
(* answered at once.                                                       *)
Entry == [OPEN |-> "open", WRITE |-> "wlock", READ |-> "read", IOCTL |-> "ilock",
          CLOSE |-> "close", MAP |-> "put", UNKNOWN |-> "resp_put"]

TypeOK ==
    /\ RingTypeOK
    /\ bus \in [Guests -> {"InitWait", "Connected", "Unbound"}]
    /\ pc \in [Guests -> Places] /\ rp \in [Guests -> Nat]
    /\ waiting_reqs \in [Guests -> {0, 1}]
    /\ reqs \in Nat /\ pending_free \in 0 .. reqs
    /\ open_cnt \in Int /\ chrif_filp \in {"none", "open", "error", "closed"}
    /\ pdma_lock \in Nat /\ wting_domu_id \in Guests \cup {NoGuest}
    /\ write_pdma_wq \subseteq Guests /\ write_pdma_ws \in {0, 1}
    /\ contended \in BOOLEAN /\ errors \in 0 .. MaxErrors

(* dom_init and device_probe; waiting_reqs is whatever kmalloc returned.   *)
(* A guest that has the device open already is at rest since.              *)
Init ==
    /\ RingInit /\ \E w \in Workloads :
        /\ script = w.script /\ reqs = w.reqs
        /\ bus = [g \in Guests |-> IF g \in w.opened THEN "Connected" ELSE "InitWait"]
        /\ pc = [g \in Guests |-> IF g \in w.opened THEN "idle" ELSE "none"]
        /\ waiting_reqs \in [Guests -> {0, 1}] /\ \A g \in w.opened : waiting_reqs[g] = 0
        /\ open_cnt = Cardinality(w.opened)
        /\ chrif_filp = IF w.opened # {} THEN "open" ELSE "none"
    /\ rp = [g \in Guests |-> 0] /\ pending_free = reqs
    /\ pdma_lock = 1 /\ wting_domu_id = NoGuest
    /\ write_pdma_wq = {} /\ write_pdma_ws = 0 /\ contended = FALSE /\ errors = 0

Go(g, from, to) == pc[g] = from /\ pc' = [pc EXCEPT ![g] = to]
LoopFrame == UNCHANGED <<front_vars, rsp_vars, evt, bus, reqs, dev_vars>>
DevFrame  == UNCHANGED <<ring_vars, bus, loop_vars>>

-----------------------------------------------------------------------------
(* Connecting: the ring is mapped, its event channel bound and the guest   *)
(* told so; only then is its worker started.  The guest is told so even if *)
(* there is no mapping or no channel, or if there will be no worker.       *)

Fail == errors < MaxErrors /\ errors' = errors + 1

Connect(g) ==
    /\ bus[g] = "InitWait"
    /\ \/ bus' = [bus EXCEPT ![g] = "Connected"] /\ UNCHANGED errors
       \/ bus' = [bus EXCEPT ![g] = "Unbound"] /\ Fail
    /\ UNCHANGED <<ring_vars, pc, loop_vars, file_vars, pdma_lock, mark_vars, contended>>

StartThread(g) ==
    /\ bus[g] # "InitWait"
    /\ \/ Go(g, "none", "idle") /\ UNCHANGED errors
       \/ Go(g, "none", "absent") /\ Fail
    /\ DevFrame /\ UNCHANGED <<file_vars, pdma_lock, mark_vars, contended>>

FrontPost(g) ==
    /\ bus[g] # "InitWait" /\ Post(g)
    /\ UNCHANGED <<bus, pc, loop_vars, dev_vars>>

FrontRead(g) == FrontInterrupt(g) /\ UNCHANGED <<bus, pc, loop_vars, dev_vars>>

(* chrif_int.                                                              *)
Interrupt(g) ==
    /\ evt[g] /\ bus[g] = "Connected" /\ evt' = [evt EXCEPT ![g] = FALSE]
    /\ waiting_reqs' = [waiting_reqs EXCEPT ![g] = 1]
    /\ UNCHANGED <<front_vars, rsp_vars, req_vars, bus, pc, rp, reqs, pending_free, dev_vars>>

-----------------------------------------------------------------------------
(* The worker's loop, xen_chrif_schedule around do_char_io_op.             *)

WaitRequests(g) ==
    /\ waiting_reqs[g] = 1 /\ Go(g, "idle", "pool")
    /\ LoopFrame /\ UNCHANGED <<req_vars, rp, waiting_reqs, pending_free>>

(* The flag is cleared before the ring is looked at.                       *)
WaitPool(g) ==
    /\ pending_free > 0 /\ Go(g, "pool", "snap")
    /\ waiting_reqs' = [waiting_reqs EXCEPT ![g] = 0]
    /\ LoopFrame /\ UNCHANGED <<req_vars, rp, pending_free>>

(* The look at the ring; with none mapped it is the thread's end.          *)
Snapshot(g) ==
    /\ \/ /\ bus[g] = "Connected" /\ Go(g, "snap", "scan")
          /\ rp' = [rp EXCEPT ![g] = req_prod[g]]
       \/ bus[g] # "Connected" /\ Go(g, "snap", "lost") /\ UNCHANGED rp
    /\ LoopFrame /\ UNCHANGED <<req_vars, waiting_reqs, pending_free>>

More(g) == req_cons[g] # rp[g] /\ ~ConsOverflow(g)

BugTakeUnallocated(g) ==
    /\ More(g) /\ Go(g, "scan", Entry[script[g][req_cons[g] + 1]])
    /\ TakeRequest(g) /\ pending_free' = pending_free - 1
    /\ LoopFrame /\ UNCHANGED <<rp, waiting_reqs>>

BugTakeTwice(g) ==
    /\ More(g) /\ pending_free > 0 /\ Go(g, "scan", Entry[script[g][req_cons[g] + 1]])
    /\ req_cons' = [req_cons EXCEPT ![g] = IF @ + 1 < rp[g] THEN @ + 2 ELSE @ + 1]
    /\ pending_free' = pending_free - 1
    /\ LoopFrame /\ UNCHANGED <<req_event, rp, waiting_reqs>>

Take(g) ==
    /\ More(g) /\ pending_free > 0 /\ Go(g, "scan", Entry[script[g][req_cons[g] + 1]])
    /\ TakeRequest(g) /\ pending_free' = pending_free - 1
    /\ LoopFrame /\ UNCHANGED <<rp, waiting_reqs>>

(* alloc_req found nothing: more_to_do, and the flag is set again.         *)
TakeLater(g) ==
    /\ More(g) /\ pending_free = 0 /\ Go(g, "scan", "idle")
    /\ waiting_reqs' = [waiting_reqs EXCEPT ![g] = 1]
    /\ LoopFrame /\ UNCHANGED <<req_vars, rp, pending_free>>

BugFinalCheckBlind(g) ==
    /\ ~More(g) /\ Go(g, "scan", "idle") /\ AskForEvent(g)
    /\ LoopFrame /\ UNCHANGED <<rp, waiting_reqs, pending_free>>

(* The last look at the ring: once more round, or to sleep with the next   *)
(* event asked for.                                                        *)
FinalCheck(g) ==
    /\ ~More(g)
    /\ \/ /\ Unconsumed(g) /\ ~ConsOverflow(g)
          /\ Go(g, "scan", "snap") /\ UNCHANGED req_vars
       \/ /\ ~(Unconsumed(g) /\ ~ConsOverflow(g))
          /\ Go(g, "scan", "idle") /\ AskForEvent(g)
    /\ LoopFrame /\ UNCHANGED <<rp, waiting_reqs, pending_free>>

BugFreeReqForgotten(g) ==
    /\ Go(g, "put", "scan")
    /\ LoopFrame /\ UNCHANGED <<req_vars, rp, waiting_reqs, pending_free>>

(* free_req; a worker that waits for the pool sees the new count.          *)
FreeReq(g) ==
    /\ Go(g, "put", "scan") /\ pending_free' = pending_free + 1
    /\ LoopFrame /\ UNCHANGED <<req_vars, rp, waiting_reqs>>

-----------------------------------------------------------------------------
(* OPEN and CLOSE count in one step and open or close the file in another. *)
ServeOpen(g) ==
    /\ Go(g, "open", IF open_cnt = 0 THEN "filp_open" ELSE "resp_put")
    /\ open_cnt' = open_cnt + 1
    /\ DevFrame /\ UNCHANGED <<chrif_filp, pdma_lock, mark_vars, contended, errors>>

(* filp_open may return an error pointer: it is kept, and answered alike.  *)
OpenFile(g) ==
    /\ Go(g, "filp_open", "resp_put")
    /\ \/ chrif_filp' = "open" /\ UNCHANGED errors
       \/ chrif_filp' = "error" /\ Fail
    /\ DevFrame /\ UNCHANGED <<open_cnt, pdma_lock, mark_vars, contended>>

ServeClose(g) ==
    /\ Go(g, "close", IF open_cnt = 1 THEN "filp_close" ELSE "resp_put")
    /\ open_cnt' = open_cnt - 1
    /\ DevFrame /\ UNCHANGED <<chrif_filp, pdma_lock, mark_vars, contended, errors>>

(* filp_close of what is no file ends the thread; of a file closed before, *)
(* freed memory by now, it may.                                            *)
CloseFile(g) ==
    /\ \/ chrif_filp = "open" /\ Go(g, "filp_close", "resp_put") /\ chrif_filp' = "closed"
       \/ chrif_filp = "closed" /\ Go(g, "filp_close", "resp_put") /\ UNCHANGED chrif_filp
       \/ chrif_filp # "open" /\ Go(g, "filp_close", "dead") /\ UNCHANGED chrif_filp
    /\ DevFrame /\ UNCHANGED <<open_cnt, pdma_lock, mark_vars, contended, errors>>

Lock   == pdma_lock > 0 /\ pdma_lock' = pdma_lock - 1
(* An unlock by a thread that does not hold the mutex frees it once more,  *)
(* or is ignored, according to the mutex's build.                          *)
Unlock == pdma_lock' \in {1, pdma_lock + 1}

(* WRITE: under the mutex, take the mark if nobody has it ...              *)
WriteLock(g) ==
    /\ Lock /\ Go(g, "wlock", "wtest")
    /\ wting_domu_id' = IF wting_domu_id = NoGuest THEN g ELSE wting_domu_id
    /\ DevFrame /\ UNCHANGED <<file_vars, write_pdma_wq, write_pdma_ws, contended, errors>>

BugWriteTestIgnoresMark(g) ==
    /\ Go(g, "wtest", "write")
    /\ DevFrame /\ UNCHANGED dev_vars

(* ... and if another guest does, clear the flag, drop the mutex and wait. *)
WriteTest(g) ==
    /\ \/ /\ wting_domu_id = g /\ Go(g, "wtest", "write")
          /\ UNCHANGED <<pdma_lock, write_pdma_ws, contended>>
       \/ /\ wting_domu_id # g /\ Go(g, "wtest", "nap")
          /\ write_pdma_ws' = 0 /\ contended' = TRUE /\ Unlock
    /\ DevFrame /\ UNCHANGED <<file_vars, wting_domu_id, write_pdma_wq, errors>>

(* wait_event on write_pdma_wq.  The guest that is through takes the mark  *)
(* without the mutex.                                                      *)
Nap(g) ==
    /\ \/ /\ write_pdma_ws = 0 /\ Go(g, "nap", "asleep")
          /\ write_pdma_wq' = write_pdma_wq \cup {g} /\ UNCHANGED wting_domu_id
       \/ /\ write_pdma_ws = 1 /\ Go(g, "nap", "write")
          /\ write_pdma_wq' = write_pdma_wq \ {g} /\ wting_domu_id' = g
    /\ DevFrame /\ UNCHANGED <<file_vars, pdma_lock, write_pdma_ws, contended, errors>>

Awake(g) ==
    /\ g \notin write_pdma_wq /\ Go(g, "asleep", "nap")
    /\ DevFrame /\ UNCHANGED dev_vars

(* A transfer through the device file: done, or failed without a response, *)
(* or, with no open file, the end of the thread.                           *)
Transfer(g, from, done, failed) ==
    /\ \/ chrif_filp = "open" /\ Go(g, from, done) /\ UNCHANGED errors
       \/ chrif_filp = "open" /\ Go(g, from, failed) /\ Fail
       \/ chrif_filp # "open" /\ Go(g, from, "dead") /\ UNCHANGED errors
    /\ DevFrame /\ UNCHANGED <<file_vars, pdma_lock, mark_vars>>

DoWrite(g) == Transfer(g, "write", "resp_wlen", "unlock") /\ UNCHANGED contended

(* A front end that keeps to its transfers reads with the mark.            *)
DoRead(g) ==
    /\ Transfer(g, "read", "resp_rfin", "put")
    /\ contended' = (contended \/ wting_domu_id # g)

DoUnlock(g) ==
    /\ Unlock /\ Go(g, "unlock", "put")
    /\ DevFrame /\ UNCHANGED <<file_vars, mark_vars, contended, errors>>

(* The last read of a transfer gives the mark up, and then wakes whoever   *)
(* is in the queue at that moment.                                         *)
ReadFinish(g) ==
    /\ \/ Go(g, "rfin", "put") /\ UNCHANGED wting_domu_id
       \/ Go(g, "rfin", "rwake") /\ wting_domu_id' = NoGuest
    /\ DevFrame /\ UNCHANGED <<file_vars, pdma_lock, write_pdma_wq, write_pdma_ws, contended, errors>>

ReadWake(g) ==
    /\ Go(g, "rwake", "put")
    /\ write_pdma_ws' = IF write_pdma_wq # {} THEN 1 ELSE write_pdma_ws
    /\ write_pdma_wq' = {}
    /\ DevFrame /\ UNCHANGED <<file_vars, pdma_lock, wting_domu_id, contended, errors>>

(* IOCTL asks for statistics under the mutex and answers even a failure.   *)
IoctlLock(g) ==
    /\ Lock /\ Go(g, "ilock", IF chrif_filp = "open" THEN "resp_unlock" ELSE "dead")
    /\ DevFrame /\ UNCHANGED <<file_vars, mark_vars, contended, errors>>

MakeResponse(g) ==
    /\ pc[g] \in DOMAIN AfterResponse /\ pc' = [pc EXCEPT ![g] = AfterResponse[pc[g]]]
    /\ PushResponse(g, req_cons[g])
    /\ UNCHANGED <<front_vars, req_vars, evt, bus, loop_vars, dev_vars>>

-----------------------------------------------------------------------------
Worker(g) ==
    \/ WaitRequests(g) \/ WaitPool(g) \/ Snapshot(g) \/ Take(g) \/ TakeLater(g)
    \/ FinalCheck(g) \/ FreeReq(g)
    \/ ServeOpen(g) \/ OpenFile(g) \/ ServeClose(g) \/ CloseFile(g)
    \/ WriteLock(g) \/ WriteTest(g) \/ Nap(g) \/ Awake(g) \/ DoWrite(g) \/ DoUnlock(g)
    \/ DoRead(g) \/ ReadFinish(g) \/ ReadWake(g) \/ IoctlLock(g) \/ MakeResponse(g)

Connecting(g) == Connect(g) \/ StartThread(g)

Next == \E g \in Guests :
    Connecting(g) \/ FrontPost(g) \/ FrontRead(g) \/ Interrupt(g) \/ Worker(g)

Spec == Init /\ [][Next]_vars

(* Threads are scheduled (every step of a worker moves its pc) and event   *)
(* channels delivered; front ends owe nothing but to read what they are    *)
(* told of.                                                                *)
Fairness == \A g \in Guests :
    WF_pc(Worker(g)) /\ WF_vars(Connecting(g)) /\ WF_vars(Interrupt(g)) /\ WF_vars(FrontRead(g))

FairSpec == Spec /\ Fairness

-----------------------------------------------------------------------------
(* No request is left unseen by a worker at rest: whenever its ring holds  *)
(* one, its flag is set or an event is on the way.  Events are asked for   *)
(* only in the last look at the ring (data.c:505), the flag is cleared     *)
(* before the first (524) and set again when the pool was empty (528), and *)
(* a guest may post before its worker exists (dom0.c:357-360).  The event  *)
(* of a guest whose channel was never bound (dom0.c:138-141) goes nowhere. *)
RequestsSeen == \A g \in Guests :
    pc[g] \in {"none", "idle"} /\ Unconsumed(g) /\ bus[g] # "Unbound"
        => evt[g] \/ waiting_reqs[g] = 1

(* Every worker that serves a request holds one pending request, and the   *)
(* rest is free: no path through the switch (data.c:421-487) loses one.    *)
PoolAccounted ==
    pending_free + Cardinality({g \in Guests : pc[g] \in Serving}) = reqs

(* RING_REQUEST_CONS_OVERFLOW (data.c:399) leaves requests behind without  *)
(* asking for more.  With unanswered requests keeping their slots for ever *)
(* it still never strikes, because the front end counts those slots too.   *)
NeverOverflows == \A g \in Guests :
    Unconsumed(g) => ~ConsOverflow(g) /\ rsp_prod[g] <= req_cons[g]

(* As long as no guest has had to wait for another and each reads only     *)
(* with the mark, the guest inside do_write_resp is alone there, under the *)
(* mutex, with the mark (data.c:432-436 against the last read's line 262,  *)
(* which takes no lock).                                                   *)
ExclusiveUntilContended ==
    contended \/ \A g \in Guests : pc[g] \in Writing =>
        /\ wting_domu_id = g /\ pdma_lock = 0
        /\ \A h \in Guests \ {g} : pc[h] \notin Writing

(* "the mark to operate pdma" (data.c:49): a guest that writes the device  *)
(* has the mark.                                                           *)
MarkedWhileWriting == \A g \in Guests : pc[g] \in Writing => wting_domu_id = g

(* The back end implements the abstract server (data.c:382-509): a request *)
(* counts as dealt with where its response is pushed or is given up.       *)
Owing    == Serving \ {"unlock", "rfin", "rwake", "put"}
Dealt(g) == IF pc[g] \in Owing THEN req_cons[g] - 1 ELSE req_cons[g]

Server == INSTANCE CharServer WITH
    Silent <- {"MAP", "READ", "WRITE"},
    kinds <- script, posted <- req_prod, dealt <- [g \in Guests |-> Dealt(g)], answers <- rsp_id

ImplementsServer == Server!Spec

(* A guest whose wake-up was missed (data.c:439-442 against 263), or whose *)
(* worker died on a device file that could not be opened, or that another  *)
(* guest's OPEN or CLOSE has not opened yet or closed already (423, 469).  *)
Stuck == \E g \in Guests : pc[g] \in {"asleep", "dead"}

(* A guest that was told Connected although its ring was not mapped, its   *)
(* channel not bound (dom0.c:138-141) or its worker not made (240-244).    *)
Unserved(g) == bus[g] = "Unbound" \/ pc[g] = "absent"

(* Every request a front end posts is taken, whatever the size of the pool *)
(* and whatever guests cannot be served (data.c:514-534), unless some      *)
(* guest is stuck on the device.                                           *)
EveryRequestTaken == \A g \in Guests :
    Unconsumed(g) ~> ~Unconsumed(g) \/ Unserved(g) \/ Stuck
=============================================================================
