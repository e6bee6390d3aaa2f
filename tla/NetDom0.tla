------------------------------- MODULE NetDom0 ------------------------------
(***************************************************************************)
(* The networked back end, ire/Net_Dom0/data.c, at its server end (the one *)
(* that a loaded module always takes, filp_open never returning NULL).     *)
(* The event handler of each guest runs in interrupt context: it answers   *)
(* what it can at once and queues the WRITEs.  conthread receives the      *)
(* datagrams of other hosts into one buffer and queues a task for each.    *)
(* reqthread serves the queue.  The queues are the FIFO that XenQueue is   *)
(* shown to implement, each operation one step under its spin lock.  Bytes *)
(* and registers are abstracted; failures of the device change nothing,    *)
(* since every path answers all the same.  Guests are connected already.   *)
(***************************************************************************)
EXTENDS XenRing

CONSTANTS
    Workloads   \* where a run may start: what the guests will request, the module
                \* parameter reqs, how often kernel_recvmsg returns, and whether the
                \* machine may stop kernel threads of its own meanwhile

ASSUME NetAssumption ==
    Workloads \subseteq
        [script : Scripts, reqs : Nat \ {0}, datagrams : Nat, foreign_stop : BOOLEAN]

VARIABLES
    irq, rp,                    \* each guest's event handler: its place, its req_prod
    resp,                       \* the ids in the responses that each guest's rounds allocated
    reqs, pending_free,         \* number of pending requests, and of the free ones
    foreign_stop,               \* threads of others may be told to stop
    native_queue,
    reqthrd, task,              \* reqthread: its place and its task
    conthrd, received,          \* conthread, and how often kernel_recvmsg has returned
    datagrams,                  \* how often it is to
    remote_buf, card,           \* whose data, or result, is in the buffer and in the card
    sendtocli_queue,
    overrun,                    \* a datagram came before an earlier receive's task was served
    dom_exit                    \* how far the module's removal is

irq_vars    == <<irq, rp, resp, reqs, pending_free, foreign_stop>>
thread_vars == <<reqthrd, task>>
remote_vars == <<remote_buf, card, sendtocli_queue, overrun>>
con_vars    == <<conthrd, received, datagrams>>
vars == <<ring_vars, irq_vars, native_queue, thread_vars, con_vars, remote_vars, dom_exit>>

NativeTask == [type : {"native"}, data : Guests, req : Nat, resp : Nat]
RemoteTask == [type : {"remote"}, id : Nat]
Held       == [id : Nat, kind : {"data", "result", "reused"}]

TypeOK ==
    /\ RingTypeOK
    /\ irq \in [Guests -> {"idle", "gave_up", "snap", "scan", "queue", "ioctl", "fill", "send",
                           "put", "oops"}]
    /\ rp \in [Guests -> Nat] /\ resp \in [Guests -> Seq(Nat)]
    /\ reqs \in Nat /\ pending_free \in 0 .. reqs /\ foreign_stop \in BOOLEAN
    /\ native_queue \in Seq(NativeTask \cup RemoteTask)
    /\ reqthrd \in {"wait", "pop", "write", "fill", "send", "rwrite", "rread", "null", "oops"}
    /\ task \in NativeTask \cup RemoteTask
    /\ conthrd \in {"recv", "push", "fail"} /\ received \in Nat /\ datagrams \in Nat
    /\ remote_buf \in Held /\ card \in Held /\ sendtocli_queue \in Seq(RemoteTask)
    /\ overrun \in BOOLEAN /\ dom_exit \in {"no", "closed", "stop"}

NoData == [id |-> 0, kind |-> "data"]

Init ==
    /\ RingInit /\ \E w \in Workloads :
        /\ script = w.script /\ reqs = w.reqs /\ datagrams = w.datagrams
        /\ foreign_stop = w.foreign_stop
    /\ irq = [g \in Guests |-> "idle"] /\ rp = [g \in Guests |-> 0]
    /\ resp = [g \in Guests |-> <<>>] /\ pending_free = reqs
    /\ native_queue = <<>> /\ sendtocli_queue = <<>>
    /\ reqthrd = "wait" /\ task = [type |-> "remote", id |-> 0]
    /\ conthrd = "recv" /\ received = 0 /\ remote_buf = NoData /\ card = NoData
    /\ overrun = FALSE /\ dom_exit = "no"

IrqFrame    == UNCHANGED <<front_vars, native_queue, thread_vars, con_vars, remote_vars, reqs,
                           foreign_stop, dom_exit>>
ThreadFrame == UNCHANGED <<front_vars, req_vars, evt, irq, rp, reqs, pending_free, foreign_stop,
                           con_vars, dom_exit>>
QuietRing   == UNCHANGED <<rsp_vars, resp>>

FrontPost(g) ==
    Post(g) /\ UNCHANGED <<irq_vars, native_queue, thread_vars, con_vars, remote_vars, dom_exit>>

FrontRead(g) ==
    /\ FrontInterrupt(g)
    /\ UNCHANGED <<irq_vars, native_queue, thread_vars, con_vars, remote_vars, dom_exit>>

-----------------------------------------------------------------------------
(* chrif_interrupt: the loop of do_char_io_op, one handler per guest.      *)

Irq(g, from, to) == irq[g] = from /\ irq' = [irq EXCEPT ![g] = to]

Interrupt(g) ==
    /\ evt[g] /\ evt' = [evt EXCEPT ![g] = FALSE]
    /\ irq[g] \in {"idle", "gave_up"} /\ irq' = [irq EXCEPT ![g] = "snap"]
    /\ IrqFrame /\ QuietRing /\ UNCHANGED <<req_vars, rp, pending_free>>

(* A round allocates one response for all the requests it takes.           *)
Snapshot(g) ==
    /\ Irq(g, "snap", "scan") /\ rp' = [rp EXCEPT ![g] = req_prod[g]]
    /\ resp' = [resp EXCEPT ![g] = Append(@, 0)]
    /\ IrqFrame /\ UNCHANGED <<rsp_vars, req_vars, evt, pending_free>>

More(g) == req_cons[g] # rp[g] /\ ~ConsOverflow(g)

(* The switch; MAP has no response.                                        *)
Entry == [OPEN |-> "fill", WRITE |-> "queue", READ |-> "fill", IOCTL |-> "ioctl",
          CLOSE |-> "fill", MAP |-> "put", UNKNOWN |-> "fill"]

BugTakeUnallocated(g) ==
    /\ More(g) /\ Irq(g, "scan", Entry[script[g][req_cons[g] + 1]])
    /\ TakeRequest(g) /\ pending_free' = pending_free - 1
    /\ IrqFrame /\ QuietRing /\ UNCHANGED <<evt, rp>>

Take(g) ==
    /\ More(g) /\ pending_free > 0 /\ Irq(g, "scan", Entry[script[g][req_cons[g] + 1]])
    /\ TakeRequest(g) /\ pending_free' = pending_free - 1
    /\ IrqFrame /\ QuietRing /\ UNCHANGED <<evt, rp>>

(* kthread_should_stop, asked in interrupt context, answers for the thread *)
(* that was interrupted: it may say yes of reqthread once dom_exit has     *)
(* told it to stop (which it never does), or of a thread of somebody else. *)
MayBeStopping == dom_exit = "stop" \/ foreign_stop

(* It says yes, or alloc_req found nothing: the handler returns, with no   *)
(* last look at the ring and nobody to try again.                          *)
GiveUp(g) ==
    /\ More(g) /\ (pending_free = 0 \/ MayBeStopping) /\ Irq(g, "scan", "gave_up")
    /\ IrqFrame /\ QuietRing /\ UNCHANGED <<req_vars, evt, rp, pending_free>>

BugFinalCheckBlind(g) ==
    /\ ~More(g) /\ Irq(g, "scan", "idle") /\ AskForEvent(g)
    /\ IrqFrame /\ QuietRing /\ UNCHANGED <<evt, rp, pending_free>>

FinalCheck(g) ==
    /\ ~More(g)
    /\ \/ /\ Unconsumed(g) /\ ~ConsOverflow(g)
          /\ Irq(g, "scan", "snap") /\ UNCHANGED req_vars
       \/ /\ ~(Unconsumed(g) /\ ~ConsOverflow(g))
          /\ Irq(g, "scan", "idle") /\ AskForEvent(g)
    /\ IrqFrame /\ QuietRing /\ UNCHANGED <<evt, rp, pending_free>>

FreeReq(g) ==
    /\ Irq(g, "put", "scan") /\ pending_free' = pending_free + 1
    /\ IrqFrame /\ QuietRing /\ UNCHANGED <<req_vars, evt, rp>>

QueueWrite(g) ==
    /\ Irq(g, "queue", "put")
    /\ native_queue' = Append(native_queue,
            [type |-> "native", data |-> g, req |-> req_cons[g], resp |-> Len(resp[g])])
    /\ QuietRing /\ UNCHANGED <<front_vars, req_vars, evt, rp, reqs, pending_free, foreign_stop,
                                thread_vars, con_vars, remote_vars, dom_exit>>

(* A call of the device: once its file is closed, it may be the last.      *)
Calls(done) == IF dom_exit = "no" THEN {done} ELSE {done, "oops"}

(* do_ioctl_resp asks for statistics and answers whatever it is told.      *)
Ioctl(g) ==
    /\ \E to \in Calls("fill") : Irq(g, "ioctl", to)
    /\ IrqFrame /\ QuietRing /\ UNCHANGED <<req_vars, evt, rp, pending_free>>

(* xen_make_response fills the round's response before it takes the lock,  *)
(* from a request that is still in its slot of the ring: the slot's last   *)
(* writer may be a response, or a later request, and its id is read then.  *)
SlotId(g, n) ==
    LET last == req_prod[g] - ((req_prod[g] - n) % RingSize)
    IN  IF rsp_prod[g] >= last THEN rsp_id[g][last] ELSE last

Fill(g, n, r) == resp' = [resp EXCEPT ![g][r] = SlotId(g, n)]

Answer(g) ==
    /\ Irq(g, "fill", "send") /\ Fill(g, req_cons[g], Len(resp[g]))
    /\ IrqFrame /\ UNCHANGED <<rsp_vars, req_vars, evt, rp, pending_free>>

Send(g) ==
    /\ Irq(g, "send", "put") /\ PushResponse(g, resp[g][Len(resp[g])])
    /\ IrqFrame /\ UNCHANGED <<resp, req_vars, evt, rp, pending_free>>

-----------------------------------------------------------------------------
(* reqthread, dispath_native_queue.                                        *)

Thread(from, to) == reqthrd = from /\ reqthrd' = to

BugWaitTaskSpurious ==
    /\ Thread("wait", "pop")
    /\ ThreadFrame /\ QuietRing /\ UNCHANGED <<task, native_queue, remote_vars>>

WaitTask ==
    /\ native_queue # <<>> \/ dom_exit = "stop"
    /\ Thread("wait", "pop")
    /\ ThreadFrame /\ QuietRing /\ UNCHANGED <<task, native_queue, remote_vars>>

BugPopNewest ==
    /\ native_queue # <<>> /\ task' = native_queue[Len(native_queue)]
    /\ native_queue' = SubSeq(native_queue, 1, Len(native_queue) - 1)
    /\ Thread("pop", IF task'.type = "native" THEN "write" ELSE "rwrite")
    /\ ThreadFrame /\ QuietRing /\ UNCHANGED remote_vars

(* The element of a task, or that of NULL.                                 *)
Pop ==
    /\ \/ /\ native_queue # <<>>
          /\ task' = Head(native_queue) /\ native_queue' = Tail(native_queue)
          /\ Thread("pop", IF task'.type = "native" THEN "write" ELSE "rwrite")
       \/ native_queue = <<>> /\ Thread("pop", "null") /\ UNCHANGED <<task, native_queue>>
    /\ ThreadFrame /\ QuietRing /\ UNCHANGED remote_vars

(* do_write_resp, under op_pdma_lock, which nothing else takes: the device *)
(* encodes the guest's data and gives it back.                             *)
DoWrite ==
    /\ \E to \in Calls("fill") : Thread("write", to)
    /\ ThreadFrame /\ QuietRing /\ UNCHANGED <<task, native_queue, remote_vars>>

AnswerTask ==
    /\ Thread("fill", "send") /\ Fill(task.data, task.req, task.resp)
    /\ ThreadFrame /\ UNCHANGED <<rsp_vars, task, native_queue, remote_vars>>

BugSendTaskForgotten ==
    /\ Thread("send", "wait")
    /\ ThreadFrame /\ QuietRing /\ UNCHANGED <<task, native_queue, remote_vars>>

SendTask ==
    /\ Thread("send", "wait") /\ PushResponse(task.data, resp[task.data][task.resp])
    /\ ThreadFrame /\ UNCHANGED <<resp, task, native_queue, remote_vars>>

(* do_resp_remote_io_op: the buffer goes to the card, whatever it holds,   *)
(* and what comes back goes into the same buffer.                          *)
Worked(held) == [held EXCEPT !.kind = IF @ = "data" THEN "result" ELSE "reused"]

RemoteWrite ==
    /\ \E to \in Calls("rread") : Thread("rwrite", to)
    /\ card' = remote_buf
    /\ ThreadFrame /\ QuietRing
    /\ UNCHANGED <<task, native_queue, remote_buf, sendtocli_queue, overrun>>

RemoteRead ==
    /\ \/ /\ Thread("rread", "wait")
          /\ remote_buf' = Worked(card)
          /\ sendtocli_queue' = Append(sendtocli_queue, task)
       \/ /\ "oops" \in Calls("wait") /\ Thread("rread", "oops")
          /\ UNCHANGED <<remote_buf, sendtocli_queue>>
    /\ ThreadFrame /\ QuietRing /\ UNCHANGED <<task, native_queue, card, overrun>>

ReqThread == WaitTask \/ Pop \/ DoWrite \/ AnswerTask \/ SendTask \/ RemoteWrite \/ RemoteRead

-----------------------------------------------------------------------------
(* conthread, xen_sock_recvmsg_from_client: a datagram into the buffer, or *)
(* an error and nothing, which is only printed ...                         *)

Serving == {"write", "fill", "send", "rwrite", "rread"}
Tasks   == {native_queue[i] : i \in DOMAIN native_queue}
           \cup (IF reqthrd \in Serving THEN {task} ELSE {})

Receive ==
    /\ conthrd = "recv" /\ received < datagrams /\ received' = received + 1
    /\ \/ /\ conthrd' = "push" /\ remote_buf' = [id |-> received + 1, kind |-> "data"]
          /\ overrun' = (overrun \/ \E t \in Tasks : t.type = "remote")
       \/ conthrd' = "fail" /\ UNCHANGED <<remote_buf, overrun>>
    /\ UNCHANGED <<ring_vars, irq_vars, native_queue, thread_vars, datagrams, card,
                   sendtocli_queue, dom_exit>>

(* ... and a task all the same, for that datagram or (0) for none.         *)
NewTask == [type |-> "remote", id |-> IF conthrd = "push" THEN received ELSE 0]

BugPushTwice ==
    /\ conthrd # "recv" /\ conthrd' \in {"recv", conthrd}
    /\ Len(native_queue) < 4 /\ native_queue' = Append(native_queue, NewTask)
    /\ UNCHANGED <<ring_vars, irq_vars, thread_vars, received, datagrams, remote_vars, dom_exit>>

PushRemote ==
    /\ conthrd # "recv" /\ conthrd' = "recv"
    /\ native_queue' = Append(native_queue, NewTask)
    /\ UNCHANGED <<ring_vars, irq_vars, thread_vars, received, datagrams, remote_vars, dom_exit>>

(* dom_exit closes the device file and then tells reqthread to stop, which *)
(* it never does.                                                          *)
Exit ==
    /\ \/ dom_exit = "no" /\ dom_exit' = "closed"
       \/ dom_exit = "closed" /\ dom_exit' = "stop"
    /\ UNCHANGED <<ring_vars, irq_vars, native_queue, thread_vars, con_vars, remote_vars>>

Handler(g) ==
    \/ Snapshot(g) \/ Take(g) \/ GiveUp(g) \/ FinalCheck(g) \/ FreeReq(g) \/ QueueWrite(g)
    \/ Ioctl(g) \/ Answer(g) \/ Send(g)

Next ==
    \/ \E g \in Guests : FrontPost(g) \/ FrontRead(g) \/ Interrupt(g) \/ Handler(g)
    \/ ReqThread \/ Receive \/ PushRemote \/ Exit

Spec == Init /\ [][Next]_vars

(* Interrupts are delivered and handlers run to their end, threads are     *)
(* scheduled; guests, other hosts and the administrator owe nothing.       *)
Fairness ==
    /\ \A g \in Guests : WF_vars(Interrupt(g)) /\ WF_vars(Handler(g))
    /\ WF_vars(ReqThread) /\ WF_vars(PushRemote)

FairSpec == Spec /\ Fairness

-----------------------------------------------------------------------------
(* A handler that has returned leaves no request behind without an event   *)
(* on the way (data.c:519-525), unless it gave up; and it gives up only if *)
(* the guests share too few pending requests (445) or kthread_should_stop  *)
(* may say yes of the interrupted thread (439).                            *)
RequestsSeen == \A g \in Guests :
    /\ irq[g] = "idle" /\ Unconsumed(g) => evt[g]
    /\ irq[g] = "gave_up" => reqs < Cardinality(Guests) \/ MayBeStopping

(* Until the module is removed, reqthread always finds the task it was     *)
(* woken for (data.c:798-805 makes a task of whatever it pops) and an open *)
(* device.                                                                 *)
ServesUntilExit == reqthrd \in {"null", "oops"} => dom_exit # "no"

(* As long as no datagram arrives while the task of an earlier receive is  *)
(* queued or served, the card works on the data of the datagram its task   *)
(* was queued for, if that was not a failed receive (data.c:656), and the  *)
(* buffer keeps the result of the task served last, if that was none       *)
(* either, until a later datagram arrives (data.c:828: "design of          *)
(* xen_remote->remote_buf just suit for one no_dev_dom0").                 *)
OwnDataUntilOverrun ==
    \/ overrun
    \/ /\ reqthrd = "rread" /\ task.id # 0 => card = [id |-> task.id, kind |-> "data"]
       /\ sendtocli_queue # <<>> =>
            LET last == sendtocli_queue[Len(sendtocli_queue)].id
            IN  last # 0 /\ remote_buf.id <= last => remote_buf = [id |-> last, kind |-> "result"]

(* The requests of a guest that were taken and neither answered nor given  *)
(* up.                                                                     *)
Outstanding(g) ==
    Cardinality({i \in DOMAIN native_queue :
                    native_queue[i].type = "native" /\ native_queue[i].data = g})
    + Cardinality({t \in {task} : reqthrd \in {"write", "fill", "send", "oops"}
                                   /\ t.type = "native" /\ t.data = g})
    + (IF irq[g] \in {"queue", "ioctl", "fill", "send", "oops"} THEN 1 ELSE 0)

Dealt(g) == req_cons[g] - Outstanding(g)

(* Every request that is dealt with and wants an answer has one response   *)
(* (data.c:234-263), also when it shares the response structure of its     *)
(* round with others (427) or has lost its slot to an earlier response.    *)
OneResponseEach == \A g \in Guests : dom_exit = "no" =>
    rsp_prod[g] = Dealt(g) - Cardinality({n \in 1 .. req_cons[g] : script[g][n] = "MAP"})

(* A front end that asks for something else while a WRITE is queued.       *)
Mixes(g) == \E n \in DOMAIN script[g] : \E m \in 1 .. n - 1 :
    script[g][m] = "WRITE" /\ script[g][n] # "WRITE"

(* To every guest that does not mix, the back end is the abstract server:  *)
(* handler and thread together answer in order, once, and under the        *)
(* request's own id, which is read from the ring as late as 244.           *)
Server == INSTANCE CharServer WITH
    Silent <- {"MAP"}, kinds <- script,
    posted <- [g \in Guests |-> IF Mixes(g) THEN 0 ELSE req_prod[g]],
    dealt <- [g \in Guests |-> IF Mixes(g) THEN 0 ELSE Dealt(g)],
    answers <- [g \in Guests |-> IF Mixes(g) THEN <<>> ELSE rsp_id[g]]

ImplementsServer == Server!Spec

(* Until the module is removed, every request is dealt with, the queued    *)
(* WRITEs (data.c:459-487) among them, unless its handler gave up, and     *)
(* every return of kernel_recvmsg comes to a result (660-669, 605).        *)
EverythingServed ==
    /\ \A g \in Guests : req_prod[g] # Dealt(g) ~>
            req_prod[g] = Dealt(g) \/ irq[g] = "gave_up" \/ dom_exit # "no"
    /\ received # Len(sendtocli_queue) ~>
            received = Len(sendtocli_queue) \/ dom_exit # "no"
=============================================================================
