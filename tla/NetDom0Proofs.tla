---------------------------- MODULE NetDom0Proofs ---------------------------
(***************************************************************************)
(* Proofs about NetDom0 for any number of guests, ring and pool sizes, any *)
(* requests and any number of datagrams, in this order: no request is left *)
(* unseen by a handler that took its last look, and one that gives up had  *)
(* its reason; reqthread finds a task whenever it is woken; every variable *)
(* keeps its type; the card works on its own task's data as long as no     *)
(* datagram comes before the tasks of the receives before it are served;   *)
(* every request that wants one gets one response; and the back end        *)
(* implements the abstract server, CharServer.                             *)
(***************************************************************************)
EXTENDS NetDom0, TLAPS, FiniteSetTheorems, SequenceTheorems

USE DEF Irq, IrqFrame, QuietRing, ThreadFrame, Thread, front_vars, rsp_vars, req_vars, ring_vars,
        irq_vars, thread_vars, con_vars, remote_vars

-----------------------------------------------------------------------------
(* reqthread.  What the queue holds and the thread serves are tasks, those *)
(* of guests among them name one; and whenever the thread is woken there   *)
(* is a task to pop or the module is on its way out.                       *)
QueueTyped ==
    \E S : (\A t \in S : t.type = "native" => t.data \in Guests) /\ native_queue \in Seq(S)

ThreadInv ==
    /\ QueueTyped
    /\ reqthrd \in {"write", "fill", "send"} => task.data \in Guests
    /\ reqthrd = "pop" => native_queue # <<>> \/ dom_exit = "stop"
    /\ ServesUntilExit

(* A task appended keeps the queue typed, and not empty.                   *)
LEMMA Appended ==
    ASSUME QueueTyped, NEW t, t.type = "native" => t.data \in Guests,
           native_queue' = Append(native_queue, t)
    PROVE  QueueTyped' /\ native_queue' # <<>>
<1>1. PICK S : (\A u \in S : u.type = "native" => u.data \in Guests) /\ native_queue \in Seq(S)
    BY DEF QueueTyped
<1> DEFINE U == S \cup {t}
<1>2. native_queue \in Seq(U)
    <2>1. Len(native_queue) \in Nat /\ native_queue \in [1 .. Len(native_queue) -> S]
        BY <1>1, LenProperties
    <2>2. native_queue \in [1 .. Len(native_queue) -> U]
        BY <2>1
    <2> QED BY <2>1, <2>2, SeqDef
<1>3. t \in U /\ \A u \in U : u.type = "native" => u.data \in Guests
    BY <1>1
<1> HIDE DEF U
<1>4. Append(native_queue, t) \in Seq(U) /\ Append(native_queue, t) # <<>>
    BY <1>2, <1>3, AppendProperties
<1> QED BY <1>3, <1>4 DEF QueueTyped

(* The first task popped is a task, and those behind it stay.              *)
LEMMA Popped ==
    ASSUME QueueTyped, native_queue # <<>>
    PROVE  /\ Head(native_queue).type = "native" => Head(native_queue).data \in Guests
           /\ native_queue' = Tail(native_queue) => QueueTyped'
<1>1. PICK S : (\A u \in S : u.type = "native" => u.data \in Guests) /\ native_queue \in Seq(S)
    BY DEF QueueTyped
<1>2. Head(native_queue) \in S /\ Tail(native_queue) \in Seq(S)
    BY <1>1, HeadTailProperties
<1> QED BY <1>1, <1>2 DEF QueueTyped

(* No step leaves reqthread to pop an empty queue or call a closed device. *)
LEMMA ThreadStep ==
    ASSUME ThreadInv, [Next]_vars
    PROVE  ThreadInv'
<1> USE DEF ThreadInv, ServesUntilExit
<1>1. ASSUME UNCHANGED <<native_queue, thread_vars, dom_exit>>
      PROVE  ThreadInv'
    BY <1>1 DEF QueueTyped
<1>2. CASE UNCHANGED vars
    BY <1>1, <1>2 DEF vars
<1>3. CASE \E g \in Guests : QueueWrite(g)
    <2>1. PICK g \in Guests : QueueWrite(g)
        BY <1>3
    <2> DEFINE t == [type |-> "native", data |-> g, req |-> req_cons[g], resp |-> Len(resp[g])]
    <2>2. native_queue' = Append(native_queue, t) /\ UNCHANGED <<thread_vars, dom_exit>>
        BY <2>1 DEF QueueWrite
    <2>3. t.data \in Guests
        OBVIOUS
    <2> HIDE DEF t
    <2>4. QueueTyped' /\ native_queue' # <<>>
        BY <2>2, <2>3, Appended
    <2> QED BY <2>2, <2>4
<1>4. CASE PushRemote
    <2> DEFINE t == NewTask
    <2>1. native_queue' = Append(native_queue, t) /\ UNCHANGED <<thread_vars, dom_exit>>
        BY <1>4 DEF PushRemote
    <2>2. t.type # "native"
        BY DEF NewTask
    <2> HIDE DEF t
    <2>3. QueueTyped' /\ native_queue' # <<>>
        BY <2>1, <2>2, Appended
    <2> QED BY <2>1, <2>3
<1>5. CASE \E g \in Guests : FrontPost(g) \/ FrontRead(g) \/ Interrupt(g)
                             \/ (Handler(g) /\ ~QueueWrite(g))
    <2>1. UNCHANGED <<native_queue, thread_vars, dom_exit>>
        BY <1>5 DEF FrontPost, FrontRead, Interrupt, Handler, Snapshot, Take, GiveUp,
           FinalCheck, FreeReq,
                    Ioctl, Answer, Send
    <2> QED BY <1>1, <2>1
<1>6. CASE Receive
    BY <1>1, <1>6 DEF Receive
<1>7. CASE Exit
    BY <1>7 DEF Exit, QueueTyped
<1>8. CASE WaitTask
    BY <1>8 DEF WaitTask, QueueTyped
<1>9. CASE Pop
    <2>1. CASE native_queue # <<>>
        <3>1. /\ task' = Head(native_queue) /\ native_queue' = Tail(native_queue)
              /\ dom_exit' = dom_exit
              /\ reqthrd' = IF task'.type = "native" THEN "write" ELSE "rwrite"
            BY <1>9, <2>1 DEF Pop
        <3>2. QueueTyped' /\ (task'.type = "native" => task'.data \in Guests)
            BY <2>1, <3>1, Popped
        <3> QED BY <3>1, <3>2
    <2>2. CASE native_queue = <<>>
        BY <1>9, <2>2 DEF Pop, QueueTyped
    <2> QED BY <2>1, <2>2
<1>10. CASE DoWrite \/ AnswerTask \/ SendTask \/ RemoteWrite \/ RemoteRead
    <2>1. UNCHANGED <<native_queue, task, dom_exit>>
        BY <1>10 DEF DoWrite, AnswerTask, SendTask, RemoteWrite, RemoteRead
    <2>2. /\ reqthrd' \in {"fill", "send", "rread", "wait", "oops"}
          /\ reqthrd' \in {"fill", "send"} => reqthrd \in {"write", "fill"}
          /\ reqthrd' = "oops" => dom_exit # "no"
        BY <1>10 DEF DoWrite, AnswerTask, SendTask, RemoteWrite, RemoteRead, Calls
    <2> QED BY <2>1, <2>2 DEF QueueTyped
<1> QED BY <1>2, <1>3, <1>4, <1>5, <1>6, <1>7, <1>8, <1>9, <1>10 DEF Next, ReqThread, Handler

(* The three hold together in every state of the queue's producers and of  *)
(* its consumer (data.c:459-487, 605-669, 774-813).                        *)
THEOREM ThreadFindsTasks == Spec => []ThreadInv
<1>1. Init => ThreadInv
    <2>1. Init => QueueTyped
        <3> SUFFICES ASSUME Init PROVE QueueTyped
            OBVIOUS
        <3>1. native_queue \in Seq({})
            BY EmptySeq DEF Init
        <3> QED BY <3>1 DEF QueueTyped
    <2> QED BY <2>1 DEF Init, ThreadInv, ServesUntilExit
<1>2. ThreadInv /\ [Next]_vars => ThreadInv'
    BY ThreadStep
<1> QED BY <1>1, <1>2, PTL DEF Spec

(* reqthread meets neither an empty queue nor a closed device before the   *)
(* module is removed: what woke it is still there when it pops             *)
(* (data.c:798-813), since nothing else consumes the queue.                *)
THEOREM ServesUntilTheExit == Spec => []ServesUntilExit
BY ThreadFindsTasks, PTL DEF ThreadInv

-----------------------------------------------------------------------------
(* Where a handler holds a pending request, and where it may be at all.    *)
InSwitch  == {"queue", "ioctl", "fill", "send", "put", "oops"}
IrqPlaces == {"idle", "gave_up", "snap", "scan"} \cup InSwitch

(* The types the arguments below need.                                     *)
NetTypes ==
    /\ script \in Scripts
    /\ req_prod \in [Guests -> Nat] /\ req_event \in [Guests -> Nat] /\ req_cons \in [Guests -> Nat]
    /\ rsp_prod \in [Guests -> Nat] /\ rsp_cons \in [Guests -> Nat] /\ rp \in [Guests -> Nat]
    /\ evt \in [Guests -> BOOLEAN] /\ irq \in [Guests -> IrqPlaces]
    /\ reqs \in Nat /\ pending_free \in Int

(* The indexes of a ring never pass one another, and the front end keeps   *)
(* within the slots it knows to be free.                                   *)
IndexesAt(g) ==
    /\ rsp_cons[g] <= rsp_prod[g] /\ req_cons[g] <= rp[g] /\ rp[g] <= req_prod[g]
    /\ req_prod[g] <= Len(script[g]) /\ req_prod[g] - rsp_cons[g] <= RingSize

Indexes == \A g \in Guests : IndexesAt(g)

(* Every handler in the switch holds one pending request, the rest is free.*)
Account == pending_free + Cardinality({g \in Guests : irq[g] \in InSwitch}) = reqs

NetInv == NetTypes /\ Indexes /\ Account

-----------------------------------------------------------------------------
(* The steps of the threads, the remote end and the removal leave what the *)
(* handlers work on alone, but for the responses they push.                *)
Elsewhere == ReqThread \/ Receive \/ PushRemote \/ Exit

(* The threads and the removal leave requests and handlers alone.          *)
LEMMA ElsewhereKeeps ==
    ASSUME ThreadInv, Elsewhere
    PROVE  /\ UNCHANGED <<script, req_prod, req_event, req_cons, rsp_cons, evt, irq, rp, reqs, pending_free>>
           /\ rsp_prod' = rsp_prod \/ \E g \in Guests : rsp_prod' = [rsp_prod EXCEPT ![g] = @ + 1]
<1>1. CASE Receive \/ PushRemote \/ Exit
    BY <1>1 DEF Receive, PushRemote, Exit
<1>2. CASE ReqThread
    <2>1. CASE SendTask
        <3>1. task.data \in Guests
            BY <2>1 DEF ThreadInv, SendTask
        <3> QED BY <2>1, <3>1 DEF SendTask, PushResponse
    <2>2. CASE ~SendTask
        BY <1>2, <2>2 DEF ReqThread, WaitTask, Pop, DoWrite, AnswerTask, RemoteWrite, RemoteRead
    <2> QED BY <2>1, <2>2
<1> QED BY <1>1, <1>2 DEF Elsewhere

(* A response more never breaks the order of the indexes.                  *)
LEMMA PushKeeps ==
    ASSUME NetTypes, NEW g \in Guests, rsp_prod' = [rsp_prod EXCEPT ![g] = @ + 1]
    PROVE  /\ rsp_prod' \in [Guests -> Nat]
           /\ \A h \in Guests : rsp_prod'[h] >= rsp_prod[h]
BY DEF NetTypes

(* The steps of a guest's handler once it holds a request.                 *)
Within(g) == FreeReq(g) \/ QueueWrite(g) \/ Ioctl(g) \/ Answer(g) \/ Send(g)

(* The steps of a handler, those within the switch as one.                 *)
LEMMA HandlerSteps ==
    ASSUME NEW g \in Guests
    PROVE  Handler(g) <=> Snapshot(g) \/ Take(g) \/ GiveUp(g) \/ FinalCheck(g) \/ Within(g)
BY DEF Handler, Within

(* A step within the switch takes nothing and answers at most once.        *)
LEMMA WithinKeeps ==
    ASSUME NetTypes, NEW g \in Guests, Within(g)
    PROVE  /\ UNCHANGED <<script, req_prod, req_event, req_cons, rsp_cons, evt, rp, reqs>>
           /\ rsp_prod' = rsp_prod \/ rsp_prod' = [rsp_prod EXCEPT ![g] = @ + 1]
           /\ irq[g] \in InSwitch
           /\ \/ \E to \in InSwitch : irq' = [irq EXCEPT ![g] = to] /\ pending_free' = pending_free
              \/ irq' = [irq EXCEPT ![g] = "scan"] /\ pending_free' = pending_free + 1
<1> USE DEF InSwitch
<1>1. CASE FreeReq(g)
    BY <1>1 DEF FreeReq
<1>2. CASE QueueWrite(g)
    BY <1>2 DEF QueueWrite
<1>3. CASE Ioctl(g)
    BY <1>3 DEF Ioctl, Calls
<1>4. CASE Answer(g)
    BY <1>4 DEF Answer
<1>5. CASE Send(g)
    BY <1>5 DEF Send, PushResponse
<1> QED BY <1>1, <1>2, <1>3, <1>4, <1>5 DEF Within

-----------------------------------------------------------------------------
(* A request taken is one that was posted.                                 *)
LEMMA TakenIsOp ==
    ASSUME NetTypes, Indexes, NEW g \in Guests, More(g)
    PROVE  /\ req_cons[g] < rp[g] /\ script[g][req_cons[g] + 1] \in Ops
           /\ Entry[script[g][req_cons[g] + 1]] \in InSwitch
<1>1. script[g] \in Seq(Ops) /\ Len(script[g]) \in Nat
    BY RingAssumption, LenProperties DEF NetTypes
<1>2. req_cons[g] \in Nat /\ rp[g] \in Nat /\ req_prod[g] \in Nat /\ IndexesAt(g)
    BY DEF NetTypes, Indexes
<1>3. req_cons[g] < rp[g] /\ req_cons[g] + 1 \in 1 .. Len(script[g])
    BY <1>1, <1>2 DEF More, IndexesAt
<1>4. script[g][req_cons[g] + 1] \in Ops
    BY <1>1, <1>3
<1> QED BY <1>3, <1>4 DEF Ops, Entry, InSwitch

(* Moving one handler moves at most one in or out of the switch.           *)
LEMMA SwitchMoves ==
    ASSUME irq \in [Guests -> IrqPlaces], NEW g \in Guests, NEW to, irq' = [irq EXCEPT ![g] = to],
           NEW n, n = Cardinality({h \in Guests : irq[h] \in InSwitch}),
           NEW m, m = Cardinality({h \in Guests : irq'[h] \in InSwitch})
    PROVE  /\ n \in Nat /\ m \in Nat
           /\ (irq[g] \in InSwitch <=> to \in InSwitch) => m = n
           /\ (irq[g] \notin InSwitch /\ to \in InSwitch) => m = n + 1
           /\ (irq[g] \in InSwitch /\ to \notin InSwitch) => n = m + 1
<1> DEFINE S == {h \in Guests : irq[h] \in InSwitch}
           T == {h \in Guests : irq'[h] \in InSwitch}
<1>1. IsFiniteSet(S) /\ IsFiniteSet(T)
    BY RingAssumption, FS_Subset
<1>2. n \in Nat /\ m \in Nat
    BY <1>1, FS_CardinalityType
<1>3. CASE irq[g] \in InSwitch <=> to \in InSwitch
    BY <1>2, <1>3, S = T
<1>4. CASE irq[g] \notin InSwitch /\ to \in InSwitch
    <2>1. T = S \cup {g} /\ g \notin S
        BY <1>4
    <2> QED BY <1>1, <1>2, <1>4, <2>1, FS_AddElement
<1>5. CASE irq[g] \in InSwitch /\ to \notin InSwitch
    <2>1. S = T \cup {g} /\ g \notin T
        BY <1>5
    <2> QED BY <1>1, <1>2, <1>5, <2>1, FS_AddElement
<1> QED BY <1>2, <1>3, <1>4, <1>5

(* With a pending request for each guest, alloc_req cannot fail: the       *)
(* handler that asks holds none.                                           *)
LEMMA AllocSucceeds ==
    ASSUME NetInv, NEW g \in Guests, irq[g] \notin InSwitch, pending_free = 0
    PROVE  reqs < Cardinality(Guests)
<1> DEFINE S == {h \in Guests : irq[h] \in InSwitch}
<1>0. Cardinality(S) \in Nat
    BY FS_CardinalityType, RingAssumption, FS_Subset
<1>1. Cardinality(S) = reqs
    BY <1>0 DEF NetInv, NetTypes, Account
<1>2. S \subseteq Guests /\ S # Guests /\ IsFiniteSet(Guests)
    BY RingAssumption
<1>3. Cardinality(S) <= Cardinality(Guests) /\ (Cardinality(S) = Cardinality(Guests) => S = Guests)
    BY <1>2, FS_Subset
<1>4. Cardinality(S) \in Nat /\ Cardinality(Guests) \in Nat
    BY <1>2, FS_Subset, FS_CardinalityType
<1> QED BY <1>1, <1>2, <1>3, <1>4

-----------------------------------------------------------------------------
(* NetInv is preserved.                                                    *)
LEMMA ElsewhereNet ==
    ASSUME ThreadInv, NetInv, Elsewhere
    PROVE  NetInv'
<1>0. NetTypes /\ Indexes /\ Account
    BY DEF NetInv
<1>1. /\ UNCHANGED <<script, req_prod, req_event, req_cons, rsp_cons, evt, irq, rp, reqs, pending_free>>
      /\ rsp_prod' \in [Guests -> Nat] /\ \A h \in Guests : rsp_prod'[h] >= rsp_prod[h]
    <2>1. CASE rsp_prod' = rsp_prod
        BY <1>0, <2>1, ElsewhereKeeps DEF NetTypes
    <2>2. CASE \E g \in Guests : rsp_prod' = [rsp_prod EXCEPT ![g] = @ + 1]
        BY <1>0, <2>2, ElsewhereKeeps, PushKeeps
    <2> QED BY <2>1, <2>2, ElsewhereKeeps
<1>2. NetTypes'
    BY <1>0, <1>1 DEF NetTypes
<1>3. Indexes'
    BY <1>0, <1>1 DEF NetTypes, Indexes, IndexesAt
<1>4. Account'
    BY <1>0, <1>1 DEF Account
<1> QED BY <1>2, <1>3, <1>4 DEF NetInv

(* Front ends and event channels keep types, indexes and account.          *)
LEMMA OutsideNet ==
    ASSUME NetInv, NEW g \in Guests, FrontPost(g) \/ FrontRead(g) \/ Interrupt(g)
    PROVE  NetInv'
<1>0. NetTypes /\ Indexes /\ Account
    BY DEF NetInv
<1>1. CASE FrontPost(g)
    <2>1. /\ req_prod' = [req_prod EXCEPT ![g] = @ + 1] /\ evt' \in [Guests -> BOOLEAN]
          /\ UNCHANGED <<script, req_event, req_cons, rsp_prod, rsp_cons, rp, irq, reqs, pending_free>>
          /\ req_prod[g] < Len(script[g]) /\ req_prod[g] - rsp_cons[g] < RingSize
        BY <1>0, <1>1 DEF FrontPost, Post, NetTypes
    <2>2. req_prod' \in [Guests -> Nat]
        BY <1>0, <2>1 DEF NetTypes
    <2>3. NetTypes'
        BY <1>0, <2>1, <2>2 DEF NetTypes
    <2>4. Len(script[g]) \in Nat /\ RingSize \in Nat
        BY <1>0, RingAssumption, LenProperties DEF NetTypes
    <2>5. IndexesAt(g)'
        BY <1>0, <2>1, <2>4 DEF NetTypes, Indexes, IndexesAt
    <2>6. \A h \in Guests \ {g} : IndexesAt(h)'
        BY <1>0, <2>1 DEF NetTypes, Indexes, IndexesAt
    <2>7. Account'
        BY <1>0, <2>1 DEF Account
    <2> QED BY <2>3, <2>5, <2>6, <2>7 DEF NetInv, Indexes
<1>2. CASE FrontRead(g)
    <2>1. /\ rsp_cons' = [rsp_cons EXCEPT ![g] = rsp_prod[g]]
          /\ UNCHANGED <<script, req_prod, req_event, req_cons, rsp_prod, evt, rp, irq, reqs, pending_free>>
        BY <1>2 DEF FrontRead, FrontInterrupt
    <2>2. NetTypes'
        BY <1>0, <2>1 DEF NetTypes
    <2>3. \A h \in Guests : IndexesAt(h)'
        <3> SUFFICES ASSUME NEW h \in Guests PROVE IndexesAt(h)'
            OBVIOUS
        <3>1. rsp_cons'[h] \in {rsp_cons[h], rsp_prod[h]} /\ rsp_cons'[h] >= rsp_cons[h]
            BY <1>0, <2>1 DEF NetTypes, Indexes, IndexesAt
        <3>2. {req_prod[h], rsp_cons[h], rsp_prod[h], RingSize} \subseteq Nat
            BY <1>0, RingAssumption DEF NetTypes
        <3> QED BY <1>0, <2>1, <3>1, <3>2 DEF Indexes, IndexesAt
    <2>4. Account'
        BY <1>0, <2>1 DEF Account
    <2> QED BY <2>2, <2>3, <2>4 DEF NetInv, Indexes
<1>3. CASE Interrupt(g)
    <2>1. /\ irq[g] \in {"idle", "gave_up"}
          /\ irq' = [irq EXCEPT ![g] = "snap"] /\ evt' = [evt EXCEPT ![g] = FALSE]
          /\ UNCHANGED <<script, req_prod, req_event, req_cons, rsp_prod, rsp_cons, rp, reqs, pending_free>>
        BY <1>3 DEF Interrupt
    <2>2. NetTypes'
        BY <1>0, <2>1 DEF NetTypes, IrqPlaces
    <2>3. Indexes'
        BY <1>0, <2>1 DEF Indexes, IndexesAt
    <2>4. Account'
        <3>1. {h \in Guests : irq'[h] \in InSwitch} = {h \in Guests : irq[h] \in InSwitch}
            BY <1>0, <2>1 DEF NetTypes, InSwitch
        <3> QED BY <1>0, <2>1, <3>1 DEF Account
    <2> QED BY <2>2, <2>3, <2>4 DEF NetInv
<1> QED BY <1>1, <1>2, <1>3

(* A handler that enters the switch allocates, one that leaves it frees.   *)
LEMMA HandlerAccount ==
    ASSUME NetInv, NEW g \in Guests, NEW to, irq' = [irq EXCEPT ![g] = to], reqs' = reqs,
           \/ (irq[g] \in InSwitch <=> to \in InSwitch) /\ pending_free' = pending_free
           \/ irq[g] \notin InSwitch /\ to \in InSwitch /\ pending_free' = pending_free - 1
           \/ irq[g] \in InSwitch /\ to \notin InSwitch /\ pending_free' = pending_free + 1
    PROVE  Account'
<1> DEFINE n == Cardinality({h \in Guests : irq[h] \in InSwitch})
           m == Cardinality({h \in Guests : irq'[h] \in InSwitch})
<1>1. /\ n \in Nat /\ m \in Nat
      /\ (irq[g] \in InSwitch <=> to \in InSwitch) => m = n
      /\ (irq[g] \notin InSwitch /\ to \in InSwitch) => m = n + 1
      /\ (irq[g] \in InSwitch /\ to \notin InSwitch) => n = m + 1
    BY SwitchMoves DEF NetInv, NetTypes
<1>2. pending_free \in Int /\ reqs \in Nat /\ pending_free + n = reqs
    BY DEF NetInv, NetTypes, Account
<1> SUFFICES pending_free' + m = reqs'
    BY DEF Account
<1> HIDE DEF n, m
<1> QED BY <1>1, <1>2

(* A handler's steps keep types, indexes and account.                      *)
LEMMA HandlerNet ==
    ASSUME NetInv, NEW g \in Guests, Handler(g)
    PROVE  NetInv'
<1>0. NetTypes /\ Indexes /\ Account /\ irq \in [Guests -> IrqPlaces]
    BY DEF NetInv, NetTypes
<1>1. CASE Snapshot(g)
    <2>1. /\ irq[g] = "snap" /\ irq' = [irq EXCEPT ![g] = "scan"]
          /\ rp' = [rp EXCEPT ![g] = req_prod[g]]
          /\ UNCHANGED <<script, req_prod, req_event, req_cons, rsp_prod, rsp_cons, evt, reqs, pending_free>>
        BY <1>1 DEF Snapshot
    <2>2. NetTypes'
        BY <1>0, <2>1 DEF NetTypes, IrqPlaces
    <2>3. Indexes'
        <3>1. req_cons[g] \in Nat /\ rp[g] \in Nat /\ req_prod[g] \in Nat /\ IndexesAt(g)
            BY <1>0 DEF NetTypes, Indexes
        <3>2. rp'[g] = req_prod[g] /\ \A h \in Guests \ {g} : rp'[h] = rp[h]
            BY <1>0, <2>1 DEF NetTypes
        <3>3. IndexesAt(g)'
            BY <2>1, <3>1, <3>2 DEF IndexesAt
        <3>4. \A h \in Guests \ {g} : IndexesAt(h)'
            BY <1>0, <2>1, <3>2 DEF Indexes, IndexesAt
        <3> QED BY <3>3, <3>4 DEF Indexes
    <2>4. Account'
        BY <2>1, HandlerAccount DEF InSwitch
    <2> QED BY <2>2, <2>3, <2>4 DEF NetInv
<1>2. CASE Take(g)
    <2> DEFINE to == Entry[script[g][req_cons[g] + 1]]
    <2>1. /\ irq[g] = "scan" /\ irq' = [irq EXCEPT ![g] = to]
          /\ req_cons' = [req_cons EXCEPT ![g] = @ + 1] /\ pending_free' = pending_free - 1
          /\ UNCHANGED <<script, req_prod, req_event, rsp_prod, rsp_cons, evt, rp, reqs>>
        BY <1>2 DEF Take, TakeRequest
    <2>2. to \in InSwitch /\ req_cons[g] < rp[g]
        BY <1>0, <1>2, TakenIsOp DEF Take
    <2> HIDE DEF to
    <2>3. NetTypes'
        BY <1>0, <2>1, <2>2 DEF NetTypes, IrqPlaces
    <2>4. Indexes'
        BY <1>0, <2>1, <2>2 DEF NetTypes, Indexes, IndexesAt
    <2>5. Account'
        <3>1. irq[g] \notin InSwitch
            BY <2>1 DEF InSwitch
        <3> QED BY <2>1, <2>2, <3>1, HandlerAccount
    <2> QED BY <2>3, <2>4, <2>5 DEF NetInv
<1>3. CASE GiveUp(g)
    <2>1. /\ irq[g] = "scan" /\ irq' = [irq EXCEPT ![g] = "gave_up"]
          /\ UNCHANGED <<script, req_prod, req_event, req_cons, rsp_prod, rsp_cons, evt, rp, reqs, pending_free>>
        BY <1>3 DEF GiveUp
    <2>2. NetTypes'
        BY <1>0, <2>1 DEF NetTypes, IrqPlaces
    <2>3. Indexes'
        BY <1>0, <2>1 DEF Indexes, IndexesAt
    <2>4. Account'
        BY <2>1, HandlerAccount DEF InSwitch
    <2> QED BY <2>2, <2>3, <2>4 DEF NetInv
<1>4. CASE FinalCheck(g)
    <2>1. /\ irq[g] = "scan"
          /\ UNCHANGED <<script, req_prod, req_cons, rsp_prod, rsp_cons, evt, rp, reqs, pending_free>>
          /\ req_event' = req_event \/ req_event' = [req_event EXCEPT ![g] = req_cons[g] + 1]
        BY <1>4 DEF FinalCheck, AskForEvent
    <2>2. PICK to \in {"snap", "idle"} : irq' = [irq EXCEPT ![g] = to]
        BY <1>4 DEF FinalCheck
    <2>3. req_event' \in [Guests -> Nat]
        BY <1>0, <2>1 DEF NetTypes
    <2>4. NetTypes'
        BY <1>0, <2>1, <2>2, <2>3 DEF NetTypes, IrqPlaces
    <2>5. Indexes'
        BY <1>0, <2>1 DEF Indexes, IndexesAt
    <2>6. Account'
        BY <2>1, <2>2, HandlerAccount DEF InSwitch
    <2> QED BY <2>4, <2>5, <2>6 DEF NetInv
<1>5. CASE Within(g)
    <2>1. /\ UNCHANGED <<script, req_prod, req_event, req_cons, rsp_cons, evt, rp, reqs>>
          /\ rsp_prod' = rsp_prod \/ rsp_prod' = [rsp_prod EXCEPT ![g] = @ + 1]
          /\ irq[g] \in InSwitch
        BY <1>0, <1>5, WithinKeeps
    <2>2. \E to \in InSwitch \cup {"scan"} :
            /\ irq' = [irq EXCEPT ![g] = to]
            /\ pending_free' = IF to = "scan" THEN pending_free + 1 ELSE pending_free
        BY <1>0, <1>5, WithinKeeps DEF InSwitch
    <2>3. PICK to \in InSwitch \cup {"scan"} :
            /\ irq' = [irq EXCEPT ![g] = to]
            /\ pending_free' = IF to = "scan" THEN pending_free + 1 ELSE pending_free
        BY <2>2
    <2>4. rsp_prod' \in [Guests -> Nat] /\ \A h \in Guests : rsp_prod'[h] >= rsp_prod[h]
        BY <1>0, <2>1, PushKeeps DEF NetTypes
    <2>5. NetTypes'
        <3>1. irq' \in [Guests -> IrqPlaces] /\ pending_free' \in Int
            BY <1>0, <2>3 DEF NetTypes, IrqPlaces
        <3>2. /\ rsp_prod' \in [Guests -> Nat]
              /\ UNCHANGED <<script, req_prod, req_event, req_cons, rsp_cons, evt, rp, reqs>>
            BY <2>1, <2>4
        <3> QED BY <1>0, <3>1, <3>2 DEF NetTypes
    <2>6. Indexes'
        BY <1>0, <2>1, <2>4 DEF NetTypes, Indexes, IndexesAt
    <2>7. Account'
        BY <2>1, <2>3, HandlerAccount DEF InSwitch
    <2> QED BY <2>5, <2>6, <2>7 DEF NetInv
<1> QED BY <1>1, <1>2, <1>3, <1>4, <1>5, HandlerSteps

(* No step breaks them.                                                    *)
LEMMA NetStep ==
    ASSUME ThreadInv, NetInv, [Next]_vars
    PROVE  NetInv'
<1>1. CASE UNCHANGED vars
    BY <1>1 DEF vars, NetInv, NetTypes, Indexes, IndexesAt, Account
<1>2. CASE Elsewhere
    BY <1>2, ElsewhereNet
<1>3. CASE \E g \in Guests : FrontPost(g) \/ FrontRead(g) \/ Interrupt(g)
    BY <1>3, OutsideNet
<1>4. CASE \E g \in Guests : Handler(g)
    BY <1>4, HandlerNet
<1> QED BY <1>1, <1>2, <1>3, <1>4 DEF Next, Elsewhere

(* They hold initially.                                                    *)
LEMMA InitNet == Init => NetInv
<1> SUFFICES ASSUME Init PROVE NetInv
    OBVIOUS
<1>1. PICK w \in Workloads : script = w.script /\ reqs = w.reqs
    BY DEF Init
<1>2. w.script \in Scripts /\ w.reqs \in Nat
    BY NetAssumption
<1>3. NetTypes
    BY <1>1, <1>2 DEF Init, RingInit, NetTypes, IrqPlaces
<1>4. Indexes
    <2>1. \A g \in Guests : Len(script[g]) \in Nat
        BY <1>3, RingAssumption, LenProperties DEF NetTypes
    <2> QED BY <2>1, RingAssumption DEF Init, RingInit, Indexes, IndexesAt
<1>5. Account
    <2>1. {g \in Guests : irq[g] \in InSwitch} = {} /\ pending_free = reqs /\ reqs \in Nat
        BY <1>1, <1>2 DEF Init, InSwitch
    <2> QED BY <2>1, FS_EmptySet DEF Account
<1> QED BY <1>3, <1>4, <1>5 DEF NetInv

(* The rings' indexes and the pool's account, in every state of            *)
(* do_char_io_op (data.c:411-527) and of the threads beside it.            *)
THEOREM HandlersAccounted == Spec => []NetInv
<1>1. ThreadInv /\ NetInv /\ [Next]_vars => NetInv'
    BY NetStep
<1> QED BY <1>1, InitNet, ThreadFindsTasks, PTL DEF Spec

-----------------------------------------------------------------------------
(* The wake-up protocol: a handler that has returned has seen all its ring *)
(* holds and is told of the next request, unless it gave up, and then      *)
(* there are fewer pending requests than guests or a thread is stopping.   *)
SeenAt(g) ==
    /\ irq[g] = "idle" => evt[g] \/ (req_prod[g] = req_cons[g] /\ req_event[g] = req_cons[g] + 1)
    /\ irq[g] = "gave_up" => reqs < Cardinality(Guests) \/ MayBeStopping

Seen == \A g \in Guests : SeenAt(g)

(* The number of pending requests never changes, and threads that are      *)
(* being stopped stay so.                                                  *)
LEMMA ReasonsStay ==
    ASSUME [Next]_vars
    PROVE  reqs' = reqs /\ foreign_stop' = foreign_stop /\ (MayBeStopping => MayBeStopping')
<1>1. reqs' = reqs /\ foreign_stop' = foreign_stop /\ (dom_exit' = dom_exit \/ Exit)
    <2>1. CASE ReqThread
        BY <2>1 DEF ReqThread, WaitTask, Pop, DoWrite, AnswerTask, SendTask, RemoteWrite, RemoteRead
    <2>2. CASE Receive \/ PushRemote \/ Exit \/ UNCHANGED vars
        BY <2>2 DEF Receive, PushRemote, Exit, vars
    <2>3. CASE \E g \in Guests : FrontPost(g) \/ FrontRead(g) \/ Interrupt(g)
        BY <2>3 DEF FrontPost, FrontRead, Interrupt
    <2>4. CASE \E g \in Guests : Handler(g)
        BY <2>4 DEF Handler, Snapshot, Take, GiveUp, FinalCheck, FreeReq, QueueWrite, Ioctl, Answer, Send
    <2> QED BY <2>1, <2>2, <2>3, <2>4 DEF Next
<1>2. Exit => dom_exit # "stop"
    BY DEF Exit
<1> QED BY <1>1, <1>2 DEF MayBeStopping

(* No step leaves a request unseen behind a handler that has returned.     *)
LEMMA SeenStep ==
    ASSUME ThreadInv, NetInv, Seen, [Next]_vars
    PROVE  Seen'
<1>0. NetTypes /\ Indexes /\ irq \in [Guests -> IrqPlaces] /\ evt \in [Guests -> BOOLEAN]
      /\ req_prod \in [Guests -> Nat] /\ req_cons \in [Guests -> Nat] /\ req_event \in [Guests -> Nat]
    BY DEF NetInv, NetTypes
<1>1. CASE UNCHANGED vars
    BY <1>1 DEF vars, Seen, SeenAt, MayBeStopping
<1>r. reqs' = reqs /\ (MayBeStopping => MayBeStopping')
    BY ReasonsStay
<1>2. CASE Elsewhere
    <2>1. UNCHANGED <<irq, evt, req_prod, req_cons, req_event>>
        BY <1>2, ElsewhereKeeps
    <2> QED BY <1>r, <2>1 DEF Seen, SeenAt
<1>3. ASSUME NEW g \in Guests, SeenAt(g)',
             \A h \in Guests \ {g} :
                UNCHANGED <<irq[h], evt[h], req_prod[h], req_cons[h], req_event[h]>>
      PROVE  Seen'
    BY <1>r, <1>3 DEF Seen, SeenAt
<1>4. CASE \E g \in Guests : FrontPost(g)
    <2>1. PICK g \in Guests : FrontPost(g)
        BY <1>4
    <2>2. /\ evt'[g] = (evt[g] \/ req_event[g] = req_prod[g] + 1)
          /\ UNCHANGED <<irq, req_cons, req_event>>
          /\ \A h \in Guests \ {g} : UNCHANGED <<evt[h], req_prod[h]>>
        BY <1>0, <2>1 DEF FrontPost, Post
    <2>3. SeenAt(g)'
        BY <1>r, <2>2 DEF Seen, SeenAt
    <2> QED BY <1>3, <2>2, <2>3
<1>5. CASE \E g \in Guests : FrontRead(g)
    <2>1. UNCHANGED <<irq, evt, req_prod, req_cons, req_event>>
        BY <1>5 DEF FrontRead, FrontInterrupt
    <2> QED BY <1>r, <2>1 DEF Seen, SeenAt
<1>6. CASE \E g \in Guests : Interrupt(g) \/ Snapshot(g) \/ Take(g) \/ Within(g)
    <2>1. PICK g \in Guests : Interrupt(g) \/ Snapshot(g) \/ Take(g) \/ Within(g)
        BY <1>6
    <2>2. \E to \in IrqPlaces \ {"idle", "gave_up"} : irq' = [irq EXCEPT ![g] = to]
        <3>1. CASE Interrupt(g) \/ Snapshot(g)
            BY <3>1 DEF Interrupt, Snapshot, IrqPlaces
        <3>2. CASE Take(g)
            BY <1>0, <3>2, TakenIsOp DEF Take, IrqPlaces, InSwitch
        <3>3. CASE Within(g)
            BY <1>0, <3>3, WithinKeeps DEF IrqPlaces, InSwitch
        <3> QED BY <2>1, <3>1, <3>2, <3>3
    <2>3. \A h \in Guests \ {g} : UNCHANGED <<evt[h], req_prod[h], req_cons[h], req_event[h]>>
        BY <1>0, <2>1, WithinKeeps DEF Interrupt, Snapshot, Take, TakeRequest
    <2>4. irq'[g] \notin {"idle", "gave_up"} /\ \A h \in Guests \ {g} : irq'[h] = irq[h]
        BY <1>0, <2>2
    <2> QED BY <1>3, <2>3, <2>4 DEF SeenAt
<1>7. CASE \E g \in Guests : GiveUp(g)
    <2>1. PICK g \in Guests : GiveUp(g)
        BY <1>7
    <2>2. irq[g] = "scan" /\ (pending_free = 0 \/ MayBeStopping)
        BY <2>1 DEF GiveUp
    <2>3. reqs < Cardinality(Guests) \/ MayBeStopping
        BY <2>2, AllocSucceeds DEF InSwitch
    <2>4. /\ UNCHANGED <<evt, req_prod, req_cons, req_event>>
          /\ irq'[g] = "gave_up" /\ \A h \in Guests \ {g} : irq'[h] = irq[h]
        BY <1>0, <2>1 DEF GiveUp
    <2>5. SeenAt(g)'
        BY <1>r, <2>3, <2>4 DEF SeenAt
    <2> QED BY <1>3, <2>4, <2>5
<1>8. CASE \E g \in Guests : FinalCheck(g)
    <2>1. PICK g \in Guests : FinalCheck(g)
        BY <1>8
    <2>2. ~ConsOverflow(g) \/ ~Unconsumed(g)
        <3>1. {req_prod[g], req_cons[g], rsp_prod[g], rsp_cons[g], rp[g], RingSize} \subseteq Nat
            BY <1>0, RingAssumption DEF NetTypes
        <3>2. IndexesAt(g)
            BY <1>0 DEF Indexes
        <3> QED BY <3>1, <3>2 DEF IndexesAt, ConsOverflow, Unconsumed
    <2>3. CASE irq' = [irq EXCEPT ![g] = "snap"] /\ UNCHANGED req_vars
        <3>1. /\ UNCHANGED <<evt, req_prod, req_cons, req_event>>
              /\ irq'[g] = "snap" /\ \A h \in Guests \ {g} : irq'[h] = irq[h]
            BY <1>0, <2>1, <2>3 DEF FinalCheck
        <3> QED BY <1>3, <3>1 DEF SeenAt
    <2>4. CASE ~Unconsumed(g) /\ irq' = [irq EXCEPT ![g] = "idle"] /\ AskForEvent(g)
        <3>1. /\ UNCHANGED <<evt, req_prod, req_cons>> /\ req_event'[g] = req_cons[g] + 1
              /\ irq'[g] = "idle" /\ \A h \in Guests \ {g} : irq'[h] = irq[h] /\ req_event'[h] = req_event[h]
            BY <1>0, <2>1, <2>4 DEF FinalCheck, AskForEvent
        <3>2. SeenAt(g)'
            BY <2>4, <3>1 DEF SeenAt, Unconsumed
        <3> QED BY <1>3, <3>1, <3>2
    <2> QED BY <2>1, <2>2, <2>3, <2>4 DEF FinalCheck
<1> QED BY <1>1, <1>2, <1>4, <1>5, <1>6, <1>7, <1>8, HandlerSteps DEF Next, Elsewhere

(* No request is left behind by a handler that has returned                *)
(* (data.c:519-525) and did not give up; and none gives up while there are *)
(* as many pending requests as guests (445: alloc_req cannot fail then,    *)
(* since the handler that asks holds none) and no thread is being stopped  *)
(* (439).                                                                  *)
THEOREM RequestsAreSeen == Spec => []RequestsSeen
<1>1. Init => Seen
    BY DEF Init, RingInit, Seen, SeenAt
<1>2. ThreadInv /\ NetInv /\ Seen /\ [Next]_vars => Seen'
    BY SeenStep
<1>3. Seen => RequestsSeen
    BY DEF Seen, SeenAt, RequestsSeen, Unconsumed
<1> QED BY <1>1, <1>2, <1>3, ThreadFindsTasks, HandlersAccounted, PTL DEF Spec

-----------------------------------------------------------------------------
(* Where a handler has a request to answer or to queue, and where          *)
(* reqthread has a guest's task.                                           *)
Busy    == {"queue", "ioctl", "fill", "send", "oops"}
Working == {"write", "fill", "send", "oops"}

(* How many requests a handler has in its hands, and how many it has       *)
(* passed on or answered.                                                  *)
HandlerHas(i, g) == IF i[g] \in Busy THEN 1 ELSE 0

(* The requests of a guest that its handler has passed on or answered.     *)
Settled(c, i, g) == c[g] - HandlerHas(i, g)

(* A guest's task names a response that its rounds allocated, and a WRITE  *)
(* that its handler has passed on.                                         *)
TaskOK(t, s, c, i, r) == t.type = "native" =>
    /\ t.resp \in 1 .. Len(r[t.data]) /\ t.req \in 1 .. Settled(c, i, t.data)
    /\ s[t.data][t.req] = "WRITE"

TasksOK ==
    /\ \A i \in DOMAIN native_queue : TaskOK(native_queue[i], script, req_cons, irq, resp)
    /\ reqthrd \in Working => TaskOK(task, script, req_cons, irq, resp)
    /\ reqthrd \in Working \ {"oops"} => task.type = "native"
    /\ reqthrd \in {"rwrite", "rread"} => task.type = "remote"

(* Remainders, for the slots of a ring.                                    *)
LEMMA Remainder ==
    ASSUME NEW b \in Nat \ {0}, NEW a \in Nat
    PROVE  a % b \in 0 .. b - 1 /\ a % b <= a /\ (a < b => a % b = a)
<1>1. a % b \in 0 .. b - 1
    OBVIOUS
<1>2. a < b => a % b = a
    OBVIOUS
<1>3. a % b <= a
    BY <1>1, <1>2
<1> QED BY <1>1, <1>2, <1>3

(* Whatever was written last into the slot of a request, its id is a       *)
(* number.                                                                 *)
LEMMA SlotIdTyped ==
    ASSUME NetTypes, NEW g \in Guests, NEW n \in 1 .. req_prod[g],
           rsp_id[g] \in Seq(Nat), Len(rsp_id[g]) = rsp_prod[g]
    PROVE  SlotId(g, n) \in Nat
<1> DEFINE last == req_prod[g] - ((req_prod[g] - n) % RingSize)
<1>1. req_prod[g] \in Nat /\ RingSize \in Nat \ {0} /\ rsp_prod[g] \in Nat
    BY RingAssumption DEF NetTypes
<1>2. last \in Nat /\ last >= n
    <2>1. req_prod[g] - n \in Nat
        BY <1>1
    <2>2. (req_prod[g] - n) % RingSize <= req_prod[g] - n /\ (req_prod[g] - n) % RingSize \in 0 .. RingSize - 1
        BY <1>1, <2>1, Remainder
    <2> DEFINE r == (req_prod[g] - n) % RingSize
    <2>3. r <= req_prod[g] - n /\ r \in Nat
        BY <1>1, <2>2
    <2> HIDE DEF r
    <2>4. req_prod[g] - r \in Nat /\ req_prod[g] - r >= n
        BY <1>1, <2>1, <2>3
    <2> QED BY <2>4 DEF r
<1>3. SlotId(g, n) = IF rsp_prod[g] >= last THEN rsp_id[g][last] ELSE last
    BY DEF SlotId
<1> HIDE DEF last
<1>4. rsp_prod[g] >= last => rsp_id[g][last] \in Nat
    BY <1>1, <1>2
<1> QED BY <1>1, <1>2, <1>3, <1>4

(* As long as fewer responses than the request's number were pushed, the   *)
(* slot still holds the request: the front end has no room to overwrite    *)
(* it, and no response has reached it.                                     *)
LEMMA SlotIdOwn ==
    ASSUME NetTypes, NEW g \in Guests, IndexesAt(g), NEW n \in Nat, n <= req_prod[g], rsp_prod[g] < n
    PROVE  SlotId(g, n) = n
<1>1. /\ req_prod[g] \in Nat /\ RingSize \in Nat \ {0} /\ rsp_prod[g] \in Nat /\ rsp_cons[g] \in Nat
      /\ rsp_cons[g] <= rsp_prod[g] /\ req_prod[g] - rsp_cons[g] <= RingSize
    BY RingAssumption DEF NetTypes, IndexesAt
<1>2. req_prod[g] - n \in Nat /\ req_prod[g] - n < RingSize
    BY <1>1
<1>3. (req_prod[g] - n) % RingSize = req_prod[g] - n
    BY <1>1, <1>2, Remainder
<1>4. req_prod[g] - ((req_prod[g] - n) % RingSize) = n
    BY <1>1, <1>3
<1> QED BY <1>1, <1>4 DEF SlotId

(* The types of a ring's responses, of the response structures of its      *)
(* rounds, of the queue with its thread, and the rest; with the two facts  *)
(* about where a handler is that the types rest on: it has allocated a     *)
(* response, and the kind of its request is the one that led it there.     *)
Task == NativeTask \cup RemoteTask

RingPart ==
    /\ rsp_event \in [Guests -> Nat] /\ fevt \in [Guests -> BOOLEAN]
    /\ rsp_id \in [Guests -> Seq(Nat)]
    /\ \A g \in Guests : Len(rsp_id[g]) = rsp_prod[g]

RespPart ==
    /\ resp \in [Guests -> Seq(Nat)]
    /\ \A g \in Guests :
        /\ irq[g] \in {"scan"} \cup InSwitch => Len(resp[g]) > 0
        /\ irq[g] \in Busy => req_cons[g] > 0
                              /\ (irq[g] = "queue" <=> script[g][req_cons[g]] = "WRITE")

QueuePart ==
    /\ native_queue \in Seq(Task) /\ task \in Task
    /\ reqthrd \in {"wait", "pop", "write", "fill", "send", "rwrite", "rread", "null", "oops"}
    /\ TasksOK

MiscPart ==
    /\ pending_free >= 0 /\ foreign_stop \in BOOLEAN
    /\ conthrd \in {"recv", "push", "fail"} /\ received \in Nat /\ datagrams \in Nat
    /\ remote_buf \in Held /\ card \in Held /\ sendtocli_queue \in Seq(RemoteTask)
    /\ overrun \in BOOLEAN /\ dom_exit \in {"no", "closed", "stop"}

TypesInv == RingPart /\ RespPart /\ QueuePart /\ MiscPart

(* What conthread queues is a task.                                        *)
LEMMA NewTaskTyped ==
    ASSUME TypesInv
    PROVE  NewTask \in Task /\ NewTask.type = "remote"
<1>1. (IF conthrd = "push" THEN received ELSE 0) \in Nat
    BY DEF TypesInv, MiscPart
<1> QED BY <1>1 DEF NewTask, Task, RemoteTask

(* A response pushed keeps the ring's types and its count of responses.    *)
LEMMA PushRing ==
    ASSUME NetTypes, RingPart, NEW g \in Guests, NEW id \in Nat, PushResponse(g, id), rsp_event' = rsp_event
    PROVE  RingPart'
<1>1. /\ rsp_id' = [rsp_id EXCEPT ![g] = Append(@, id)] /\ rsp_prod' = [rsp_prod EXCEPT ![g] = @ + 1]
      /\ fevt' \in [Guests -> BOOLEAN]
    BY DEF PushResponse, RingPart
<1>2. rsp_id[g] \in Seq(Nat) /\ rsp_prod \in [Guests -> Nat] /\ rsp_id \in [Guests -> Seq(Nat)]
    BY DEF RingPart, NetTypes
<1> DEFINE u == Append(rsp_id[g], id)
<1>3. u \in Seq(Nat) /\ Len(u) = Len(rsp_id[g]) + 1
    BY <1>2, AppendProperties
<1>4. rsp_id' = [rsp_id EXCEPT ![g] = u]
    BY <1>1
<1> HIDE DEF u
<1>5. rsp_id' \in [Guests -> Seq(Nat)]
    BY <1>2, <1>3, <1>4
<1>6. \A h \in Guests : Len(rsp_id'[h]) = rsp_prod'[h]
    BY <1>1, <1>2, <1>3, <1>4 DEF RingPart
<1> QED BY <1>1, <1>5, <1>6 DEF RingPart

(* No step breaks the types of the rings' responses: what is sent is what  *)
(* an allocated response structure holds.                                  *)
LEMMA RingStep ==
    ASSUME ThreadInv, NetInv, TypesInv, [Next]_vars
    PROVE  RingPart'
<1>0. NetTypes /\ RingPart /\ rsp_prod \in [Guests -> Nat]
    BY DEF NetInv, TypesInv, NetTypes
<1>1. ASSUME UNCHANGED <<rsp_event, fevt, rsp_id, rsp_prod>>
      PROVE  RingPart'
    BY <1>0, <1>1 DEF RingPart
<1>2. CASE \E g \in Guests : FrontRead(g)
    BY <1>0, <1>2 DEF FrontRead, FrontInterrupt, RingPart
<1>3. CASE \E g \in Guests : Send(g)
    <2>1. PICK g \in Guests : Send(g)
        BY <1>3
    <2>2. Len(resp[g]) > 0 /\ resp[g] \in Seq(Nat)
        BY <2>1 DEF TypesInv, RespPart, Send, InSwitch
    <2>3. resp[g][Len(resp[g])] \in Nat
        BY <2>2
    <2>4. PushResponse(g, resp[g][Len(resp[g])]) /\ rsp_event' = rsp_event
        BY <2>1 DEF Send
    <2> QED BY <1>0, <2>3, <2>4, PushRing
<1>4. CASE SendTask
    <2>1. task.data \in Guests
        BY <1>4 DEF ThreadInv, SendTask
    <2>2. task.resp \in 1 .. Len(resp[task.data]) /\ resp[task.data] \in Seq(Nat)
        BY <1>4, <2>1 DEF TypesInv, RespPart, QueuePart, TasksOK, TaskOK, SendTask, Working
    <2>3. resp[task.data][task.resp] \in Nat
        BY <2>2
    <2>4. PushResponse(task.data, resp[task.data][task.resp]) /\ rsp_event' = rsp_event
        BY <1>4 DEF SendTask
    <2> QED BY <1>0, <2>1, <2>3, <2>4, PushRing
<1>5. CASE \E g \in Guests : FrontPost(g) \/ Interrupt(g) \/ (Handler(g) /\ ~Send(g))
    <2>1. UNCHANGED <<rsp_event, fevt, rsp_id, rsp_prod>>
        BY <1>5 DEF FrontPost, Post, Interrupt, Handler, Snapshot, Take, GiveUp, FinalCheck,
           FreeReq,
                    QueueWrite, Ioctl, Answer
    <2> QED BY <1>1, <2>1
<1>6. CASE (ReqThread /\ ~SendTask) \/ Receive \/ PushRemote \/ Exit \/ UNCHANGED vars
    <2>1. UNCHANGED <<rsp_event, fevt, rsp_id, rsp_prod>>
        BY <1>6 DEF ReqThread, WaitTask, Pop, DoWrite, AnswerTask, RemoteWrite, RemoteRead, Receive,
                    PushRemote, Exit, vars
    <2> QED BY <1>1, <2>1
<1> QED BY <1>2, <1>3, <1>4, <1>5, <1>6 DEF Next

(* The rest of the types is set as it is, or left alone.                   *)
LEMMA MiscStep ==
    ASSUME NetInv, TypesInv, [Next]_vars
    PROVE  MiscPart'
<1>0. MiscPart /\ pending_free \in Int
    BY DEF NetInv, TypesInv, NetTypes
<1>f. foreign_stop' = foreign_stop
    BY ReasonsStay
<1>1. ASSUME UNCHANGED <<con_vars, remote_vars, dom_exit>>, pending_free' >= 0
      PROVE  MiscPart'
    BY <1>0, <1>f, <1>1 DEF MiscPart
<1>2. CASE \E g \in Guests : FrontPost(g) \/ FrontRead(g) \/ Interrupt(g) \/ Handler(g)
    <2>1. UNCHANGED <<con_vars, remote_vars, dom_exit>> /\ pending_free' >= 0
        BY <1>0, <1>2 DEF FrontPost, FrontRead, Interrupt, Handler, Snapshot, Take, GiveUp,
           FinalCheck,
                          FreeReq, QueueWrite, Ioctl, Answer, Send, MiscPart
    <2> QED BY <1>1, <2>1
<1>3. CASE WaitTask \/ Pop \/ DoWrite \/ AnswerTask \/ SendTask \/ UNCHANGED vars
    <2>1. UNCHANGED <<con_vars, remote_vars, dom_exit>> /\ pending_free' >= 0
        BY <1>0, <1>3 DEF WaitTask, Pop, DoWrite, AnswerTask, SendTask, vars, MiscPart
    <2> QED BY <1>1, <2>1
<1>4. CASE RemoteWrite
    BY <1>0, <1>f, <1>4 DEF RemoteWrite, MiscPart
<1>5. CASE RemoteRead
    <2>1. CASE reqthrd' = "oops"
        BY <1>0, <1>f, <1>5, <2>1 DEF RemoteRead, MiscPart, Held
    <2>2. CASE reqthrd' # "oops"
        <3>1. /\ remote_buf' = Worked(card)
              /\ sendtocli_queue' = Append(sendtocli_queue, task)
              /\ reqthrd = "rread" /\ UNCHANGED <<con_vars, card, overrun, dom_exit, pending_free>>
            BY <1>5, <2>2 DEF RemoteRead
        <3>2. task \in RemoteTask
            BY <3>1 DEF TypesInv, QueuePart, TasksOK, Task, NativeTask
        <3>3. sendtocli_queue' \in Seq(RemoteTask)
            BY <1>0, <3>1, <3>2, AppendProperties DEF MiscPart
        <3>4. remote_buf' \in Held
            BY <1>0, <3>1 DEF MiscPart, Held, Worked
        <3> QED BY <1>0, <1>f, <3>1, <3>3, <3>4 DEF MiscPart
    <2> QED BY <2>1, <2>2
<1>6. CASE Receive
    <2>1. /\ conthrd' \in {"push", "fail"} /\ received' = received + 1 /\ overrun' \in BOOLEAN
          /\ remote_buf' = remote_buf \/ remote_buf' = [id |-> received + 1, kind |-> "data"]
          /\ UNCHANGED <<datagrams, card, sendtocli_queue, dom_exit, pending_free>>
        BY <1>0, <1>6 DEF Receive, MiscPart
    <2>2. remote_buf' \in Held
        BY <1>0, <2>1 DEF MiscPart, Held
    <2> QED BY <1>0, <1>f, <2>1, <2>2 DEF MiscPart
<1>7. CASE PushRemote \/ Exit
    BY <1>0, <1>f, <1>7 DEF PushRemote, Exit, MiscPart
<1> QED BY <1>2, <1>3, <1>4, <1>5, <1>6, <1>7 DEF Next, ReqThread

(* Filling an allocated response keeps the others.                         *)
LEMMA FillKeeps ==
    ASSUME RespPart, NEW g \in Guests, NEW n, NEW r \in 1 .. Len(resp[g]), SlotId(g, n) \in Nat,
           Fill(g, n, r)
    PROVE  /\ resp' \in [Guests -> Seq(Nat)]
           /\ \A h \in Guests : Len(resp'[h]) = Len(resp[h])
           /\ resp'[g][r] = SlotId(g, n)
           /\ \A h \in Guests \ {g} : resp'[h] = resp[h]
<1>1. resp \in [Guests -> Seq(Nat)] /\ resp[g] \in Seq(Nat)
    BY DEF RespPart
<1> DEFINE u == [resp[g] EXCEPT ![r] = SlotId(g, n)]
<1>2. u \in Seq(Nat) /\ Len(u) = Len(resp[g]) /\ u[r] = SlotId(g, n)
    BY <1>1, ExceptSeq
<1>3. resp' = [resp EXCEPT ![g] = u]
    BY <1>1 DEF Fill
<1> HIDE DEF u
<1>4. resp' \in [Guests -> Seq(Nat)] /\ resp'[g] = u /\ \A h \in Guests \ {g} : resp'[h] = resp[h]
    BY <1>1, <1>2, <1>3
<1> QED BY <1>2, <1>4

(* The handler's answer fills the response that its round allocated.       *)
LEMMA AnswerFills ==
    ASSUME NetInv, TypesInv, NEW g \in Guests, Answer(g)
    PROVE  /\ req_cons[g] \in 1 .. req_prod[g] /\ Len(resp[g]) \in 1 .. Len(resp[g])
           /\ SlotId(g, req_cons[g]) \in Nat
<1>1. /\ irq[g] = "fill" /\ NetTypes /\ IndexesAt(g)
      /\ {req_cons[g], rp[g], req_prod[g]} \subseteq Nat
    BY DEF Answer, NetInv, Indexes, NetTypes
<1>2. Len(resp[g]) > 0 /\ req_cons[g] > 0 /\ resp[g] \in Seq(Nat)
    BY <1>1 DEF TypesInv, RespPart, InSwitch, Busy
<1>3. Len(resp[g]) \in 1 .. Len(resp[g])
    BY <1>2, LenProperties
<1>4. req_cons[g] \in 1 .. req_prod[g]
    BY <1>1, <1>2 DEF IndexesAt
<1> QED BY <1>1, <1>3, <1>4, SlotIdTyped DEF TypesInv, RingPart

(* The thread's answer fills a response that its task's round allocated.   *)
LEMMA TaskFills ==
    ASSUME ThreadInv, NetInv, TypesInv, reqthrd \in {"write", "fill", "send"}
    PROVE  /\ task.data \in Guests /\ task.type = "native" /\ task.req \in 1 .. req_prod[task.data]
           /\ task.req \in 1 .. req_cons[task.data]
           /\ task.resp \in 1 .. Len(resp[task.data])
           /\ SlotId(task.data, task.req) \in Nat
<1> DEFINE d == task.data
<1>1. d \in Guests /\ task.type = "native" /\ TaskOK(task, script, req_cons, irq, resp)
    BY DEF ThreadInv, TypesInv, QueuePart, TasksOK, Working
<1>2. task.resp \in 1 .. Len(resp[d]) /\ task.req \in 1 .. Settled(req_cons, irq, d)
    BY <1>1 DEF TaskOK
<1>3. IndexesAt(d) /\ NetTypes /\ {req_cons[d], rp[d], req_prod[d]} \subseteq Nat
    BY <1>1 DEF NetInv, Indexes, NetTypes
<1>4. task.req \in 1 .. req_prod[d] /\ task.req \in 1 .. req_cons[d]
    BY <1>2, <1>3 DEF Settled, HandlerHas, IndexesAt
<1>5. SlotId(d, task.req) \in Nat
    <2> HIDE DEF d
    <2> QED BY <1>1, <1>3, <1>4, SlotIdTyped DEF TypesInv, RingPart
<1> QED BY <1>1, <1>2, <1>4, <1>5

(* No step breaks the types of the response structures, or takes a handler *)
(* where its request does not belong.                                      *)
LEMMA RespStep ==
    ASSUME ThreadInv, NetInv, TypesInv, [Next]_vars
    PROVE  RespPart'
<1>0. /\ RespPart /\ resp \in [Guests -> Seq(Nat)] /\ irq \in [Guests -> IrqPlaces]
      /\ req_cons \in [Guests -> Nat]
    BY DEF TypesInv, RespPart, NetInv, NetTypes
<1>1. ASSUME UNCHANGED <<irq, req_cons, script>>, resp' \in [Guests -> Seq(Nat)],
             \A h \in Guests : Len(resp'[h]) = Len(resp[h])
      PROVE  RespPart'
    BY <1>0, <1>1 DEF RespPart
<1>2. ASSUME UNCHANGED <<resp, irq, req_cons, script>>
      PROVE  RespPart'
    BY <1>0, <1>2 DEF RespPart
<1>3. CASE AnswerTask
    <2>1. Fill(task.data, task.req, task.resp) /\ UNCHANGED <<irq, req_cons, script>> /\ reqthrd = "fill"
        BY <1>3 DEF AnswerTask
    <2>2. task.data \in Guests /\ task.resp \in 1 .. Len(resp[task.data]) /\ SlotId(task.data, task.req) \in Nat
        BY <2>1, TaskFills
    <2>3. resp' \in [Guests -> Seq(Nat)] /\ \A h \in Guests : Len(resp'[h]) = Len(resp[h])
        BY <1>0, <2>1, <2>2, FillKeeps
    <2> QED BY <1>1, <2>1, <2>3
<1>4. CASE (ReqThread /\ ~AnswerTask) \/ Receive \/ PushRemote \/ Exit \/ UNCHANGED vars
           \/ \E g \in Guests : FrontPost(g) \/ FrontRead(g)
    <2>1. UNCHANGED <<resp, irq, req_cons, script>>
        BY <1>4 DEF ReqThread, WaitTask, Pop, DoWrite, SendTask, RemoteWrite, RemoteRead, Receive,
                    PushRemote, Exit, vars, FrontPost, Post, FrontRead, FrontInterrupt
    <2> QED BY <1>2, <2>1
<1>5. ASSUME NEW g \in Guests, \A h \in Guests \ {g} : UNCHANGED <<resp[h], irq[h], req_cons[h]>>,
             UNCHANGED script, resp' \in [Guests -> Seq(Nat)],
             irq'[g] \in {"scan"} \cup InSwitch => Len(resp'[g]) > 0,
             irq'[g] \in Busy => req_cons'[g] > 0
                                 /\ (irq'[g] = "queue" <=> script[g][req_cons'[g]] = "WRITE")
      PROVE  RespPart'
    <2> SUFFICES ASSUME NEW h \in Guests
                 PROVE  /\ irq'[h] \in {"scan"} \cup InSwitch => Len(resp'[h]) > 0
                        /\ irq'[h] \in Busy => req_cons'[h] > 0
                                /\ (irq'[h] = "queue" <=> script'[h][req_cons'[h]] = "WRITE")
        BY <1>5 DEF RespPart
    <2>1. CASE h = g
        BY <1>5, <2>1
    <2>2. CASE h # g
        BY <1>0, <1>5, <2>2 DEF RespPart
    <2> QED BY <2>1, <2>2
<1>6. ASSUME NEW g \in Guests, UNCHANGED <<resp, req_cons, script>>,
             NEW to, irq' = [irq EXCEPT ![g] = to], irq[g] \in {"scan"} \cup InSwitch \/ to \in {"idle", "gave_up", "snap"},
             to \in Busy => irq[g] \in Busy \ {"queue"} /\ to # "queue"
      PROVE  RespPart'
    <2>1. irq'[g] = to /\ \A h \in Guests \ {g} : UNCHANGED <<resp[h], irq[h], req_cons[h]>>
        BY <1>0, <1>6
    <2>2. to \in {"scan"} \cup InSwitch => Len(resp'[g]) > 0
        BY <1>0, <1>6 DEF RespPart, InSwitch
    <2>3. to \in Busy => req_cons'[g] > 0 /\ (to = "queue" <=> script[g][req_cons'[g]] = "WRITE")
        BY <1>0, <1>6 DEF RespPart, Busy
    <2> QED BY <1>0, <1>5, <1>6, <2>1, <2>2, <2>3
<1>7. CASE \E g \in Guests : Snapshot(g)
    <2>1. PICK g \in Guests : Snapshot(g)
        BY <1>7
    <2>2. /\ irq' = [irq EXCEPT ![g] = "scan"] /\ resp' = [resp EXCEPT ![g] = Append(@, 0)]
          /\ UNCHANGED <<req_cons, script>>
        BY <2>1 DEF Snapshot
    <2> DEFINE u == Append(resp[g], 0)
    <2>3. u \in Seq(Nat) /\ Len(u) > 0
        <3>1. resp[g] \in Seq(Nat) /\ 0 \in Nat
            BY <1>0
        <3> QED BY <3>1, AppendProperties, LenProperties
    <2>4. resp' = [resp EXCEPT ![g] = u]
        BY <2>2
    <2> HIDE DEF u
    <2>5. /\ resp' \in [Guests -> Seq(Nat)] /\ resp'[g] = u /\ irq'[g] = "scan"
          /\ \A h \in Guests \ {g} : UNCHANGED <<resp[h], irq[h], req_cons[h]>>
        BY <1>0, <2>2, <2>3, <2>4
    <2> QED BY <1>5, <2>2, <2>3, <2>5 DEF Busy
<1>8. CASE \E g \in Guests : Take(g)
    <2>1. PICK g \in Guests : Take(g)
        BY <1>8
    <2> DEFINE op == script[g][req_cons[g] + 1]
    <2>2. /\ irq[g] = "scan" /\ irq' = [irq EXCEPT ![g] = Entry[op]] /\ UNCHANGED <<resp, script>>
          /\ req_cons' = [req_cons EXCEPT ![g] = @ + 1]
        BY <2>1 DEF Take, TakeRequest
    <2>3. op \in Ops
        BY <2>1, TakenIsOp DEF Take, NetInv
    <2>4. op # "WRITE" => Entry[op] # "queue"
        BY <2>3 DEF Ops, Entry
    <2>5. op = "WRITE" => Entry[op] = "queue"
        BY DEF Entry
    <2>6. /\ irq'[g] = Entry[op] /\ req_cons'[g] = req_cons[g] + 1 /\ req_cons[g] \in Nat
          /\ \A h \in Guests \ {g} : UNCHANGED <<resp[h], irq[h], req_cons[h]>>
        BY <1>0, <2>2
    <2>7. Len(resp'[g]) > 0
        BY <1>0, <2>2 DEF RespPart
    <2>8. op = script[g][req_cons'[g]]
        BY <2>6
    <2> HIDE DEF op
    <2>9. irq'[g] = "queue" <=> script[g][req_cons'[g]] = "WRITE"
        BY <2>4, <2>5, <2>6, <2>8
    <2>10. req_cons'[g] > 0
        BY <2>6
    <2> QED BY <1>0, <1>5, <2>2, <2>6, <2>7, <2>9, <2>10
<1>9. CASE \E g \in Guests : Answer(g)
    <2>1. PICK g \in Guests : Answer(g)
        BY <1>9
    <2>2. /\ irq[g] = "fill" /\ irq' = [irq EXCEPT ![g] = "send"] /\ UNCHANGED <<req_cons, script>>
          /\ Fill(g, req_cons[g], Len(resp[g]))
        BY <2>1 DEF Answer
    <2>3. Len(resp[g]) \in 1 .. Len(resp[g]) /\ SlotId(g, req_cons[g]) \in Nat
        BY <2>1, AnswerFills
    <2>4. /\ resp' \in [Guests -> Seq(Nat)] /\ Len(resp'[g]) = Len(resp[g])
          /\ \A h \in Guests \ {g} : resp'[h] = resp[h]
        BY <1>0, <2>2, <2>3, FillKeeps
    <2>5. irq'[g] = "send" /\ \A h \in Guests \ {g} : UNCHANGED <<resp[h], irq[h], req_cons[h]>>
        BY <1>0, <2>2, <2>4
    <2>6. Len(resp'[g]) > 0
        BY <1>0, <2>2, <2>4 DEF RespPart, InSwitch
    <2>7. req_cons'[g] > 0 /\ script[g][req_cons'[g]] # "WRITE"
        BY <1>0, <2>2 DEF RespPart, Busy
    <2> QED BY <1>5, <2>2, <2>4, <2>5, <2>6, <2>7
<1>10. CASE \E g \in Guests : Interrupt(g) \/ GiveUp(g) \/ FinalCheck(g) \/ FreeReq(g) \/ QueueWrite(g)
                             \/ Ioctl(g) \/ Send(g)
    <2>1. PICK g \in Guests : Interrupt(g) \/ GiveUp(g) \/ FinalCheck(g) \/ FreeReq(g) \/ QueueWrite(g)
                             \/ Ioctl(g) \/ Send(g)
        BY <1>10
    <2>2. UNCHANGED <<resp, req_cons, script>>
        BY <2>1 DEF Interrupt, GiveUp, FinalCheck, AskForEvent, FreeReq, QueueWrite, Ioctl, Send
    <2>3. \E to : /\ irq' = [irq EXCEPT ![g] = to]
                  /\ (irq[g] \in {"scan"} \cup InSwitch \/ to \in {"idle", "gave_up", "snap"})
                  /\ (to \in Busy => irq[g] \in Busy \ {"queue"} /\ to # "queue")
        <3>1. CASE Interrupt(g) \/ GiveUp(g) \/ FinalCheck(g)
            BY <3>1 DEF Interrupt, GiveUp, FinalCheck, Busy
        <3>2. CASE FreeReq(g) \/ QueueWrite(g) \/ Send(g)
            <4>1. irq[g] \in InSwitch
                BY <3>2 DEF FreeReq, QueueWrite, Send, InSwitch
            <4>2. \E to \in {"scan", "put"} : irq' = [irq EXCEPT ![g] = to]
                BY <3>2 DEF FreeReq, QueueWrite, Send
            <4> QED BY <4>1, <4>2 DEF Busy
        <3>3. CASE Ioctl(g)
            BY <3>3 DEF Ioctl, Calls, Busy, InSwitch
        <3> QED BY <2>1, <3>1, <3>2, <3>3
    <2> QED BY <1>6, <2>2, <2>3
<1> QED BY <1>3, <1>4, <1>7, <1>8, <1>9, <1>10 DEF Next, Handler

(* What the step of a handler may do to what the tasks refer to: only its  *)
(* own guest's is touched, no response structure goes and no request is    *)
(* unsettled again.                                                        *)
HandlerMoves(g) ==
    /\ \A h \in Guests \ {g} : UNCHANGED <<irq[h], req_cons[h], resp[h]>>
    /\ Len(resp'[g]) >= Len(resp[g]) /\ Settled(req_cons', irq', g) >= Settled(req_cons, irq, g)

(* It does no more.                                                        *)
LEMMA HandlerSettles ==
    ASSUME NetInv, TypesInv, NEW g \in Guests, Handler(g) \/ Interrupt(g)
    PROVE  HandlerMoves(g) /\ UNCHANGED <<script, task, reqthrd>>
<1>0. /\ resp \in [Guests -> Seq(Nat)] /\ irq \in [Guests -> IrqPlaces] /\ req_cons \in [Guests -> Nat]
      /\ resp[g] \in Seq(Nat) /\ Len(resp[g]) \in Nat
    BY LenProperties DEF TypesInv, RespPart, NetInv, NetTypes
<1> USE DEF HandlerMoves, Settled, HandlerHas, Busy
<1>1. CASE Interrupt(g) \/ GiveUp(g) \/ FinalCheck(g) \/ FreeReq(g)
    BY <1>0, <1>1 DEF Interrupt, GiveUp, FinalCheck, AskForEvent, FreeReq
<1>2. CASE QueueWrite(g) \/ Ioctl(g) \/ Send(g)
    BY <1>0, <1>2 DEF QueueWrite, Ioctl, Send, Calls
<1>3. CASE Snapshot(g)
    <2>1. /\ irq[g] = "snap" /\ irq' = [irq EXCEPT ![g] = "scan"]
          /\ resp' = [resp EXCEPT ![g] = Append(@, 0)]
          /\ UNCHANGED <<req_cons, script, task, reqthrd>>
        BY <1>3 DEF Snapshot
    <2>2. Len(Append(resp[g], 0)) >= Len(resp[g])
        <3>1. 0 \in Nat
            OBVIOUS
        <3> QED BY <1>0, <3>1, AppendProperties
    <2>3. resp'[g] = Append(resp[g], 0)
        BY <1>0, <2>1
    <2> QED BY <1>0, <2>1, <2>2, <2>3
<1>4. CASE Take(g)
    BY <1>0, <1>4 DEF Take, TakeRequest
<1>5. CASE Answer(g)
    <2>1. /\ irq[g] = "fill" /\ irq' = [irq EXCEPT ![g] = "send"]
          /\ UNCHANGED <<req_cons, script, task, reqthrd>> /\ Fill(g, req_cons[g], Len(resp[g]))
        BY <1>5 DEF Answer
    <2>2. Len(resp[g]) \in 1 .. Len(resp[g]) /\ SlotId(g, req_cons[g]) \in Nat
        BY <1>5, AnswerFills
    <2>3. Len(resp'[g]) = Len(resp[g]) /\ \A h \in Guests \ {g} : resp'[h] = resp[h]
        BY <2>1, <2>2, FillKeeps DEF TypesInv
    <2> QED BY <1>0, <2>1, <2>3
<1> QED BY <1>1, <1>2, <1>3, <1>4, <1>5 DEF Handler

(* Then every task that was in order stays so.                             *)
LEMMA TasksStayOK ==
    ASSUME RespPart, RespPart', NetTypes, NetTypes', UNCHANGED script,
           \A g \in Guests :
               /\ Len(resp'[g]) >= Len(resp[g])
               /\ Settled(req_cons', irq', g) >= Settled(req_cons, irq, g)
    PROVE  \A t : (t.type = "native" => t.data \in Guests) /\ TaskOK(t, script, req_cons, irq, resp)
             => TaskOK(t, script', req_cons', irq', resp')
<1> SUFFICES ASSUME NEW t, t.type = "native", t.data \in Guests, TaskOK(t, script, req_cons, irq, resp)
             PROVE  TaskOK(t, script', req_cons', irq', resp')
    BY DEF TaskOK
<1>1. /\ t.resp \in 1 .. Len(resp[t.data]) /\ t.req \in 1 .. Settled(req_cons, irq, t.data)
      /\ script[t.data][t.req] = "WRITE"
    BY DEF TaskOK
<1> DEFINE d == t.data
           L == Len(resp[d])
           M == Len(resp'[d])
           S == Settled(req_cons, irq, d)
           Z == Settled(req_cons', irq', d)
<1>2. L \in Nat /\ M \in Nat /\ M >= L /\ S \in Int /\ Z \in Int /\ Z >= S
    <2>1. resp[d] \in Seq(Nat) /\ resp'[d] \in Seq(Nat)
        BY DEF RespPart
    <2>2. d \in Guests
        OBVIOUS
    <2> HIDE DEF d
    <2>3. req_cons[d] \in Nat /\ req_cons'[d] \in Nat
        BY <2>2 DEF NetTypes
    <2>4. Settled(req_cons, irq, d) \in Int /\ Settled(req_cons', irq', d) \in Int
        BY <2>3 DEF Settled, HandlerHas
    <2> QED BY <2>1, <2>2, <2>4, LenProperties
<1>3. t.resp \in 1 .. L /\ t.req \in 1 .. S
    BY <1>1
<1> HIDE DEF L, M, S, Z
<1>4. t.resp \in 1 .. M /\ t.req \in 1 .. Z
    BY <1>2, <1>3
<1> USE DEF M, Z
<1> QED BY <1>1, <1>4 DEF TaskOK

(* The queue and the thread under a step that pops nothing: it queues at   *)
(* most one task that is in order.                                         *)
LEMMA QueueKeeps ==
    ASSUME NetInv, NetInv', TypesInv, RespPart', UNCHANGED <<script, task>>,
           reqthrd' \in {"wait", "pop", "write", "fill", "send", "rwrite", "rread", "null", "oops"},
           reqthrd' \in Working => reqthrd \in Working \/ (reqthrd = "rread" \/ reqthrd = "rwrite"),
           reqthrd' \in Working \ {"oops"} => reqthrd \in Working \ {"oops"},
           reqthrd' \in {"rwrite", "rread"} => reqthrd \in {"rwrite", "rread"},
           \A g \in Guests :
               /\ Len(resp'[g]) >= Len(resp[g])
               /\ Settled(req_cons', irq', g) >= Settled(req_cons, irq, g),
           native_queue' = native_queue \/ \E t \in Task :
                /\ native_queue' = Append(native_queue, t)
                /\ (t.type = "native" => t.data \in Guests) /\ TaskOK(t, script', req_cons', irq', resp')
    PROVE  QueuePart'
<1>0. /\ QueuePart /\ RespPart /\ NetTypes /\ NetTypes' /\ native_queue \in Seq(Task)
      /\ Len(native_queue) \in Nat
    BY LenProperties DEF TypesInv, QueuePart, NetInv
<1>1. \A t : (t.type = "native" => t.data \in Guests) /\ TaskOK(t, script, req_cons, irq, resp)
        => TaskOK(t, script', req_cons', irq', resp')
    BY <1>0, TasksStayOK
<1>2. \A t \in Task : t.type = "native" => t.data \in Guests
    BY DEF Task, NativeTask, RemoteTask
<1>3. \A i \in DOMAIN native_queue :
          /\ native_queue[i] \in Task
          /\ TaskOK(native_queue[i], script, req_cons, irq, resp)
    BY <1>0 DEF QueuePart, TasksOK
<1>4. native_queue' \in Seq(Task) /\ \A i \in DOMAIN native_queue' : TaskOK(native_queue'[i], script', req_cons', irq', resp')
    <2>1. CASE native_queue' = native_queue
        BY <1>0, <1>1, <1>2, <1>3, <2>1
    <2>2. CASE native_queue' # native_queue
        <3>1. PICK t \in Task : native_queue' = Append(native_queue, t) /\ TaskOK(t, script', req_cons', irq', resp')
            BY <2>2
        <3>2. /\ native_queue' \in Seq(Task) /\ Len(native_queue') = Len(native_queue) + 1
              /\ DOMAIN native_queue' = 1 .. Len(native_queue')
              /\ \A i \in 1 .. Len(native_queue) : native_queue'[i] = native_queue[i]
              /\ native_queue'[Len(native_queue) + 1] = t
            BY <1>0, <3>1, AppendProperties
        <3>3. \A i \in 1 .. Len(native_queue) : TaskOK(native_queue[i], script', req_cons', irq', resp')
            BY <1>0, <1>1, <1>2, <1>3
        <3>4. \A i \in 1 .. Len(native_queue) : TaskOK(native_queue'[i], script', req_cons', irq', resp')
            BY <3>2, <3>3
        <3>5. TaskOK(native_queue'[Len(native_queue) + 1], script', req_cons', irq', resp')
            BY <3>1, <3>2
        <3> QED BY <1>0, <3>2, <3>4, <3>5
    <2> QED BY <2>1, <2>2
<1>5. reqthrd' \in Working => TaskOK(task', script', req_cons', irq', resp')
    <2>1. task \in Task /\ (task.type = "native" => task.data \in Guests)
        BY <1>0, <1>2 DEF QueuePart
    <2>2. CASE reqthrd \in Working
        BY <1>0, <1>1, <2>1, <2>2 DEF QueuePart, TasksOK
    <2>3. CASE reqthrd = "rread" \/ reqthrd = "rwrite"
        <3>1. task.type = "remote"
            BY <1>0, <2>3 DEF QueuePart, TasksOK
        <3> QED BY <3>1 DEF TaskOK
    <2> QED BY <2>2, <2>3
<1> QED BY <1>0, <1>4, <1>5 DEF QueuePart, TasksOK

(* No step breaks the types of the queue and the thread, or puts a task    *)
(* out of order.                                                           *)
LEMMA QueueStep ==
    ASSUME ThreadInv, ThreadInv', NetInv, NetInv', TypesInv, RingPart', RespPart', [Next]_vars
    PROVE  QueuePart'
<1>0. /\ QueuePart /\ NetTypes /\ task \in Task /\ native_queue \in Seq(Task)
      /\ reqthrd \in {"wait", "pop", "write", "fill", "send", "rwrite", "rread", "null", "oops"}
      /\ \A g \in Guests : Len(resp[g]) \in Nat /\ Settled(req_cons, irq, g) \in Int
    <2>1. \A g \in Guests : resp[g] \in Seq(Nat)
        BY DEF TypesInv, RespPart
    <2>2. \A g \in Guests : Settled(req_cons, irq, g) \in Int
        BY DEF NetInv, NetTypes, Settled, HandlerHas
    <2> QED BY <2>1, <2>2, LenProperties DEF NetInv, TypesInv, QueuePart
<1>1. CASE \E g \in Guests : Interrupt(g) \/ Handler(g)
    <2>1. PICK g \in Guests : Interrupt(g) \/ Handler(g)
        BY <1>1
    <2>2. HandlerMoves(g) /\ UNCHANGED <<script, task, reqthrd>>
        BY <2>1, HandlerSettles
    <2>3. \A h \in Guests :
              /\ Len(resp'[h]) >= Len(resp[h])
              /\ Settled(req_cons', irq', h) >= Settled(req_cons, irq, h)
        BY <1>0, <2>2 DEF HandlerMoves, Settled, HandlerHas
    <2>4. CASE ~QueueWrite(g)
        <3>1. native_queue' = native_queue
            BY <2>1, <2>4 DEF Interrupt, Handler, Snapshot, Take, GiveUp, FinalCheck, FreeReq,
               Ioctl, Answer, Send
        <3> QED BY <1>0, <2>2, <2>3, <3>1, QueueKeeps
    <2>5. CASE QueueWrite(g)
        <3> DEFINE t == [type |-> "native", data |-> g, req |-> req_cons[g], resp |-> Len(resp[g])]
        <3>1. /\ irq[g] = "queue" /\ irq' = [irq EXCEPT ![g] = "put"]
              /\ native_queue' = Append(native_queue, t)
              /\ UNCHANGED <<resp, req_cons, script>>
            BY <2>5 DEF QueueWrite
        <3>2. /\ req_cons[g] > 0 /\ req_cons[g] \in Nat /\ script[g][req_cons[g]] = "WRITE"
              /\ Len(resp[g]) > 0 /\ Len(resp[g]) \in Nat /\ irq \in [Guests -> IrqPlaces]
            BY <1>0, <3>1 DEF TypesInv, RespPart, Busy, InSwitch, NetTypes
        <3>3. t \in Task /\ t.data \in Guests
            BY <3>2 DEF Task, NativeTask
        <3>4. Settled(req_cons', irq', g) = req_cons[g]
            BY <3>1, <3>2 DEF Settled, HandlerHas, Busy
        <3>5. TaskOK(t, script', req_cons', irq', resp')
            BY <3>1, <3>2, <3>4 DEF TaskOK
        <3> HIDE DEF t
        <3> QED BY <1>0, <2>2, <2>3, <3>1, <3>3, <3>5, QueueKeeps
    <2> QED BY <2>4, <2>5
<1>2. ASSUME UNCHANGED <<script, irq, req_cons, task, reqthrd>>,
             \A g \in Guests : Len(resp'[g]) = Len(resp[g]),
             native_queue' = native_queue \/ \E t \in Task :
                /\ native_queue' = Append(native_queue, t)
                /\ (t.type = "native" => t.data \in Guests) /\ TaskOK(t, script', req_cons', irq', resp')
      PROVE  QueuePart'
    <2>1. \A g \in Guests :
              /\ Len(resp'[g]) >= Len(resp[g])
              /\ Settled(req_cons', irq', g) >= Settled(req_cons, irq, g)
        BY <1>0, <1>2 DEF Settled, HandlerHas
    <2> QED BY <1>0, <1>2, <2>1, QueueKeeps
<1>3. CASE Receive \/ Exit \/ UNCHANGED vars \/ \E g \in Guests : FrontPost(g) \/ FrontRead(g)
    <2>1. UNCHANGED <<script, irq, req_cons, task, reqthrd, resp, native_queue>>
        BY <1>3 DEF Receive, Exit, vars, FrontPost, Post, FrontRead, FrontInterrupt
    <2> QED BY <1>2, <2>1
<1>4. CASE PushRemote
    <2> DEFINE t == NewTask
    <2>1. UNCHANGED <<script, irq, req_cons, task, reqthrd, resp>> /\ native_queue' = Append(native_queue, t)
        BY <1>4 DEF PushRemote
    <2>2. t \in Task
        BY NewTaskTyped
    <2>3. t.type # "native" /\ TaskOK(t, script', req_cons', irq', resp')
        BY DEF NewTask, TaskOK
    <2> HIDE DEF t
    <2> QED BY <1>2, <2>1, <2>2, <2>3
<1>5. CASE Pop
    <2>1. UNCHANGED <<script, irq, req_cons, resp>> /\ reqthrd = "pop"
        BY <1>5 DEF Pop
    <2>2. \A g \in Guests :
              /\ Len(resp'[g]) >= Len(resp[g])
              /\ Settled(req_cons', irq', g) >= Settled(req_cons, irq, g)
        BY <1>0, <2>1 DEF Settled, HandlerHas
    <2>3. CASE native_queue = <<>>
        <3>1. reqthrd' = "null" /\ UNCHANGED <<task, native_queue>>
            BY <1>5, <2>3 DEF Pop
        <3> QED BY <1>0, <2>1, <2>2, <3>1, QueueKeeps DEF Working
    <2>4. CASE native_queue # <<>>
        <3>1. /\ task' = Head(native_queue) /\ native_queue' = Tail(native_queue)
              /\ reqthrd' = IF task'.type = "native" THEN "write" ELSE "rwrite"
            BY <1>5, <2>4 DEF Pop
        <3>2. /\ Head(native_queue) \in Task /\ Tail(native_queue) \in Seq(Task)
              /\ Len(native_queue) \in Nat \ {0} /\ Len(Tail(native_queue)) = Len(native_queue) - 1
              /\ DOMAIN Tail(native_queue) = 1 .. Len(Tail(native_queue))
              /\ \A i \in 1 .. Len(native_queue) - 1 : Tail(native_queue)[i] = native_queue[i + 1]
              /\ Head(native_queue) = native_queue[1] /\ DOMAIN native_queue = 1 .. Len(native_queue)
            BY <1>0, <2>4, HeadTailProperties, LenProperties, EmptySeq
        <3>3. \A i \in 1 .. Len(native_queue) :
                  /\ native_queue[i] \in Task
                  /\ TaskOK(native_queue[i], script, req_cons, irq, resp)
            BY <1>0, <3>2 DEF QueuePart, TasksOK
        <3>4. TaskOK(task', script', req_cons', irq', resp')
            <4>1. TaskOK(native_queue[1], script, req_cons, irq, resp)
                BY <3>2, <3>3
            <4>2. task' = native_queue[1]
                BY <3>1, <3>2
            <4> QED BY <2>1, <4>1, <4>2 DEF TaskOK, Settled, HandlerHas
        <3>5. \A i \in DOMAIN native_queue' : TaskOK(native_queue'[i], script', req_cons', irq', resp')
            <4> SUFFICES ASSUME NEW i \in DOMAIN native_queue'
                         PROVE  TaskOK(native_queue'[i], script', req_cons', irq', resp')
                OBVIOUS
            <4>1. i \in 1 .. Len(native_queue) - 1 /\ i + 1 \in 1 .. Len(native_queue)
                BY <3>1, <3>2
            <4>2. native_queue'[i] = native_queue[i + 1] /\ TaskOK(native_queue[i + 1], script, req_cons, irq, resp)
                BY <3>1, <3>2, <3>3, <4>1
            <4> QED BY <2>1, <4>2 DEF TaskOK, Settled, HandlerHas
        <3>6. task' \in Task /\ native_queue' \in Seq(Task)
            BY <3>1, <3>2
        <3>7. task'.type \in {"native", "remote"}
            BY <3>6 DEF Task, NativeTask, RemoteTask
        <3> QED BY <3>1, <3>4, <3>5, <3>6, <3>7 DEF QueuePart, TasksOK, Working
    <2> QED BY <2>3, <2>4
<1>6. CASE WaitTask \/ DoWrite \/ AnswerTask \/ SendTask \/ RemoteWrite \/ RemoteRead
    <2>1. UNCHANGED <<script, irq, req_cons, task, native_queue>>
        BY <1>6 DEF WaitTask, DoWrite, AnswerTask, SendTask, RemoteWrite, RemoteRead
    <2>2. \A g \in Guests : Len(resp'[g]) >= Len(resp[g])
        <3>1. CASE AnswerTask
            <4>1. Fill(task.data, task.req, task.resp) /\ reqthrd = "fill"
                BY <3>1 DEF AnswerTask
            <4>2. task.data \in Guests /\ task.resp \in 1 .. Len(resp[task.data]) /\ SlotId(task.data, task.req) \in Nat
                BY <4>1, TaskFills
            <4> QED BY <1>0, <4>1, <4>2, FillKeeps DEF TypesInv
        <3>2. CASE ~AnswerTask
            <4>1. resp' = resp
                BY <1>6, <3>2 DEF WaitTask, DoWrite, SendTask, RemoteWrite, RemoteRead
            <4> QED BY <1>0, <4>1
        <3> QED BY <3>1, <3>2
    <2>3. \A g \in Guests : Settled(req_cons', irq', g) >= Settled(req_cons, irq, g)
        BY <1>0, <2>1 DEF Settled, HandlerHas
    <2>4. /\ reqthrd' \in {"wait", "pop", "write", "fill", "send", "rwrite", "rread", "null", "oops"}
          /\ reqthrd' \in Working => reqthrd \in Working \/ (reqthrd = "rread" \/ reqthrd = "rwrite")
          /\ reqthrd' \in Working \ {"oops"} => reqthrd \in Working \ {"oops"}
          /\ reqthrd' \in {"rwrite", "rread"} => reqthrd \in {"rwrite", "rread"}
        BY <1>6 DEF WaitTask, DoWrite, AnswerTask, SendTask, RemoteWrite, RemoteRead, Calls, Working
    <2> QED BY <1>0, <2>1, <2>2, <2>3, <2>4, QueueKeeps
<1> QED BY <1>1, <1>2, <1>3, <1>4, <1>5, <1>6 DEF Next, ReqThread

(* No step breaks any of them.                                             *)
LEMMA TypesStep ==
    ASSUME ThreadInv, ThreadInv', NetInv, NetInv', TypesInv, [Next]_vars
    PROVE  TypesInv'
BY RingStep, RespStep, QueueStep, MiscStep DEF TypesInv

(* They hold initially.                                                    *)
LEMMA InitTypes == Init => TypesInv
<1> SUFFICES ASSUME Init PROVE TypesInv
    OBVIOUS
<1>0. <<>> \in Seq(Nat) /\ <<>> \in Seq(Task) /\ <<>> \in Seq(RemoteTask) /\ Len(<<>>) = 0
    OBVIOUS
<1>1. RingPart
    BY <1>0 DEF Init, RingInit, RingPart
<1>2. RespPart
    BY <1>0 DEF Init, RespPart, InSwitch, Busy
<1>3. QueuePart
    <2>1. task \in Task
        BY DEF Init, Task, RemoteTask
    <2>2. native_queue \in Seq(Task) /\ DOMAIN native_queue = {}
        BY <1>0 DEF Init
    <2> QED BY <2>1, <2>2 DEF Init, QueuePart, TasksOK, Working
<1>4. MiscPart
    <2>1. PICK w \in Workloads : /\ reqs = w.reqs /\ datagrams = w.datagrams
                                 /\ foreign_stop = w.foreign_stop
        BY DEF Init
    <2>2. reqs \in Nat /\ datagrams \in Nat /\ foreign_stop \in BOOLEAN
        BY <2>1, NetAssumption
    <2>3. card \in Held /\ remote_buf \in Held
        BY DEF Init, Held, NoData
    <2>4. pending_free >= 0
        BY <2>2 DEF Init
    <2>5. sendtocli_queue \in Seq(RemoteTask)
        BY <1>0 DEF Init
    <2> QED BY <2>2, <2>3, <2>4, <2>5 DEF Init, MiscPart
<1> QED BY <1>1, <1>2, <1>3, <1>4 DEF TypesInv

(* Together with the account of pending requests they are TypeOK.          *)
LEMMA TypesAreOK ==
    ASSUME NetInv, TypesInv
    PROVE  TypeOK
<1>1. RingTypeOK
    BY DEF RingTypeOK, NetInv, NetTypes, TypesInv, RingPart
<1>2. pending_free \in 0 .. reqs
    <2> DEFINE n == Cardinality({g \in Guests : irq[g] \in InSwitch})
    <2>1. n \in Nat
        BY RingAssumption, FS_Subset, FS_CardinalityType
    <2>2. pending_free + n = reqs /\ pending_free \in Int /\ reqs \in Nat /\ pending_free >= 0
        BY DEF NetInv, Account, NetTypes, TypesInv, MiscPart
    <2> HIDE DEF n
    <2> QED BY <2>1, <2>2
<1>3. irq \in [Guests -> {"idle", "gave_up", "snap", "scan", "queue", "ioctl", "fill", "send",
                        "put", "oops"}]
    BY DEF NetInv, NetTypes, IrqPlaces, InSwitch
<1>4. rp \in [Guests -> Nat] /\ resp \in [Guests -> Seq(Nat)] /\ reqs \in Nat
    BY DEF NetInv, NetTypes, TypesInv, RespPart
<1> QED BY <1>1, <1>2, <1>3, <1>4 DEF TypesInv, QueuePart, MiscPart, Task, TypeOK

(* Every variable keeps its type: reqthread and the handlers               *)
(* (data.c:411-527, 774-846) fill only response structures that were       *)
(* allocated, and there are never more free pending requests than          *)
(* requests.                                                               *)
THEOREM NetDom0Types == Spec => []TypeOK
<1>1. ThreadInv /\ NetInv /\ TypesInv /\ [Next]_vars => TypesInv'
    BY ThreadStep, NetStep, TypesStep
<1>2. NetInv /\ TypesInv => TypeOK
    BY TypesAreOK
<1> QED BY <1>1, <1>2, InitTypes, ThreadFindsTasks, HandlersAccounted, PTL DEF Spec

-----------------------------------------------------------------------------
(* The tasks that conthread queued, and the one of them that is served.    *)
Remotes(q) == {i \in DOMAIN q : q[i].type = "remote"}
Serves     == reqthrd \in {"rwrite", "rread"}

Data(n)   == [id |-> n, kind |-> "data"]
Result(n) == [id |-> n, kind |-> "result"]
Last(s)   == s[Len(s)]

(* As long as no datagram overran another, a task for a datagram is behind *)
(* no other of conthread's tasks, its data is in the buffer until its      *)
(* result is there, and results are those of datagrams that came.          *)
OwnData(i, q, served, buf) == q[i].id # 0 =>
    ~served /\ buf = Data(q[i].id) /\ \A j \in Remotes(q) : j >= i

QueuedOK(q, served, buf, n) ==
    \A i \in Remotes(q) : OwnData(i, q, served, buf) /\ q[i].id <= n

ServedOK(t, q, buf, n) == t.id <= n /\ (t.id # 0 =>
    buf = Data(t.id) /\ \A i \in Remotes(q) : q[i].id = 0)

SentOK(l, buf, n) == l <= n /\ (l # 0 /\ buf.id <= l => buf = Result(l))

DataInv == ~overrun =>
    /\ conthrd = "push" => Remotes(native_queue) = {} /\ ~Serves /\ remote_buf = Data(received)
    /\ QueuedOK(native_queue, Serves, remote_buf, received)
    /\ Serves => ServedOK(task, native_queue, remote_buf, received)
    /\ reqthrd = "rread" /\ task.id # 0 => card = Data(task.id)
    /\ sendtocli_queue # <<>> => SentOK(Last(sendtocli_queue).id, remote_buf, received)

(* A task queued behind the others.                                        *)
LEMMA RemotesAppended ==
    ASSUME NEW q \in Seq(Task), NEW t \in Task
    PROVE  /\ Remotes(Append(q, t)) = IF t.type = "remote" THEN Remotes(q) \cup {Len(q) + 1} ELSE Remotes(q)
           /\ \A i \in Remotes(q) : Append(q, t)[i] = q[i]
           /\ Append(q, t)[Len(q) + 1] = t
<1>1. /\ Len(q) \in Nat /\ DOMAIN q = 1 .. Len(q) /\ Len(Append(q, t)) = Len(q) + 1
      /\ DOMAIN Append(q, t) = 1 .. Len(q) + 1
      /\ \A i \in 1 .. Len(q) : Append(q, t)[i] = q[i]
      /\ Append(q, t)[Len(q) + 1] = t
    BY AppendProperties, LenProperties
<1> QED BY <1>1 DEF Remotes

(* The oldest task taken from the queue.                                   *)
LEMMA RemotesPopped ==
    ASSUME NEW q \in Seq(Task), q # <<>>
    PROVE  /\ \A i \in Remotes(Tail(q)) : i + 1 \in Remotes(q) /\ Tail(q)[i] = q[i + 1] /\ i \in Nat \ {0}
           /\ \A i \in Remotes(q) : i \in Nat /\ (i # 1 => i - 1 \in Remotes(Tail(q)))
           /\ Head(q).type = "remote" <=> 1 \in Remotes(q)
           /\ Head(q) = q[1]
<1>1. /\ Len(q) \in Nat \ {0} /\ DOMAIN q = 1 .. Len(q) /\ Len(Tail(q)) = Len(q) - 1
      /\ DOMAIN Tail(q) = 1 .. Len(q) - 1 /\ Head(q) = q[1]
      /\ \A i \in 1 .. Len(q) - 1 : Tail(q)[i] = q[i + 1]
    BY HeadTailProperties, LenProperties, EmptySeq
<1> QED BY <1>1 DEF Remotes

(* No step mixes up the data of two datagrams but one that overruns.       *)
LEMMA DataStep ==
    ASSUME NetInv, TypesInv, TypesInv', DataInv, [Next]_vars
    PROVE  DataInv'
<1>0. /\ native_queue \in Seq(Task) /\ task \in Task /\ received \in Nat
      /\ sendtocli_queue \in Seq(RemoteTask)
      /\ reqthrd \in {"rwrite", "rread"} => task.type = "remote"
    BY DEF TypesInv, QueuePart, MiscPart, TasksOK
<1> SUFFICES ASSUME ~overrun' PROVE DataInv'
    BY DEF DataInv
<1>a. ~overrun
    <2>1. CASE Receive
        BY <2>1 DEF Receive
    <2>2. CASE ~Receive
        <3>1. overrun' = overrun
            <4>1. CASE ReqThread
                BY <4>1 DEF ReqThread, WaitTask, Pop, DoWrite, AnswerTask, SendTask, RemoteWrite,
                   RemoteRead
            <4>2. CASE PushRemote \/ Exit \/ UNCHANGED vars
                BY <4>2 DEF PushRemote, Exit, vars
            <4>3. CASE \E g \in Guests : FrontPost(g) \/ FrontRead(g) \/ Interrupt(g) \/ Handler(g)
                BY <4>3 DEF FrontPost, FrontRead, Interrupt, Handler, Snapshot, Take, GiveUp,
                   FinalCheck, FreeReq, QueueWrite, Ioctl, Answer, Send
            <4> QED BY <2>2, <4>1, <4>2, <4>3 DEF Next
        <3> QED BY <3>1
    <2> QED BY <2>1, <2>2
<1>1. ASSUME UNCHANGED <<con_vars, remote_vars>>, Remotes(native_queue') = Remotes(native_queue),
             \A i \in Remotes(native_queue) : native_queue'[i] = native_queue[i],
             Serves' <=> Serves, reqthrd' = "rread" => reqthrd = "rread", Serves => task' = task
      PROVE  DataInv'
    <2>1. QueuedOK(native_queue', Serves', remote_buf', received')
        BY <1>1, <1>a DEF DataInv, QueuedOK, OwnData
    <2>2. Serves' => ServedOK(task', native_queue', remote_buf', received')
        BY <1>1, <1>a DEF DataInv, ServedOK
    <2>3. reqthrd' = "rread" => Serves
        BY <1>1 DEF Serves
    <2> QED BY <1>1, <1>a, <2>1, <2>2, <2>3 DEF DataInv
<1>2. CASE UNCHANGED vars \/ Exit \/ \E g \in Guests : FrontPost(g) \/ FrontRead(g) \/ Interrupt(g)
            \/ (Handler(g) /\ ~QueueWrite(g))
    <2>1. UNCHANGED <<con_vars, remote_vars, native_queue, reqthrd, task>>
        BY <1>2 DEF vars, Exit, FrontPost, FrontRead, Interrupt, Handler, Snapshot, Take,
           GiveUp, FinalCheck,
            FreeReq, Ioctl, Answer, Send
    <2> QED BY <1>1, <2>1 DEF Serves
<1>3. CASE \E g \in Guests : QueueWrite(g)
    <2>1. PICK g \in Guests : QueueWrite(g)
        BY <1>3
    <2> DEFINE t == [type |-> "native", data |-> g, req |-> req_cons[g], resp |-> Len(resp[g])]
    <2>2. native_queue' = Append(native_queue, t) /\ UNCHANGED <<con_vars, remote_vars, reqthrd, task>>
        BY <2>1 DEF QueueWrite
    <2>3. t \in Task
        <3>1. resp[g] \in Seq(Nat) /\ req_cons[g] \in Nat
            BY DEF TypesInv, RespPart, NetInv, NetTypes
        <3>2. Len(resp[g]) \in Nat
            BY <3>1, LenProperties
        <3> QED BY <3>1, <3>2 DEF Task, NativeTask
    <2>4. t.type # "remote"
        OBVIOUS
    <2> HIDE DEF t
    <2>5. /\ Remotes(native_queue') = Remotes(native_queue)
          /\ \A i \in Remotes(native_queue) : native_queue'[i] = native_queue[i]
        BY <1>0, <2>2, <2>3, <2>4, RemotesAppended
    <2>6. Serves' <=> Serves
        BY <2>2 DEF Serves
    <2> QED BY <1>1, <2>2, <2>5, <2>6
<1>4. CASE WaitTask \/ DoWrite \/ AnswerTask \/ SendTask
    <2>1. /\ UNCHANGED <<con_vars, remote_vars, native_queue, task>>
          /\ ~Serves /\ ~Serves' /\ reqthrd' # "rread"
        BY <1>4 DEF WaitTask, DoWrite, AnswerTask, SendTask, Calls, Serves
    <2> QED BY <1>1, <2>1
<1>5. CASE Pop
    <2>1. UNCHANGED <<con_vars, remote_vars>> /\ ~Serves /\ reqthrd' # "rread"
        BY <1>5 DEF Pop, Serves
    <2>2. CASE native_queue = <<>>
        <3>1. UNCHANGED native_queue /\ ~Serves'
            BY <1>5, <2>2 DEF Pop, Serves
        <3> QED BY <1>1, <2>1, <3>1
    <2>3. CASE native_queue # <<>>
        <3> DEFINE q == native_queue
        <3>1. /\ task' = Head(q) /\ native_queue' = Tail(q)
              /\ reqthrd' = IF task'.type = "native" THEN "write" ELSE "rwrite"
            BY <1>5, <2>3 DEF Pop
        <3>2. /\ \A i \in Remotes(Tail(q)) : i + 1 \in Remotes(q) /\ Tail(q)[i] = q[i + 1] /\ i \in Nat \ {0}
              /\ \A i \in Remotes(q) : i \in Nat /\ (i # 1 => i - 1 \in Remotes(Tail(q)))
              /\ Head(q).type = "remote" <=> 1 \in Remotes(q)
              /\ Head(q) = q[1]
            BY <1>0, <2>3, RemotesPopped
        <3>3. /\ QueuedOK(q, Serves, remote_buf, received)
              /\ conthrd = "push" => Remotes(q) = {}
            BY <1>a DEF DataInv
        <3>4. Serves' <=> Head(q).type = "remote"
            <4>1. Head(q) \in Task
                BY <1>0, <2>3, HeadTailProperties
            <4>2. Head(q).type \in {"native", "remote"}
                BY <4>1 DEF Task, NativeTask, RemoteTask
            <4> QED BY <3>1, <4>2 DEF Serves
        <3> HIDE DEF q
        <3>5. ASSUME NEW i \in Remotes(Tail(q)), Tail(q)[i].id # 0
              PROVE  /\ 1 \notin Remotes(q) /\ remote_buf = Data(Tail(q)[i].id)
                     /\ \A j \in Remotes(Tail(q)) : j >= i
            <4>1. i + 1 \in Remotes(q) /\ Tail(q)[i] = q[i + 1] /\ i \in Nat \ {0}
                BY <3>2
            <4>2. remote_buf = Data(q[i + 1].id) /\ \A j \in Remotes(q) : j >= i + 1
                BY <3>3, <3>5, <4>1 DEF QueuedOK, OwnData
            <4>3. 1 \notin Remotes(q)
                BY <4>1, <4>2
            <4>4. ASSUME NEW j \in Remotes(Tail(q)) PROVE j >= i
                <5>1. j + 1 \in Remotes(q) /\ j \in Nat
                    BY <3>2
                <5>2. j + 1 >= i + 1
                    BY <4>2, <5>1
                <5> QED BY <4>1, <5>1, <5>2
            <4> QED BY <4>1, <4>2, <4>3, <4>4
        <3>6. \A i \in Remotes(Tail(q)) : Tail(q)[i].id <= received
            BY <3>2, <3>3 DEF QueuedOK
        <3>7. QueuedOK(native_queue', Serves', remote_buf', received')
            <4>1. ASSUME NEW i \in Remotes(Tail(q)) PROVE OwnData(i, Tail(q), Serves', remote_buf)
                BY <3>2, <3>4, <3>5 DEF OwnData
            <4> QED BY <2>1, <3>1, <3>6, <4>1 DEF QueuedOK
        <3>8. Serves' => ServedOK(task', native_queue', remote_buf', received')
            <4> SUFFICES ASSUME Serves' PROVE ServedOK(Head(q), Tail(q), remote_buf, received)
                BY <2>1, <3>1
            <4>1. 1 \in Remotes(q) /\ Head(q) = q[1]
                BY <3>2, <3>4
            <4>2. q[1].id <= received /\ (q[1].id # 0 => remote_buf = Data(q[1].id))
                BY <3>3, <4>1 DEF QueuedOK, OwnData
            <4>3. \A i \in Remotes(Tail(q)) : Tail(q)[i].id = 0
                BY <3>5, <4>1
            <4> QED BY <4>1, <4>2, <4>3 DEF ServedOK
        <3>9. conthrd' = "push" => Remotes(native_queue') = {} /\ ~Serves'
            BY <2>1, <3>1, <3>2, <3>3, <3>4
        <3> QED BY <1>a, <2>1, <3>7, <3>8, <3>9 DEF DataInv
    <2> QED BY <2>2, <2>3
<1>6. CASE RemoteWrite
    <2>1. /\ reqthrd = "rwrite" /\ reqthrd' \in {"rread", "oops"} /\ card' = remote_buf
          /\ UNCHANGED <<con_vars, task, native_queue, remote_buf, sendtocli_queue>>
        BY <1>6 DEF RemoteWrite, Calls
    <2>2. Serves /\ ServedOK(task, native_queue, remote_buf, received) /\ conthrd # "push"
        BY <1>a, <2>1 DEF DataInv, Serves
    <2>3. QueuedOK(native_queue, Serves, remote_buf, received)
        BY <1>a DEF DataInv
    <2>4. QueuedOK(native_queue', Serves', remote_buf', received')
        BY <2>1, <2>2, <2>3 DEF QueuedOK, OwnData
    <2>5. ServedOK(task', native_queue', remote_buf', received') /\ conthrd' # "push"
        BY <2>1, <2>2
    <2>6. task'.id # 0 => card' = Data(task'.id)
        BY <2>1, <2>2 DEF ServedOK
    <2> QED BY <1>a, <2>1, <2>4, <2>5, <2>6 DEF DataInv
<1>7. CASE RemoteRead
    <2>1. /\ reqthrd = "rread" /\ reqthrd' \in {"wait", "oops"}
          /\ UNCHANGED <<con_vars, task, native_queue, card>>
        BY <1>7 DEF RemoteRead
    <2>2. /\ Serves /\ ~Serves' /\ conthrd # "push"
          /\ ServedOK(task, native_queue, remote_buf, received)
          /\ QueuedOK(native_queue, Serves, remote_buf, received)
          /\ task.id # 0 => card = Data(task.id)
        BY <1>a, <2>1 DEF DataInv, Serves
    <2>3. QueuedOK(native_queue', Serves', remote_buf', received')
        BY <2>1, <2>2 DEF QueuedOK, OwnData
    <2>4. CASE reqthrd' = "oops"
        <3>1. UNCHANGED <<remote_buf, sendtocli_queue>>
            BY <1>7, <2>4 DEF RemoteRead
        <3> QED BY <1>a, <2>1, <2>2, <2>3, <2>4, <3>1 DEF DataInv
    <2>5. CASE reqthrd' = "wait"
        <3>1. remote_buf' = Worked(card) /\ sendtocli_queue' = Append(sendtocli_queue, task)
            BY <1>7, <2>5 DEF RemoteRead
        <3>2. task \in RemoteTask
            BY <1>0, <2>1 DEF Task, NativeTask
        <3>3. Last(sendtocli_queue') = task
            BY <1>0, <3>1, <3>2, AppendProperties DEF Last
        <3>4. task.id # 0 => remote_buf' = Result(task.id)
            BY <2>2, <3>1 DEF Data, Result, Worked
        <3>5. SentOK(task.id, remote_buf', received')
            BY <2>1, <2>2, <3>4 DEF SentOK, ServedOK
        <3> QED BY <2>1, <2>2, <2>3, <2>5, <3>3, <3>5 DEF DataInv
    <2> QED BY <2>1, <2>4, <2>5
<1>8. CASE Receive
    <2>1. /\ conthrd = "recv" /\ received' = received + 1
          /\ UNCHANGED <<native_queue, reqthrd, task, sendtocli_queue, card>>
        BY <1>8 DEF Receive
    <2>2. sendtocli_queue # <<>> => Last(sendtocli_queue).id \in Nat
        <3> SUFFICES ASSUME sendtocli_queue # <<>> PROVE Last(sendtocli_queue).id \in Nat
            OBVIOUS
        <3>1. Last(sendtocli_queue) \in RemoteTask
            BY <1>0, LenProperties, EmptySeq DEF Last
        <3> QED BY <3>1 DEF RemoteTask
    <2>3. CASE conthrd' = "fail" /\ UNCHANGED remote_buf
        <3>1. \A i \in Remotes(native_queue) : native_queue[i].id \in Nat
            BY <1>0 DEF Remotes, Task, NativeTask, RemoteTask
        <3>2. Serves => task.id \in Nat
            BY <1>0 DEF Serves, Task, NativeTask, RemoteTask
        <3>3. QueuedOK(native_queue', Serves', remote_buf', received')
            BY <1>0, <1>a, <2>1, <2>3, <3>1 DEF DataInv, QueuedOK, Serves
        <3>4. Serves' => ServedOK(task', native_queue', remote_buf', received')
            BY <1>0, <1>a, <2>1, <2>3, <3>2 DEF DataInv, ServedOK, Serves
        <3>5. sendtocli_queue' # <<>> => SentOK(Last(sendtocli_queue').id, remote_buf', received')
            BY <1>0, <1>a, <2>1, <2>2, <2>3 DEF DataInv, SentOK
        <3> QED BY <1>a, <2>1, <2>3, <3>3, <3>4, <3>5 DEF DataInv
    <2>4. CASE conthrd' # "fail"
        <3>1. /\ remote_buf' = Data(received + 1)
              /\ overrun' = (overrun \/ \E t \in Tasks : t.type = "remote")
            BY <1>8, <2>4 DEF Receive, Data
        <3>2. \A t \in Tasks : t.type # "remote"
            BY <3>1
        <3>3. Remotes(native_queue) = {}
            BY <3>2 DEF Tasks, Remotes
        <3>4. ~Serves
            BY <1>0, <3>2 DEF Tasks, Serving, Serves
        <3>5. ~Serves' /\ Remotes(native_queue') = {} /\ reqthrd' # "rread"
            BY <2>1, <3>3, <3>4 DEF Serves
        <3>6. QueuedOK(native_queue', Serves', remote_buf', received')
            BY <3>5 DEF QueuedOK
        <3>7. sendtocli_queue' # <<>> => SentOK(Last(sendtocli_queue').id, remote_buf', received')
            BY <1>0, <1>a, <2>1, <2>2, <3>1 DEF DataInv, SentOK, Data
        <3>8. remote_buf' = Data(received')
            BY <2>1, <3>1
        <3> QED BY <3>5, <3>6, <3>7, <3>8 DEF DataInv
    <2> QED BY <1>8, <2>3, <2>4 DEF Receive
<1>9. CASE PushRemote
    <2> DEFINE t == NewTask
               k == Len(native_queue) + 1
    <2>1. /\ conthrd # "recv" /\ conthrd' = "recv" /\ native_queue' = Append(native_queue, t)
          /\ UNCHANGED <<reqthrd, task, received, remote_vars>>
        BY <1>9 DEF PushRemote
    <2>2. t \in Task /\ t.type = "remote" /\ t.id = IF conthrd = "push" THEN received ELSE 0
        BY NewTaskTyped DEF NewTask
    <2> HIDE DEF t
    <2>3. /\ Remotes(native_queue') = Remotes(native_queue) \cup {k}
          /\ \A i \in Remotes(native_queue) : native_queue'[i] = native_queue[i]
          /\ native_queue'[k] = t
        BY <1>0, <2>1, <2>2, RemotesAppended
    <2>4. k \in Nat /\ \A i \in Remotes(native_queue) : i \in Nat /\ k >= i
        BY <1>0, LenProperties DEF Remotes
    <2> HIDE DEF k
    <2>5. QueuedOK(native_queue, Serves, remote_buf, received)
        BY <1>a DEF DataInv
    <2>6. Serves' <=> Serves
        BY <2>1 DEF Serves
    <2>7. OwnData(k, native_queue', Serves', remote_buf') /\ native_queue'[k].id <= received'
        <3>1. CASE conthrd = "push"
            <4>1. Remotes(native_queue) = {} /\ ~Serves /\ remote_buf = Data(received)
                BY <1>a, <3>1 DEF DataInv
            <4>2. t.id = received /\ Remotes(native_queue') = {k}
                BY <2>2, <2>3, <3>1, <4>1
            <4> QED BY <1>0, <2>1, <2>3, <2>4, <2>6, <4>1, <4>2 DEF OwnData
        <3>2. CASE conthrd # "push"
            BY <1>0, <2>1, <2>2, <2>3, <3>2 DEF OwnData
        <3> QED BY <3>1, <3>2
    <2>8. ASSUME NEW i \in Remotes(native_queue)
          PROVE  OwnData(i, native_queue', Serves', remote_buf') /\ native_queue'[i].id <= received'
        <3>1. OwnData(i, native_queue, Serves, remote_buf) /\ native_queue[i].id <= received
            BY <2>5 DEF QueuedOK
        <3>2. native_queue'[i] = native_queue[i] /\ k >= i
            BY <2>3, <2>4
        <3> QED BY <2>1, <2>3, <2>6, <3>1, <3>2 DEF OwnData
    <2>9. QueuedOK(native_queue', Serves', remote_buf', received')
        BY <2>3, <2>7, <2>8 DEF QueuedOK
    <2>10. Serves' => ServedOK(task', native_queue', remote_buf', received')
        <3> SUFFICES ASSUME Serves PROVE ServedOK(task, native_queue', remote_buf, received)
            BY <2>1, <2>6
        <3>1. ServedOK(task, native_queue, remote_buf, received) /\ conthrd # "push"
            BY <1>a DEF DataInv
        <3> QED BY <2>2, <2>3, <3>1 DEF ServedOK
    <2> QED BY <1>a, <2>1, <2>9, <2>10 DEF DataInv
<1> QED BY <1>2, <1>3, <1>4, <1>5, <1>6, <1>7, <1>8, <1>9 DEF Next, ReqThread, Handler

(* As long as no datagram arrives while the task of an earlier receive,    *)
(* failed (data.c:656) or not, is queued or served, the card works on the  *)
(* data of the datagram that its task was queued for, whatever receives    *)
(* fail after that datagram, and the buffer keeps the last result until a  *)
(* later datagram comes (data.c:605-669, 828): one shared buffer is enough *)
(* for one client that waits.                                              *)
THEOREM DataIsItsOwn == Spec => []OwnDataUntilOverrun
<1>1. Init => DataInv
    <2> SUFFICES ASSUME Init PROVE DataInv
        OBVIOUS
    <2>1. native_queue = <<>> /\ conthrd = "recv" /\ reqthrd = "wait" /\ sendtocli_queue = <<>>
        BY DEF Init
    <2>2. Remotes(native_queue) = {}
        BY <2>1 DEF Remotes
    <2> QED BY <2>1, <2>2 DEF DataInv, QueuedOK, Serves
<1>2. ThreadInv /\ NetInv /\ TypesInv /\ [Next]_vars => TypesInv'
    BY ThreadStep, NetStep, TypesStep
<1>3. NetInv /\ TypesInv /\ TypesInv' /\ DataInv /\ [Next]_vars => DataInv'
    BY DataStep
<1>4. DataInv => OwnDataUntilOverrun
    BY DEF DataInv, SentOK, Data, Result, Last, OwnDataUntilOverrun
<1> QED BY <1>1, <1>2, <1>3, <1>4, InitTypes, ThreadFindsTasks, HandlersAccounted, PTL DEF Spec

-----------------------------------------------------------------------------
(* Counting. How many requests of a guest reqthread has in its hands, the  *)
(* places of its tasks among the first k of the queue, the MAPs among its  *)
(* first n requests, and its tasks in the queue.                           *)
ThreadHas(th, t, g) == IF th \in Working /\ t.type = "native" /\ t.data = g THEN 1 ELSE 0

Upto(q, g, k) == {i \in 1 .. k : q[i].type = "native" /\ q[i].data = g}
Maps(s, n) == {i \in 1 .. n : s[i] = "MAP"}

Waiting(q, g) == Cardinality(Upto(q, g, Len(q)))

(* Every request taken is answered, queued, in somebody's hands or a MAP.  *)
CountInv == \A g \in Guests :
    rsp_prod[g] + Waiting(native_queue, g) + ThreadHas(reqthrd, task, g) + HandlerHas(irq, g)
        + Cardinality(Maps(script[g], req_cons[g])) = req_cons[g]

(* One more of a set of places.                                            *)
LEMMA OneMore ==
    ASSUME NEW k \in Nat, NEW S, S \subseteq 1 .. k
    PROVE  /\ IsFiniteSet(S) /\ Cardinality(S) \in Nat
           /\ Cardinality(S \cup {k + 1}) = Cardinality(S) + 1
<1>1. IsFiniteSet(1 .. k)
    BY FS_Interval
<1>2. IsFiniteSet(S) /\ Cardinality(S) \in Nat
    BY <1>1, FS_Subset, FS_CardinalityType
<1>3. k + 1 \notin S
    OBVIOUS
<1>4. Cardinality(S \cup {k + 1}) = Cardinality(S) + 1
    BY <1>2, <1>3, FS_AddElement
<1> QED BY <1>2, <1>4

(* Whether a task is a guest's, as a number.                               *)
IsOf(t, g) == IF t.type = "native" /\ t.data = g THEN 1 ELSE 0

(* The tasks of a guest counted place by place.                            *)
LEMMA UptoNext ==
    ASSUME NEW q, NEW g, NEW k \in Nat
    PROVE  /\ Cardinality(Upto(q, g, k)) \in Nat
           /\ Cardinality(Upto(q, g, k + 1)) = Cardinality(Upto(q, g, k)) + IsOf(q[k + 1], g)
<1>1. Upto(q, g, k) \subseteq 1 .. k
    BY DEF Upto
<1>2. 1 .. k + 1 = (1 .. k) \cup {k + 1}
    OBVIOUS
<1>3. IsOf(q[k + 1], g) = 1 => Upto(q, g, k + 1) = Upto(q, g, k) \cup {k + 1}
    BY <1>2 DEF Upto, IsOf
<1>4. IsOf(q[k + 1], g) = 0 => Upto(q, g, k + 1) = Upto(q, g, k)
    BY <1>2 DEF Upto, IsOf
<1>5. IsOf(q[k + 1], g) \in {0, 1}
    BY DEF IsOf
<1>6. /\ Cardinality(Upto(q, g, k)) \in Nat
      /\ Cardinality(Upto(q, g, k) \cup {k + 1}) = Cardinality(Upto(q, g, k)) + 1
    BY <1>1, OneMore
<1> QED BY <1>3, <1>4, <1>5, <1>6

(* The MAPs counted request by request.                                    *)
LEMMA MapsNext ==
    ASSUME NEW s, NEW k \in Nat
    PROVE  /\ Cardinality(Maps(s, k)) \in Nat
           /\ Cardinality(Maps(s, k + 1)) = Cardinality(Maps(s, k)) + IF s[k + 1] = "MAP" THEN 1 ELSE 0
<1>1. Maps(s, k) \subseteq 1 .. k
    BY DEF Maps
<1>2. 1 .. k + 1 = (1 .. k) \cup {k + 1}
    OBVIOUS
<1>3. s[k + 1] = "MAP" => Maps(s, k + 1) = Maps(s, k) \cup {k + 1}
    BY <1>2 DEF Maps
<1>4. s[k + 1] # "MAP" => Maps(s, k + 1) = Maps(s, k)
    BY <1>2 DEF Maps
<1>5. /\ Cardinality(Maps(s, k)) \in Nat
      /\ Cardinality(Maps(s, k) \cup {k + 1}) = Cardinality(Maps(s, k)) + 1
    BY <1>1, OneMore
<1> QED BY <1>3, <1>4, <1>5

(* A task appended is counted once, for its guest, and the places before   *)
(* it stay.                                                                *)
LEMMA WaitingAppended ==
    ASSUME NEW q \in Seq(Task), NEW t \in Task, NEW g
    PROVE  /\ Waiting(q, g) \in Nat
           /\ Waiting(Append(q, t), g) = Waiting(q, g) + IsOf(t, g)
           /\ \A k \in 0 .. Len(q) : Upto(Append(q, t), g, k) = Upto(q, g, k)
<1>1. /\ Len(q) \in Nat /\ Len(Append(q, t)) = Len(q) + 1
      /\ \A i \in 1 .. Len(q) : Append(q, t)[i] = q[i]
      /\ Append(q, t)[Len(q) + 1] = t
    BY AppendProperties, LenProperties
<1>2. \A k \in 0 .. Len(q) : Upto(Append(q, t), g, k) = Upto(q, g, k)
    BY <1>1 DEF Upto
<1>3. Upto(Append(q, t), g, Len(q)) = Upto(q, g, Len(q))
    BY <1>1, <1>2
<1>4. Waiting(Append(q, t), g) = Cardinality(Upto(Append(q, t), g, Len(q) + 1))
    BY <1>1 DEF Waiting
<1> DEFINE p == Append(q, t)
<1>5. Cardinality(Upto(p, g, Len(q) + 1)) = Cardinality(Upto(p, g, Len(q))) + IsOf(t, g)
    <2>1. p[Len(q) + 1] = t
        BY <1>1
    <2> HIDE DEF p
    <2> QED BY <1>1, <2>1, UptoNext
<1>6. Waiting(q, g) \in Nat
    BY <1>1, UptoNext DEF Waiting
<1> QED BY <1>2, <1>3, <1>4, <1>5, <1>6 DEF Waiting

(* When the oldest task is popped the others move up one place each.       *)
LEMMA UptoTail ==
    ASSUME NEW q \in Seq(Task), q # <<>>, NEW g, NEW k \in 0 .. Len(q) - 1
    PROVE  Cardinality(Upto(q, g, k + 1)) = Cardinality(Upto(Tail(q), g, k)) + IsOf(Head(q), g)
<1>1. /\ Len(q) \in Nat \ {0} /\ Head(q) = q[1]
      /\ \A i \in 1 .. Len(q) - 1 : Tail(q)[i] = q[i + 1]
    BY HeadTailProperties, LenProperties, EmptySeq
<1> DEFINE S == Upto(Tail(q), g, k)
           T == {i \in 2 .. k + 1 : q[i].type = "native" /\ q[i].data = g}
           f == [i \in S |-> i + 1]
<1>2. k \in Nat /\ S \subseteq 1 .. k /\ IsFiniteSet(S) /\ Cardinality(S) \in Nat
    <2>1. k \in Nat /\ S \subseteq 1 .. k
        BY <1>1 DEF Upto
    <2> HIDE DEF S
    <2> QED BY <2>1, OneMore
<1>3. \A i \in S : i + 1 \in T
    BY <1>1 DEF Upto
<1>4. \A j \in T : j - 1 \in S /\ f[j - 1] = j
    BY <1>1 DEF Upto
<1>5. f \in Bijection(S, T)
    <2>1. f \in [S -> T] /\ \A i, j \in S : f[i] = f[j] => i = j
        BY <1>2, <1>3
    <2>2. \A j \in T : \E i \in S : f[i] = j
        BY <1>4
    <2> HIDE DEF S, T, f
    <2> QED BY <2>1, <2>2 DEF Bijection, Injection, Surjection, IsInjective
<1>6. IsFiniteSet(T) /\ Cardinality(T) = Cardinality(S)
    <2> HIDE DEF S, T, f
    <2> QED BY <1>2, <1>5, FS_Bijection DEF ExistsBijection
<1>7. 1 \notin T /\ 1 .. k + 1 = {1} \cup 2 .. k + 1
    BY <1>2
<1>8. IsOf(Head(q), g) = 1 => Upto(q, g, k + 1) = T \cup {1}
    BY <1>1, <1>7 DEF Upto, IsOf
<1>9. IsOf(Head(q), g) = 0 => Upto(q, g, k + 1) = T
    BY <1>1, <1>7 DEF Upto, IsOf
<1>10. IsOf(Head(q), g) \in {0, 1}
    BY DEF IsOf
<1>11. Cardinality(T \cup {1}) = Cardinality(T) + 1
    <2> HIDE DEF T
    <2> QED BY <1>6, <1>7, FS_AddElement
<1>12. Cardinality(S) = Cardinality(Upto(Tail(q), g, k))
    OBVIOUS
<1> HIDE DEF S, T
<1>13. CASE IsOf(Head(q), g) = 1
    BY <1>2, <1>6, <1>8, <1>11, <1>12, <1>13
<1>14. CASE IsOf(Head(q), g) = 0
    BY <1>2, <1>6, <1>9, <1>12, <1>14
<1> QED BY <1>10, <1>13, <1>14

(* A task popped is counted no more.                                       *)
LEMMA WaitingPopped ==
    ASSUME NEW q \in Seq(Task), q # <<>>, NEW g
    PROVE  /\ Waiting(Tail(q), g) \in Nat
           /\ Waiting(q, g) = Waiting(Tail(q), g) + IsOf(Head(q), g)
<1>1. /\ Len(q) \in Nat \ {0} /\ Len(Tail(q)) = Len(q) - 1
    BY HeadTailProperties, LenProperties, EmptySeq
<1> DEFINE k == Len(q) - 1
<1>2. k \in 0 .. Len(q) - 1 /\ k + 1 = Len(q) /\ k \in Nat /\ Len(Tail(q)) = k
    BY <1>1
<1> HIDE DEF k
<1>3. Cardinality(Upto(q, g, k + 1)) = Cardinality(Upto(Tail(q), g, k)) + IsOf(Head(q), g)
    BY <1>2, UptoTail
<1>4. Cardinality(Upto(Tail(q), g, k)) \in Nat
    BY <1>2, UptoNext
<1> QED BY <1>2, <1>3, <1>4 DEF Waiting

(* The counts are numbers.                                                 *)
LEMMA Counts ==
    ASSUME NetInv, TypesInv, NEW g \in Guests
    PROVE  /\ rsp_prod[g] \in Nat /\ req_cons[g] \in Nat /\ Waiting(native_queue, g) \in Nat
           /\ HandlerHas(irq, g) \in {0, 1} /\ ThreadHas(reqthrd, task, g) \in {0, 1}
           /\ Cardinality(Maps(script[g], req_cons[g])) \in Nat
<1>1. rsp_prod[g] \in Nat /\ req_cons[g] \in Nat /\ native_queue \in Seq(Task)
    BY DEF NetInv, NetTypes, TypesInv, QueuePart
<1>2. Waiting(native_queue, g) \in Nat
    BY <1>1, UptoNext, LenProperties DEF Waiting
<1>3. Cardinality(Maps(script[g], req_cons[g])) \in Nat
    BY <1>1, MapsNext
<1> QED BY <1>1, <1>2, <1>3 DEF HandlerHas, ThreadHas

(* The guests' requests are fixed: no step changes the script.             *)
LEMMA ScriptKeeps ==
    ASSUME [Next]_vars
    PROVE  script' = script
<1>1. CASE \E g \in Guests : FrontPost(g) \/ FrontRead(g) \/ Interrupt(g)
    BY <1>1 DEF FrontPost, Post, FrontRead, FrontInterrupt, Interrupt
<1>2. CASE \E g \in Guests : Handler(g)
    BY <1>2 DEF Handler, Snapshot, Take, GiveUp, FinalCheck, FreeReq, QueueWrite, Ioctl, Answer,
       Send
<1>3. CASE ReqThread
    BY <1>3 DEF ReqThread, WaitTask, Pop, DoWrite, AnswerTask, SendTask, RemoteWrite, RemoteRead
<1>4. CASE Receive \/ PushRemote \/ Exit \/ UNCHANGED vars
    BY <1>4 DEF Receive, PushRemote, Exit, vars
<1> QED BY <1>1, <1>2, <1>3, <1>4 DEF Next

(* Every request that was taken is answered, in somebody's hands, queued   *)
(* or a MAP.                                                               *)
LEMMA CountStep ==
    ASSUME ThreadInv, NetInv, NetInv', TypesInv, TypesInv', CountInv, [Next]_vars
    PROVE  CountInv'
<1>0. /\ native_queue \in Seq(Task) /\ task \in Task /\ irq \in [Guests -> IrqPlaces]
      /\ req_cons \in [Guests -> Nat] /\ rsp_prod \in [Guests -> Nat]
      /\ reqthrd \in {"rwrite", "rread"} => task.type = "remote"
      /\ reqthrd \in {"write", "fill", "send"} => task.type = "native"
      /\ \A g \in Guests :
            /\ rsp_prod[g] \in Nat /\ req_cons[g] \in Nat /\ Waiting(native_queue, g) \in Nat
            /\ HandlerHas(irq, g) \in {0, 1} /\ ThreadHas(reqthrd, task, g) \in {0, 1}
            /\ Cardinality(Maps(script[g], req_cons[g])) \in Nat
    BY Counts DEF NetInv, NetTypes, TypesInv, QueuePart, TasksOK, Working
<1>s. script' = script
    BY ScriptKeeps
<1>1. ASSUME UNCHANGED <<rsp_prod, req_cons>>,
             \A g \in Guests : Waiting(native_queue', g) + ThreadHas(reqthrd', task', g) + HandlerHas(irq', g)
                             = Waiting(native_queue, g) + ThreadHas(reqthrd, task, g) + HandlerHas(irq, g)
      PROVE  CountInv'
    <2> SUFFICES ASSUME NEW g \in Guests
                 PROVE  rsp_prod[g] + Waiting(native_queue', g) + ThreadHas(reqthrd', task', g)
                            + HandlerHas(irq', g) + Cardinality(Maps(script[g], req_cons[g])) = req_cons[g]
        BY <1>1, <1>s DEF CountInv
    <2>1. rsp_prod[g] + Waiting(native_queue, g) + ThreadHas(reqthrd, task, g)
            + HandlerHas(irq, g) + Cardinality(Maps(script[g], req_cons[g])) = req_cons[g]
        BY DEF CountInv
    <2>2. /\ Waiting(native_queue', g) \in Nat /\ HandlerHas(irq', g) \in {0, 1}
          /\ ThreadHas(reqthrd', task', g) \in {0, 1}
        <3>1. native_queue' \in Seq(Task)
            BY DEF TypesInv, QueuePart
        <3> QED BY <3>1, UptoNext, LenProperties DEF Waiting, HandlerHas, ThreadHas
    <2>3. Waiting(native_queue', g) + ThreadHas(reqthrd', task', g) + HandlerHas(irq', g)
            = Waiting(native_queue, g) + ThreadHas(reqthrd, task, g) + HandlerHas(irq, g)
        BY <1>1
    <2>4. /\ rsp_prod[g] \in Nat /\ req_cons[g] \in Nat /\ Waiting(native_queue, g) \in Nat
          /\ HandlerHas(irq, g) \in {0, 1} /\ ThreadHas(reqthrd, task, g) \in {0, 1}
          /\ Cardinality(Maps(script[g], req_cons[g])) \in Nat
        BY <1>0
    <2> QED BY <2>1, <2>2, <2>3, <2>4
<1>2. CASE UNCHANGED vars \/ Exit \/ Receive \/ \E g \in Guests : FrontPost(g) \/ FrontRead(g)
    <2>1. UNCHANGED <<rsp_prod, req_cons, irq, native_queue, reqthrd, task>>
        BY <1>2 DEF vars, Exit, Receive, FrontPost, Post, FrontRead, FrontInterrupt
    <2> QED BY <1>1, <2>1
<1>3. CASE \E g \in Guests : Interrupt(g) \/ Snapshot(g) \/ GiveUp(g) \/ FinalCheck(g) \/ FreeReq(g)
                             \/ Ioctl(g) \/ Answer(g)
    <2>1. PICK g \in Guests : Interrupt(g) \/ Snapshot(g) \/ GiveUp(g) \/ FinalCheck(g) \/ FreeReq(g)
                             \/ Ioctl(g) \/ Answer(g)
        BY <1>3
    <2>2. UNCHANGED <<rsp_prod, req_cons, native_queue, reqthrd, task>>
        BY <2>1 DEF Interrupt, Snapshot, GiveUp, FinalCheck, AskForEvent, FreeReq, Ioctl, Answer
    <2>3. \E to : irq' = [irq EXCEPT ![g] = to] /\ (to \in Busy <=> irq[g] \in Busy)
        BY <2>1 DEF Interrupt, Snapshot, GiveUp, FinalCheck, FreeReq, Ioctl, Answer, Calls, Busy
    <2>4. \A h \in Guests : HandlerHas(irq', h) = HandlerHas(irq, h)
        BY <1>0, <2>3 DEF HandlerHas
    <2> QED BY <1>1, <2>2, <2>4
<1>4. CASE \E g \in Guests : QueueWrite(g)
    <2>1. PICK g \in Guests : QueueWrite(g)
        BY <1>4
    <2> DEFINE t == [type |-> "native", data |-> g, req |-> req_cons[g], resp |-> Len(resp[g])]
    <2>2. /\ irq[g] = "queue" /\ irq' = [irq EXCEPT ![g] = "put"]
          /\ native_queue' = Append(native_queue, t)
          /\ UNCHANGED <<rsp_prod, req_cons, reqthrd, task>>
        BY <2>1 DEF QueueWrite
    <2>3. t \in Task /\ \A h \in Guests : IsOf(t, h) = IF h = g THEN 1 ELSE 0
        <3>1. resp[g] \in Seq(Nat)
            BY DEF TypesInv, RespPart
        <3>2. Len(resp[g]) \in Nat
            BY <3>1, LenProperties
        <3> QED BY <1>0, <3>2 DEF Task, NativeTask, IsOf
    <2> HIDE DEF t
    <2>4. \A h \in Guests : Waiting(native_queue', h) = Waiting(native_queue, h) + IF h = g THEN 1 ELSE 0
        BY <1>0, <2>2, <2>3, WaitingAppended
    <2>5. \A h \in Guests : HandlerHas(irq, h) = HandlerHas(irq', h) + IF h = g THEN 1 ELSE 0
        BY <1>0, <2>2 DEF HandlerHas, Busy
    <2>6. ASSUME NEW h \in Guests
          PROVE  Waiting(native_queue', h) + ThreadHas(reqthrd', task', h) + HandlerHas(irq', h)
                   = Waiting(native_queue, h) + ThreadHas(reqthrd, task, h) + HandlerHas(irq, h)
        <3>1. HandlerHas(irq', h) \in {0, 1} /\ ThreadHas(reqthrd', task', h) = ThreadHas(reqthrd, task, h)
            BY <2>2 DEF HandlerHas
        <3>2. Waiting(native_queue, h) \in Nat /\ ThreadHas(reqthrd, task, h) \in {0, 1}
            BY <1>0
        <3>3. CASE h = g
            BY <2>4, <2>5, <3>1, <3>2, <3>3
        <3>4. CASE h # g
            BY <2>4, <2>5, <3>1, <3>2, <3>4
        <3> QED BY <3>3, <3>4
    <2> QED BY <1>1, <2>2, <2>6
<1>5. CASE PushRemote
    <2> DEFINE t == NewTask
    <2>1. native_queue' = Append(native_queue, t) /\ UNCHANGED <<rsp_prod, req_cons, irq, reqthrd, task>>
        BY <1>5 DEF PushRemote
    <2>2. t \in Task /\ \A h \in Guests : IsOf(t, h) = 0
        BY NewTaskTyped DEF NewTask, IsOf
    <2> HIDE DEF t
    <2>3. \A h \in Guests : Waiting(native_queue', h) = Waiting(native_queue, h)
        BY <1>0, <2>1, <2>2, WaitingAppended
    <2> QED BY <1>1, <2>1, <2>3
<1>6. CASE Pop
    <2>1. UNCHANGED <<rsp_prod, req_cons, irq>> /\ reqthrd = "pop"
        BY <1>6 DEF Pop
    <2>2. \A h \in Guests : ThreadHas(reqthrd, task, h) = 0
        BY <2>1 DEF ThreadHas, Working
    <2>3. CASE native_queue = <<>>
        <3>1. native_queue' = native_queue /\ reqthrd' = "null"
            BY <1>6, <2>3 DEF Pop
        <3>2. \A h \in Guests : ThreadHas(reqthrd', task', h) = 0
            BY <3>1 DEF ThreadHas, Working
        <3> QED BY <1>1, <2>1, <2>2, <3>1, <3>2
    <2>4. CASE native_queue # <<>>
        <3>1. /\ task' = Head(native_queue) /\ native_queue' = Tail(native_queue)
              /\ reqthrd' = IF task'.type = "native" THEN "write" ELSE "rwrite"
            BY <1>6, <2>4 DEF Pop
        <3>2. \A h \in Guests : ThreadHas(reqthrd', task', h) = IsOf(Head(native_queue), h)
            BY <3>1 DEF ThreadHas, IsOf, Working
        <3>3. \A h \in Guests : /\ Waiting(native_queue', h) \in Nat
                                /\ Waiting(native_queue, h) = Waiting(native_queue', h) + IsOf(Head(native_queue), h)
            BY <1>0, <2>4, <3>1, WaitingPopped
        <3>4. \A h \in Guests : IsOf(Head(native_queue), h) \in {0, 1}
            BY DEF IsOf
        <3> QED BY <1>0, <1>1, <2>1, <2>2, <3>2, <3>3, <3>4
    <2> QED BY <2>3, <2>4
<1>7. CASE WaitTask \/ DoWrite \/ AnswerTask \/ RemoteWrite \/ RemoteRead
    <2>1. UNCHANGED <<rsp_prod, req_cons, irq, native_queue, task>>
        BY <1>7 DEF WaitTask, DoWrite, AnswerTask, RemoteWrite, RemoteRead
    <2>2. (reqthrd \in Working <=> reqthrd' \in Working) \/ task.type = "remote"
        BY <1>0, <1>7 DEF WaitTask, DoWrite, AnswerTask, RemoteWrite, RemoteRead, Calls, Working
    <2>3. \A h \in Guests : ThreadHas(reqthrd', task', h) = ThreadHas(reqthrd, task, h)
        BY <2>1, <2>2 DEF ThreadHas
    <2> QED BY <1>1, <2>1, <2>3
<1>8. CASE SendTask
    <2>1. /\ reqthrd = "send" /\ reqthrd' = "wait" /\ rsp_prod' = [rsp_prod EXCEPT ![task.data] = @ + 1]
          /\ UNCHANGED <<req_cons, irq, native_queue, task>>
        BY <1>8 DEF SendTask, PushResponse
    <2>2. \A h \in Guests : /\ ThreadHas(reqthrd', task', h) = 0
                            /\ ThreadHas(reqthrd, task, h) = IF h = task.data THEN 1 ELSE 0
                            /\ rsp_prod'[h] = rsp_prod[h] + IF h = task.data THEN 1 ELSE 0
        BY <1>0, <2>1 DEF ThreadHas, Working
    <2> QED BY <1>0, <1>s, <2>1, <2>2 DEF CountInv
<1>9. CASE \E g \in Guests : Send(g)
    <2>1. PICK g \in Guests : Send(g)
        BY <1>9
    <2>2. /\ irq[g] = "send" /\ irq' = [irq EXCEPT ![g] = "put"]
          /\ rsp_prod' = [rsp_prod EXCEPT ![g] = @ + 1]
          /\ UNCHANGED <<req_cons, reqthrd, native_queue, task>>
        BY <2>1 DEF Send, PushResponse
    <2>3. \A h \in Guests : /\ HandlerHas(irq, h) = HandlerHas(irq', h) + IF h = g THEN 1 ELSE 0
                            /\ rsp_prod'[h] = rsp_prod[h] + IF h = g THEN 1 ELSE 0
                            /\ HandlerHas(irq', h) \in {0, 1}
        BY <1>0, <2>2 DEF HandlerHas, Busy
    <2> SUFFICES ASSUME NEW h \in Guests
                 PROVE  rsp_prod'[h] + Waiting(native_queue, h) + ThreadHas(reqthrd, task, h)
                            + HandlerHas(irq', h) + Cardinality(Maps(script[h], req_cons[h])) = req_cons[h]
        BY <1>s, <2>2 DEF CountInv
    <2>4. rsp_prod[h] + Waiting(native_queue, h) + ThreadHas(reqthrd, task, h)
            + HandlerHas(irq, h) + Cardinality(Maps(script[h], req_cons[h])) = req_cons[h]
        BY DEF CountInv
    <2>5. /\ rsp_prod[h] \in Nat /\ req_cons[h] \in Nat /\ Waiting(native_queue, h) \in Nat
          /\ HandlerHas(irq, h) \in {0, 1} /\ ThreadHas(reqthrd, task, h) \in {0, 1}
          /\ Cardinality(Maps(script[h], req_cons[h])) \in Nat
        BY <1>0
    <2>6. CASE h = g
        BY <2>3, <2>4, <2>5, <2>6
    <2>7. CASE h # g
        BY <2>3, <2>4, <2>5, <2>7
    <2> QED BY <2>6, <2>7
<1>10. CASE \E g \in Guests : Take(g)
    <2>1. PICK g \in Guests : Take(g)
        BY <1>10
    <2> DEFINE op == script[g][req_cons[g] + 1]
    <2>2. /\ irq[g] = "scan" /\ irq' = [irq EXCEPT ![g] = Entry[op]]
          /\ req_cons' = [req_cons EXCEPT ![g] = @ + 1]
          /\ UNCHANGED <<rsp_prod, reqthrd, native_queue, task>>
        BY <2>1 DEF Take, TakeRequest
    <2>3. op \in Ops
        BY <2>1, TakenIsOp DEF Take, NetInv
    <2>4. Entry[op] \in Busy <=> op # "MAP"
        BY <2>3 DEF Ops, Entry, Busy
    <2>5. Cardinality(Maps(script[g], req_cons[g] + 1))
            = Cardinality(Maps(script[g], req_cons[g])) + IF op = "MAP" THEN 1 ELSE 0
        BY <1>0, MapsNext
    <2> HIDE DEF op
    <2>6. /\ HandlerHas(irq, g) = 0 /\ HandlerHas(irq', g) = IF op = "MAP" THEN 0 ELSE 1
          /\ req_cons'[g] = req_cons[g] + 1
          /\ \A h \in Guests \ {g} : HandlerHas(irq', h) = HandlerHas(irq, h) /\ req_cons'[h] = req_cons[h]
        BY <1>0, <2>2, <2>4 DEF HandlerHas, Busy
    <2>7. \A h \in Guests \ {g} :
            rsp_prod'[h] + Waiting(native_queue', h) + ThreadHas(reqthrd', task', h) + HandlerHas(irq', h)
                + Cardinality(Maps(script'[h], req_cons'[h])) = req_cons'[h]
        BY <1>s, <2>2, <2>6 DEF CountInv
    <2>8. rsp_prod[g] + Waiting(native_queue, g) + ThreadHas(reqthrd, task, g) + HandlerHas(irq, g)
            + Cardinality(Maps(script[g], req_cons[g])) = req_cons[g]
        BY DEF CountInv
    <2>9. rsp_prod[g] + Waiting(native_queue, g) + ThreadHas(reqthrd, task, g) + HandlerHas(irq', g)
            + Cardinality(Maps(script[g], req_cons[g] + 1)) = req_cons[g] + 1
        <3>1. /\ rsp_prod[g] \in Nat /\ req_cons[g] \in Nat /\ Waiting(native_queue, g) \in Nat
              /\ ThreadHas(reqthrd, task, g) \in {0, 1}
              /\ Cardinality(Maps(script[g], req_cons[g])) \in Nat
            BY <1>0
        <3>2. CASE op = "MAP"
            BY <2>5, <2>6, <2>8, <3>1, <3>2
        <3>3. CASE op # "MAP"
            BY <2>5, <2>6, <2>8, <3>1, <3>3
        <3> QED BY <3>2, <3>3
    <2>10. rsp_prod'[g] + Waiting(native_queue', g) + ThreadHas(reqthrd', task', g) + HandlerHas(irq', g)
            + Cardinality(Maps(script'[g], req_cons'[g])) = req_cons'[g]
        BY <1>s, <2>2, <2>6, <2>9
    <2> QED BY <2>7, <2>10 DEF CountInv
<1> QED BY <1>2, <1>3, <1>4, <1>5, <1>6, <1>7, <1>8, <1>9, <1>10 DEF Next, ReqThread, Handler

(* What is outstanding is queued or in somebody's hands.                   *)
LEMMA OutstandingIs ==
    ASSUME NetInv, TypesInv, NEW g \in Guests
    PROVE  Outstanding(g) = Waiting(native_queue, g) + ThreadHas(reqthrd, task, g) + HandlerHas(irq, g)
<1>1. native_queue \in Seq(Task)
    BY DEF TypesInv, QueuePart
<1>2. Upto(native_queue, g, Len(native_queue))
        = {i \in DOMAIN native_queue : native_queue[i].type = "native" /\ native_queue[i].data = g}
    BY <1>1, LenProperties DEF Upto
<1> DEFINE T == {t \in {task} : reqthrd \in {"write", "fill", "send", "oops"} /\ t.type = "native" /\ t.data = g}
<1>3. Cardinality(T) = ThreadHas(reqthrd, task, g)
    <2>1. ThreadHas(reqthrd, task, g) = 1 => T = {task}
        BY DEF ThreadHas, Working
    <2>2. ThreadHas(reqthrd, task, g) = 0 => T = {}
        BY DEF ThreadHas, Working
    <2>3. ThreadHas(reqthrd, task, g) \in {0, 1}
        BY DEF ThreadHas
    <2> HIDE DEF T
    <2> QED BY <2>1, <2>2, <2>3, FS_EmptySet, FS_Singleton
<1> QED BY <1>2, <1>3 DEF Outstanding, Waiting, HandlerHas, Busy

(* What is dealt with is answered or a MAP.                                *)
LEMMA DealtIs ==
    NetInv /\ TypesInv /\ CountInv =>
        \A g \in Guests : Dealt(g) = rsp_prod[g] + Cardinality(Maps(script[g], req_cons[g]))
<1> SUFFICES ASSUME NetInv, TypesInv, CountInv, NEW g \in Guests
             PROVE  Dealt(g) = rsp_prod[g] + Cardinality(Maps(script[g], req_cons[g]))
    OBVIOUS
<1> DEFINE m == Cardinality(Maps(script[g], req_cons[g]))
           w == Waiting(native_queue, g)
           h == HandlerHas(irq, g)
           d == ThreadHas(reqthrd, task, g)
<1>1. rsp_prod[g] + w + d + h + m = req_cons[g]
    BY DEF CountInv
<1>2. Dealt(g) = req_cons[g] - (w + d + h)
    BY OutstandingIs DEF Dealt
<1>3. /\ rsp_prod[g] \in Nat /\ req_cons[g] \in Nat /\ w \in Nat /\ m \in Nat
      /\ h \in {0, 1} /\ d \in {0, 1}
    BY Counts
<1> HIDE DEF m, w, h, d
<1>4. Dealt(g) = rsp_prod[g] + m
    BY <1>1, <1>2, <1>3
<1> QED BY <1>4 DEF m

(* The counts agree initially.                                             *)
LEMMA InitCount == Init => CountInv
<1> SUFFICES ASSUME Init, NEW g \in Guests
             PROVE  rsp_prod[g] + Waiting(native_queue, g) + ThreadHas(reqthrd, task, g) + HandlerHas(irq, g)
                        + Cardinality(Maps(script[g], req_cons[g])) = req_cons[g]
    BY DEF CountInv
<1>1. rsp_prod[g] = 0 /\ req_cons[g] = 0 /\ native_queue = <<>> /\ reqthrd = "wait" /\ irq[g] = "idle"
    BY DEF Init, RingInit
<1>2. Upto(native_queue, g, Len(native_queue)) = {} /\ Maps(script[g], req_cons[g]) = {}
    BY <1>1 DEF Upto, Maps
<1>3. Waiting(native_queue, g) = 0 /\ Cardinality(Maps(script[g], req_cons[g])) = 0
    BY <1>2, FS_EmptySet DEF Waiting
<1>4. ThreadHas(reqthrd, task, g) = 0 /\ HandlerHas(irq, g) = 0
    BY <1>1 DEF ThreadHas, HandlerHas, Working, Busy
<1> QED BY <1>1, <1>3, <1>4

(* The invariants so far, together.                                        *)
NetDom0Inv == ThreadInv /\ NetInv /\ TypesInv /\ CountInv

(* They hold in every state of the handlers and the threads.               *)
THEOREM RequestsCounted == Spec => []NetDom0Inv
<1>1. Init => TypesInv /\ CountInv
    BY InitTypes, InitCount
<1>2. ThreadInv /\ NetInv /\ (TypesInv /\ CountInv) /\ [Next]_vars => (TypesInv /\ CountInv)'
    BY ThreadStep, NetStep, TypesStep, CountStep
<1> QED BY <1>1, <1>2, ThreadFindsTasks, HandlersAccounted, PTL DEF Spec, NetDom0Inv

(* Every request that is dealt with and wants an answer has one response   *)
(* (data.c:234-263, 427), whether the handler or reqthread gave it and     *)
(* however their steps interleave.                                         *)
THEOREM EachIsAnsweredOnce == Spec => []OneResponseEach
<1>1. NetDom0Inv => OneResponseEach
    <2> SUFFICES ASSUME NetDom0Inv, NEW g \in Guests
                 PROVE  rsp_prod[g] = Dealt(g) - Cardinality({n \in 1 .. req_cons[g] : script[g][n] = "MAP"})
        BY DEF OneResponseEach
    <2>1. Dealt(g) = rsp_prod[g] + Cardinality(Maps(script[g], req_cons[g]))
        BY DealtIs DEF NetDom0Inv
    <2>2. rsp_prod[g] \in Nat /\ Cardinality(Maps(script[g], req_cons[g])) \in Nat
        BY Counts DEF NetDom0Inv
    <2> QED BY <2>1, <2>2 DEF Maps
<1> QED BY <1>1, RequestsCounted, PTL

-----------------------------------------------------------------------------
(* Order. The WRITEs of a guest wait in the order it requested them and    *)
(* are the last that its handler passed on; what is about to be sent names *)
(* the request it answers. True of a guest that does not mix.              *)
OrderOf(g, q, th, t, c, i, r) ==
    /\ \A j \in Upto(q, g, Len(q)) :
         q[j].req = Settled(c, i, g) - Waiting(q, g) + Cardinality(Upto(q, g, j))
    /\ ThreadHas(th, t, g) = 1 =>
            t.req = Settled(c, i, g) - Waiting(q, g) /\ (th = "send" => r[g][t.resp] = t.req)
    /\ i[g] = "send" => r[g][Len(r[g])] = c[g]

OrderInv == \A g \in Guests :
    Mixes(g) \/ OrderOf(g, native_queue, reqthrd, task, req_cons, irq, resp)

(* A guest that does not mix and has taken, or will, something else than a *)
(* WRITE has no WRITE waiting behind it.                                   *)
LEMMA NoneLeft ==
    ASSUME NetInv, TypesInv, NEW g \in Guests, ~Mixes(g), NEW n \in DOMAIN script[g],
           script[g][n] # "WRITE", n > Settled(req_cons, irq, g)
    PROVE  /\ Upto(native_queue, g, Len(native_queue)) = {} /\ Waiting(native_queue, g) = 0
           /\ ThreadHas(reqthrd, task, g) = 0
<1>1. /\ native_queue \in Seq(Task) /\ script[g] \in Seq(Ops) /\ n \in Nat
      /\ Settled(req_cons, irq, g) \in Int
    <2>1. script[g] \in Seq(Ops)
        BY RingAssumption DEF NetInv, NetTypes
    <2> QED BY <2>1, LenProperties DEF NetInv, NetTypes, TypesInv, QueuePart, Settled, HandlerHas
<1>2. \A t : ~(t.type = "native" /\ t.data = g /\ TaskOK(t, script, req_cons, irq, resp))
    <2> SUFFICES ASSUME NEW t, t.type = "native", t.data = g, TaskOK(t, script, req_cons, irq, resp)
                 PROVE  FALSE
        OBVIOUS
    <2>1. t.req \in 1 .. Settled(req_cons, irq, g) /\ script[g][t.req] = "WRITE"
        BY DEF TaskOK
    <2>2. t.req \in 1 .. n - 1
        BY <1>1, <2>1
    <2> QED BY <2>1, <2>2 DEF Mixes
<1>3. Upto(native_queue, g, Len(native_queue)) = {}
    <2>1. \A i \in 1 .. Len(native_queue) : TaskOK(native_queue[i], script, req_cons, irq, resp)
        BY <1>1, LenProperties DEF TypesInv, QueuePart, TasksOK
    <2> QED BY <1>2, <2>1 DEF Upto
<1>4. ThreadHas(reqthrd, task, g) = 0
    BY <1>2 DEF TypesInv, QueuePart, TasksOK, ThreadHas
<1> QED BY <1>3, <1>4, FS_EmptySet DEF Waiting

(* ... so that a handler that answers has no WRITE waiting.                *)
LEMMA BusyAlone ==
    ASSUME NetInv, TypesInv, NEW g \in Guests, ~Mixes(g), irq[g] \in Busy \ {"queue"}
    PROVE  /\ Upto(native_queue, g, Len(native_queue)) = {} /\ Waiting(native_queue, g) = 0
           /\ ThreadHas(reqthrd, task, g) = 0
<1>1. /\ req_cons[g] > 0 /\ script[g][req_cons[g]] # "WRITE" /\ req_cons[g] \in Nat
      /\ Settled(req_cons, irq, g) = req_cons[g] - 1
    BY DEF TypesInv, RespPart, Busy, NetInv, NetTypes, Settled, HandlerHas
<1>2. req_cons[g] \in DOMAIN script[g]
    <2>1. script[g] \in Seq(Ops) /\ Len(script[g]) \in Nat /\ DOMAIN script[g] = 1 .. Len(script[g])
        BY RingAssumption, LenProperties DEF NetInv, NetTypes
    <2>2. IndexesAt(g) /\ {rp[g], req_prod[g]} \subseteq Nat
        BY DEF NetInv, Indexes, NetTypes
    <2> QED BY <1>1, <2>1, <2>2 DEF IndexesAt
<1>3. req_cons[g] > Settled(req_cons, irq, g)
    BY <1>1
<1> QED BY <1>1, <1>2, <1>3, NoneLeft

(* Steps that keep a guest's tasks, and what its requests count.           *)
LEMMA OrderFrame ==
    ASSUME NEW g, NEW q, NEW th, NEW t, NEW c, NEW i, NEW r, NEW th2, NEW c2, NEW i2, NEW r2,
           OrderOf(g, q, th, t, c, i, r), Settled(c2, i2, g) = Settled(c, i, g),
           ThreadHas(th2, t, g) = 1 => /\ ThreadHas(th, t, g) = 1 /\ (th2 = "send" => th = "send")
                                       /\ r2[g][t.resp] = r[g][t.resp],
           i2[g] = "send" => i[g] = "send" /\ c2[g] = c[g] /\ r2[g] = r[g]
    PROVE  OrderOf(g, q, th2, t, c2, i2, r2)
BY DEF OrderOf

(* A guest without tasks.                                                  *)
LEMMA OrderNone ==
    ASSUME NEW g, NEW q, NEW th, NEW t, NEW c, NEW i, NEW r,
           Upto(q, g, Len(q)) = {}, ThreadHas(th, t, g) = 0, i[g] = "send" => r[g][Len(r[g])] = c[g]
    PROVE  OrderOf(g, q, th, t, c, i, r)
BY DEF OrderOf

(* Somebody else's task queued behind.                                     *)
LEMMA OrderAppended ==
    ASSUME NEW g, NEW q \in Seq(Task), NEW n \in Task, NEW th, NEW t, NEW c, NEW i, NEW r,
           OrderOf(g, q, th, t, c, i, r), IsOf(n, g) = 0
    PROVE  OrderOf(g, Append(q, n), th, t, c, i, r)
<1> DEFINE p == Append(q, n)
<1>1. /\ Len(q) \in Nat /\ Len(p) = Len(q) + 1 /\ \A k \in 1 .. Len(q) : p[k] = q[k]
      /\ p[Len(q) + 1] = n
    BY AppendProperties, LenProperties
<1>2. /\ Waiting(p, g) = Waiting(q, g)
      /\ \A k \in 0 .. Len(q) : Upto(p, g, k) = Upto(q, g, k)
    BY WaitingAppended
<1> HIDE DEF p
<1>3. Upto(p, g, Len(p)) = Upto(q, g, Len(q))
    BY <1>1 DEF Upto, IsOf
<1>4. \A j \in Upto(q, g, Len(q)) : p[j] = q[j] /\ Upto(p, g, j) = Upto(q, g, j)
    BY <1>1, <1>2 DEF Upto
<1>5. OrderOf(g, p, th, t, c, i, r)
    BY <1>2, <1>3, <1>4 DEF OrderOf
<1> USE DEF p
<1> QED BY <1>5

(* A WRITE passed on is the last of its guest's.                           *)
LEMMA OrderQueued ==
    ASSUME NEW g, NEW q \in Seq(Task), NEW n \in Task, NEW th, NEW t, NEW c, NEW i, NEW r, NEW i2,
           OrderOf(g, q, th, t, c, i, r), IsOf(n, g) = 1, n.req = c[g], c[g] \in Nat,
           i[g] = "queue", i2[g] = "put"
    PROVE  OrderOf(g, Append(q, n), th, t, c, i2, r)
<1> DEFINE p == Append(q, n)
<1>1. /\ Len(q) \in Nat /\ Len(p) = Len(q) + 1 /\ \A k \in 1 .. Len(q) : p[k] = q[k]
      /\ p[Len(q) + 1] = n
    BY AppendProperties, LenProperties
<1>2. /\ Waiting(p, g) = Waiting(q, g) + 1 /\ Waiting(q, g) \in Nat
      /\ \A k \in 0 .. Len(q) : Upto(p, g, k) = Upto(q, g, k)
    BY WaitingAppended
<1>3. Settled(c, i2, g) = c[g] /\ Settled(c, i, g) = c[g] - 1
    BY DEF Settled, HandlerHas, Busy
<1> HIDE DEF p
<1>4. Cardinality(Upto(p, g, Len(p))) = Waiting(p, g)
    BY DEF Waiting
<1>5. ASSUME NEW j \in Upto(p, g, Len(p))
      PROVE  p[j].req = Settled(c, i2, g) - Waiting(p, g) + Cardinality(Upto(p, g, j))
    <2>1. CASE j = Len(p)
        BY <1>1, <1>2, <1>3, <1>4, <2>1
    <2>2. CASE j # Len(p)
        <3>1. j \in Upto(q, g, Len(q)) /\ p[j] = q[j] /\ Upto(p, g, j) = Upto(q, g, j) /\ j \in Nat
            BY <1>1, <1>2, <2>2 DEF Upto
        <3>2. q[j].req = Settled(c, i, g) - Waiting(q, g) + Cardinality(Upto(q, g, j))
            BY <3>1 DEF OrderOf
        <3>3. Cardinality(Upto(q, g, j)) \in Nat
            <4>1. j \in Nat
                BY <3>1
            <4> QED BY ONLY <4>1, UptoNext
        <3>4. Cardinality(Upto(p, g, j)) = Cardinality(Upto(q, g, j)) /\ p[j].req = q[j].req
            BY <3>1
        <3> DEFINE u == Cardinality(Upto(q, g, j))
                   w == Waiting(q, g)
        <3>5. p[j].req = c[g] - 1 - w + u /\ u \in Nat
            BY ONLY <1>3, <3>2, <3>3, <3>4
        <3>6. Waiting(p, g) = w + 1 /\ w \in Nat
            BY ONLY <1>2
        <3> HIDE DEF u, w
        <3>c. c[g] \in Nat
            OBVIOUS
        <3>7. p[j].req = c[g] - Waiting(p, g) + u
            BY ONLY <3>5, <3>6, <3>c
        <3>8. p[j].req = c[g] - Waiting(p, g) + Cardinality(Upto(p, g, j))
            BY ONLY <3>4, <3>7 DEF u
        <3> QED BY ONLY <1>3, <3>8
    <2> QED BY <2>1, <2>2
<1>6. ThreadHas(th, t, g) = 1 =>
        t.req = Settled(c, i2, g) - Waiting(p, g) /\ (th = "send" => r[g][t.resp] = t.req)
    BY <1>2, <1>3 DEF OrderOf
<1>7. OrderOf(g, p, th, t, c, i2, r)
    BY <1>5, <1>6 DEF OrderOf
<1> USE DEF p
<1> QED BY <1>7

(* The task popped is its guest's oldest.                                  *)
LEMMA OrderPopped ==
    ASSUME NEW g, NEW q \in Seq(Task), q # <<>>, NEW th, NEW t, NEW c, NEW i, NEW r, NEW th2,
           OrderOf(g, q, th, t, c, i, r), Settled(c, i, g) \in Int,
           ThreadHas(th2, Head(q), g) = IsOf(Head(q), g), th2 # "send"
    PROVE  OrderOf(g, Tail(q), th2, Head(q), c, i, r)
<1> DEFINE p == Tail(q)
           h == Head(q)
           S == Settled(c, i, g)
           W == Waiting(q, g)
<1>1. /\ Len(q) \in Nat \ {0} /\ Len(p) = Len(q) - 1 /\ h = q[1]
      /\ \A k \in 1 .. Len(q) - 1 : p[k] = q[k + 1]
    BY HeadTailProperties, LenProperties, EmptySeq
<1>2. /\ W = Waiting(p, g) + IsOf(h, g) /\ Waiting(p, g) \in Nat /\ IsOf(h, g) \in {0, 1}
      /\ \A k \in 0 .. Len(q) - 1 : Cardinality(Upto(q, g, k + 1)) = Cardinality(Upto(p, g, k)) + IsOf(h, g)
    BY WaitingPopped, UptoTail DEF IsOf
<1>3. \A j \in Upto(q, g, Len(q)) : q[j].req = S - W + Cardinality(Upto(q, g, j))
    BY DEF OrderOf
<1> HIDE DEF p, h, S, W
<1>4. ASSUME NEW j \in Upto(p, g, Len(p))
      PROVE  p[j].req = S - Waiting(p, g) + Cardinality(Upto(p, g, j))
    <2>1. j \in 1 .. Len(q) - 1 /\ p[j] = q[j + 1] /\ j + 1 \in Upto(q, g, Len(q))
        BY <1>1 DEF Upto
    <2>2. p[j].req = S - W + Cardinality(Upto(q, g, j + 1))
        BY <1>3, <2>1
    <2>3. Cardinality(Upto(q, g, j + 1)) = Cardinality(Upto(p, g, j)) + IsOf(h, g)
        BY <1>1, <1>2, <2>1
    <2>4. Cardinality(Upto(p, g, j)) \in Nat
        <3>1. j \in Nat
            BY <1>1, <2>1
        <3> QED BY ONLY <3>1, UptoNext
    <2>5. S \in Int
        BY DEF S
    <2> QED BY <1>2, <2>2, <2>3, <2>4, <2>5
<1>5. IsOf(h, g) = 1 => h.req = S - Waiting(p, g)
    <2> SUFFICES ASSUME IsOf(h, g) = 1 PROVE h.req = S - Waiting(p, g)
        OBVIOUS
    <2>1. 1 \in Upto(q, g, Len(q))
        BY <1>1 DEF Upto, IsOf
    <2>2. Cardinality(Upto(q, g, 0 + 1)) = Cardinality(Upto(p, g, 0)) + 1
        BY <1>1, <1>2
    <2>3. Upto(p, g, 0) = {} /\ Cardinality({}) = 0
        BY FS_EmptySet DEF Upto
    <2>4. h.req = S - W + 1
        <3>1. q[1].req = S - W + Cardinality(Upto(q, g, 1))
            BY <1>3, <2>1
        <3>2. Cardinality(Upto(q, g, 1)) = 1
            <4>1. Upto(q, g, 0 + 1) = Upto(q, g, 1)
                OBVIOUS
            <4>2. Cardinality(Upto(p, g, 0)) = 0
                BY <2>3
            <4>3. Cardinality(Upto(q, g, 1)) = 0 + 1
                BY <2>2, <4>1, <4>2
            <4> QED BY <4>3
        <3> QED BY <1>1, <3>1, <3>2
    <2>5. S \in Int
        BY DEF S
    <2> QED BY <1>2, <2>4, <2>5
<1>6. i[g] = "send" => r[g][Len(r[g])] = c[g]
    BY DEF OrderOf
<1>7. ThreadHas(th2, h, g) = IsOf(h, g)
    BY DEF h
<1>8. OrderOf(g, p, th2, h, c, i, r)
    BY <1>4, <1>5, <1>6, <1>7 DEF OrderOf, S
<1> USE DEF p, h
<1> QED BY <1>8

(* What a step of a guest's handler keeps of its guest's order.            *)
LEMMA OwnHandlerOrder ==
    ASSUME NetInv, TypesInv, CountInv, NEW g \in Guests, ~Mixes(g), Handler(g) \/ Interrupt(g),
           OrderOf(g, native_queue, reqthrd, task, req_cons, irq, resp)
    PROVE  OrderOf(g, native_queue', reqthrd', task', req_cons', irq', resp')
<1>0. /\ native_queue \in Seq(Task) /\ irq \in [Guests -> IrqPlaces] /\ req_cons \in [Guests -> Nat]
      /\ resp \in [Guests -> Seq(Nat)] /\ resp[g] \in Seq(Nat) /\ req_cons[g] \in Nat
    BY DEF TypesInv, QueuePart, RespPart, NetInv, NetTypes
<1>1. CASE Interrupt(g) \/ GiveUp(g) \/ FinalCheck(g) \/ FreeReq(g) \/ Ioctl(g)
    <2>1. UNCHANGED <<native_queue, reqthrd, task, req_cons, resp>>
        BY <1>1 DEF Interrupt, GiveUp, FinalCheck, AskForEvent, FreeReq, Ioctl
    <2>2. \E to : irq' = [irq EXCEPT ![g] = to] /\ to # "send" /\ (to \in Busy <=> irq[g] \in Busy)
        BY <1>1 DEF Interrupt, GiveUp, FinalCheck, FreeReq, Ioctl, Calls, Busy
    <2>3. irq'[g] # "send" /\ Settled(req_cons', irq', g) = Settled(req_cons, irq, g)
        BY <1>0, <2>1, <2>2 DEF Settled, HandlerHas
    <2> QED BY <2>1, <2>3, OrderFrame
<1>2. CASE Snapshot(g)
    <2>1. /\ irq[g] = "snap" /\ irq' = [irq EXCEPT ![g] = "scan"]
          /\ resp' = [resp EXCEPT ![g] = Append(@, 0)]
          /\ UNCHANGED <<native_queue, reqthrd, task, req_cons>>
        BY <1>2 DEF Snapshot
    <2>2. irq'[g] # "send" /\ Settled(req_cons', irq', g) = Settled(req_cons, irq, g)
        BY <1>0, <2>1 DEF Settled, HandlerHas, Busy
    <2>3. ThreadHas(reqthrd, task, g) = 1 => resp'[g][task.resp] = resp[g][task.resp]
        <3> SUFFICES ASSUME ThreadHas(reqthrd, task, g) = 1
                     PROVE  resp'[g][task.resp] = resp[g][task.resp]
            OBVIOUS
        <3>1. task.resp \in 1 .. Len(resp[g])
            BY DEF ThreadHas, TypesInv, QueuePart, TasksOK, TaskOK
        <3>2. Append(resp[g], 0)[task.resp] = resp[g][task.resp]
            <4>1. 0 \in Nat
                OBVIOUS
            <4> QED BY <1>0, <3>1, <4>1, AppendProperties
        <3>3. resp'[g] = Append(resp[g], 0)
            BY <1>0, <2>1
        <3> QED BY <3>2, <3>3
    <2>4. OrderOf(g, native_queue, reqthrd, task, req_cons', irq', resp')
        BY <2>2, <2>3, OrderFrame
    <2> QED BY <2>1, <2>4
<1>3. CASE Take(g)
    <2> DEFINE op == script[g][req_cons[g] + 1]
    <2>1. /\ irq[g] = "scan" /\ irq' = [irq EXCEPT ![g] = Entry[op]]
          /\ req_cons' = [req_cons EXCEPT ![g] = @ + 1]
          /\ UNCHANGED <<native_queue, reqthrd, task, resp>>
        BY <1>3 DEF Take, TakeRequest
    <2>2. op \in Ops /\ req_cons[g] < rp[g]
        BY <1>3, TakenIsOp DEF Take, NetInv
    <2>3. Entry[op] # "send" /\ (op # "MAP" => Entry[op] \in Busy)
        BY <2>2 DEF Ops, Entry, Busy
    <2>4. irq'[g] # "send"
        BY <1>0, <2>1, <2>3
    <2>5. CASE op # "MAP"
        <3>1. Settled(req_cons', irq', g) = Settled(req_cons, irq, g)
            BY <1>0, <2>1, <2>3, <2>5 DEF Settled, HandlerHas, Busy
        <3>2. OrderOf(g, native_queue, reqthrd, task, req_cons', irq', resp)
            BY <2>4, <3>1, OrderFrame
        <3> QED BY <2>1, <3>2
    <2>6. CASE op = "MAP"
        <3>1. Settled(req_cons, irq, g) = req_cons[g]
            BY <1>0, <2>1 DEF Settled, HandlerHas, Busy
        <3>2. req_cons[g] + 1 \in DOMAIN script[g]
            <4>1. script[g] \in Seq(Ops) /\ Len(script[g]) \in Nat /\ DOMAIN script[g] = 1 .. Len(script[g])
                BY RingAssumption, LenProperties DEF NetInv, NetTypes
            <4>2. IndexesAt(g) /\ {rp[g], req_prod[g]} \subseteq Nat
                BY DEF NetInv, Indexes, NetTypes
            <4> QED BY <1>0, <2>2, <4>1, <4>2 DEF IndexesAt
        <3>3. req_cons[g] + 1 > Settled(req_cons, irq, g)
            BY <1>0, <3>1
        <3>4. /\ Upto(native_queue, g, Len(native_queue)) = {} /\ ThreadHas(reqthrd, task, g) = 0
            BY <2>6, <3>2, <3>3, NoneLeft
        <3> QED BY <2>1, <2>4, <3>4, OrderNone
    <2> QED BY <2>5, <2>6
<1>4. CASE QueueWrite(g)
    <2> DEFINE t == [type |-> "native", data |-> g, req |-> req_cons[g], resp |-> Len(resp[g])]
    <2>1. /\ irq[g] = "queue" /\ irq' = [irq EXCEPT ![g] = "put"]
          /\ native_queue' = Append(native_queue, t)
          /\ UNCHANGED <<req_cons, reqthrd, task, resp>>
        BY <1>4 DEF QueueWrite
    <2>2. t \in Task /\ t.req = req_cons[g] /\ IsOf(t, g) = 1
        <3>1. Len(resp[g]) \in Nat
            BY <1>0, LenProperties
        <3> QED BY <1>0, <3>1 DEF Task, NativeTask, IsOf
    <2> HIDE DEF t
    <2>3. irq'[g] = "put"
        BY <1>0, <2>1
    <2> QED BY <1>0, <2>1, <2>2, <2>3, OrderQueued
<1>5. CASE Answer(g)
    <2>1. /\ irq[g] = "fill" /\ irq' = [irq EXCEPT ![g] = "send"]
          /\ UNCHANGED <<native_queue, reqthrd, task, req_cons>> /\ Fill(g, req_cons[g], Len(resp[g]))
        BY <1>5 DEF Answer
    <2>2. /\ Len(resp[g]) \in 1 .. Len(resp[g]) /\ SlotId(g, req_cons[g]) \in Nat
          /\ req_cons[g] \in 1 .. req_prod[g]
        BY <1>5, AnswerFills
    <2>3. resp'[g][Len(resp[g])] = SlotId(g, req_cons[g]) /\ Len(resp'[g]) = Len(resp[g])
        BY <2>1, <2>2, FillKeeps DEF TypesInv
    <2>4. SlotId(g, req_cons[g]) = req_cons[g]
        <3>1. rsp_prod[g] + Waiting(native_queue, g) + ThreadHas(reqthrd, task, g) + HandlerHas(irq, g)
                + Cardinality(Maps(script[g], req_cons[g])) = req_cons[g]
            BY DEF CountInv
        <3>2. HandlerHas(irq, g) = 1
            BY <2>1 DEF HandlerHas, Busy
        <3>3. rsp_prod[g] < req_cons[g]
            BY <3>1, <3>2, Counts
        <3>4. IndexesAt(g) /\ NetTypes /\ req_prod[g] \in Nat
            BY DEF NetInv, Indexes, NetTypes
        <3> QED BY <2>2, <3>3, <3>4, SlotIdOwn
    <2>5. Upto(native_queue, g, Len(native_queue)) = {} /\ ThreadHas(reqthrd, task, g) = 0
        BY <2>1, BusyAlone DEF Busy
    <2>6. resp'[g][Len(resp'[g])] = req_cons'[g]
        BY <2>1, <2>3, <2>4
    <2> QED BY <2>1, <2>5, <2>6, OrderNone
<1>6. CASE Send(g)
    <2>1. /\ irq[g] = "send" /\ irq' = [irq EXCEPT ![g] = "put"]
          /\ UNCHANGED <<native_queue, reqthrd, task, req_cons, resp>>
        BY <1>6 DEF Send
    <2>2. Upto(native_queue, g, Len(native_queue)) = {} /\ ThreadHas(reqthrd, task, g) = 0
        BY <2>1, BusyAlone DEF Busy
    <2>3. irq'[g] # "send"
        BY <1>0, <2>1
    <2> QED BY <2>1, <2>2, <2>3, OrderNone
<1> QED BY <1>1, <1>2, <1>3, <1>4, <1>5, <1>6 DEF Handler

(* The steps of another guest's handler.                                   *)
LEMMA OtherHandlerOrder ==
    ASSUME NetInv, NetInv', TypesInv, TypesInv', NEW g \in Guests, NEW h \in Guests, g # h,
           Handler(h) \/ Interrupt(h),
           OrderOf(g, native_queue, reqthrd, task, req_cons, irq, resp)
    PROVE  OrderOf(g, native_queue', reqthrd', task', req_cons', irq', resp')
<1>1. UNCHANGED <<irq[g], req_cons[g], resp[g], task, reqthrd>>
    BY HandlerSettles DEF HandlerMoves
<1>2. Settled(req_cons', irq', g) = Settled(req_cons, irq, g)
    BY <1>1 DEF Settled, HandlerHas
<1>3. OrderOf(g, native_queue, reqthrd', task', req_cons', irq', resp')
    BY <1>1, <1>2, OrderFrame
<1>4. CASE ~QueueWrite(h)
    <2>1. native_queue' = native_queue
        BY <1>4 DEF Interrupt, Handler, Snapshot, Take, GiveUp, FinalCheck, FreeReq, Ioctl,
           Answer, Send
    <2> QED BY <1>3, <2>1
<1>5. CASE QueueWrite(h)
    <2> DEFINE t == [type |-> "native", data |-> h, req |-> req_cons[h], resp |-> Len(resp[h])]
    <2>1. native_queue' = Append(native_queue, t) /\ native_queue \in Seq(Task)
        BY <1>5 DEF QueueWrite, TypesInv, QueuePart
    <2>2. t \in Task /\ IsOf(t, g) = 0
        <3>1. resp[h] \in Seq(Nat) /\ req_cons[h] \in Nat
            BY DEF TypesInv, RespPart, NetInv, NetTypes
        <3>2. Len(resp[h]) \in Nat
            BY <3>1, LenProperties
        <3> QED BY <3>1, <3>2 DEF Task, NativeTask, IsOf
    <2> HIDE DEF t
    <2> QED BY <1>3, <2>1, <2>2, OrderAppended
<1> QED BY <1>4, <1>5

(* The steps of the threads.                                               *)
LEMMA ThreadOrder ==
    ASSUME ThreadInv, NetInv, TypesInv, CountInv, NEW g \in Guests, ~Mixes(g), ReqThread,
           OrderOf(g, native_queue, reqthrd, task, req_cons, irq, resp)
    PROVE  OrderOf(g, native_queue', reqthrd', task', req_cons', irq', resp')
<1>0. /\ native_queue \in Seq(Task) /\ Settled(req_cons, irq, g) \in Int
      /\ reqthrd \in {"rwrite", "rread"} => task.type = "remote"
      /\ resp \in [Guests -> Seq(Nat)]
    BY DEF TypesInv, QueuePart, TasksOK, RespPart, NetInv, NetTypes, Settled, HandlerHas
<1>1. CASE WaitTask \/ DoWrite \/ SendTask \/ RemoteWrite \/ RemoteRead
    <2>1. UNCHANGED <<native_queue, task, req_cons, irq, resp>>
        BY <1>1 DEF WaitTask, DoWrite, SendTask, RemoteWrite, RemoteRead
    <2>2. reqthrd' # "send" /\ (reqthrd' \in Working => reqthrd \in Working \/ task.type = "remote")
        BY <1>0, <1>1 DEF WaitTask, DoWrite, SendTask, RemoteWrite, RemoteRead, Calls, Working
    <2>3. ThreadHas(reqthrd', task, g) = 1 => ThreadHas(reqthrd, task, g) = 1
        BY <2>2 DEF ThreadHas
    <2>4. Settled(req_cons', irq', g) = Settled(req_cons, irq, g)
        BY <2>1
    <2> QED BY <2>1, <2>2, <2>3, <2>4, OrderFrame
<1>2. CASE Pop
    <2>1. UNCHANGED <<req_cons, irq, resp>>
        BY <1>2 DEF Pop
    <2>2. CASE native_queue = <<>>
        <3>1. UNCHANGED <<native_queue, task>> /\ reqthrd' = "null"
            BY <1>2, <2>2 DEF Pop
        <3>2. ThreadHas(reqthrd', task, g) = 0 /\ Settled(req_cons', irq', g) = Settled(req_cons, irq, g)
            BY <2>1, <3>1 DEF ThreadHas, Working
        <3> QED BY <2>1, <3>1, <3>2, OrderFrame
    <2>3. CASE native_queue # <<>>
        <3>1. /\ task' = Head(native_queue) /\ native_queue' = Tail(native_queue)
              /\ reqthrd' = IF task'.type = "native" THEN "write" ELSE "rwrite"
            BY <1>2, <2>3 DEF Pop
        <3>2. ThreadHas(reqthrd', Head(native_queue), g) = IsOf(Head(native_queue), g) /\ reqthrd' # "send"
            BY <3>1 DEF ThreadHas, IsOf, Working
        <3>3. OrderOf(g, Tail(native_queue), reqthrd', Head(native_queue), req_cons, irq, resp)
            BY <1>0, <2>3, <3>2, OrderPopped
        <3> QED BY <2>1, <3>1, <3>3
    <2> QED BY <2>2, <2>3
<1>3. CASE AnswerTask
    <2> DEFINE d == task.data
    <2>1. /\ reqthrd = "fill" /\ reqthrd' = "send" /\ Fill(d, task.req, task.resp)
          /\ UNCHANGED <<native_queue, task, req_cons, irq>>
        BY <1>3 DEF AnswerTask
    <2>2. /\ d \in Guests /\ task.type = "native" /\ task.req \in 1 .. req_prod[d]
          /\ SlotId(d, task.req) \in Nat
          /\ task.resp \in 1 .. Len(resp[d])
        BY <2>1, TaskFills
    <2> HIDE DEF d
    <2>3. resp'[d][task.resp] = SlotId(d, task.req) /\ \A h \in Guests \ {d} : resp'[h] = resp[h]
        BY <2>1, <2>2, FillKeeps DEF TypesInv
    <2>4. CASE d # g
        <3>1. ThreadHas(reqthrd', task, g) = 0
            BY <2>4 DEF ThreadHas, d
        <3>2. resp'[g] = resp[g] /\ Settled(req_cons', irq', g) = Settled(req_cons, irq, g)
            BY <2>1, <2>3, <2>4
        <3> QED BY <2>1, <3>1, <3>2, OrderFrame
    <2>5. CASE d = g
        <3>1. ThreadHas(reqthrd, task, g) = 1 /\ ThreadHas(reqthrd', task, g) = 1
            BY <2>1, <2>2, <2>5 DEF ThreadHas, Working, d
        <3>2. irq[g] # "send"
            BY <3>1, BusyAlone DEF Busy
        <3>3. task.req = Settled(req_cons, irq, g) - Waiting(native_queue, g)
            BY <3>1 DEF OrderOf
        <3>4. rsp_prod[g] + Waiting(native_queue, g) + ThreadHas(reqthrd, task, g) + HandlerHas(irq, g)
                + Cardinality(Maps(script[g], req_cons[g])) = req_cons[g]
            BY DEF CountInv
        <3>5. rsp_prod[g] < task.req
            BY <3>1, <3>3, <3>4, Counts DEF Settled
        <3>6. IndexesAt(g) /\ NetTypes /\ req_prod[g] \in Nat
            BY DEF NetInv, Indexes, NetTypes
        <3>7. SlotId(g, task.req) = task.req
            BY <2>2, <2>5, <3>5, <3>6, SlotIdOwn
        <3>8. \A j \in Upto(native_queue, g, Len(native_queue)) :
                native_queue[j].req = Settled(req_cons, irq, g) - Waiting(native_queue, g)
                                      + Cardinality(Upto(native_queue, g, j))
            BY DEF OrderOf
        <3>9. resp'[g][task.resp] = task.req
            BY <2>3, <2>5, <3>7
        <3> QED BY <2>1, <3>2, <3>3, <3>8, <3>9 DEF OrderOf
    <2> QED BY <2>4, <2>5
<1> QED BY <1>1, <1>2, <1>3 DEF ReqThread

(* No step puts a guest's requests out of order.                           *)
LEMMA OrderStep ==
    ASSUME ThreadInv, NetInv, NetInv', TypesInv, TypesInv', CountInv, OrderInv, [Next]_vars
    PROVE  OrderInv'
<1>s. script' = script
    BY ScriptKeeps
<1> SUFFICES ASSUME NEW g \in Guests, ~Mixes(g)
             PROVE  OrderOf(g, native_queue', reqthrd', task', req_cons', irq', resp')
    BY <1>s DEF OrderInv, Mixes
<1>0. OrderOf(g, native_queue, reqthrd, task, req_cons, irq, resp)
    BY DEF OrderInv
<1>1. CASE \E h \in Guests : Interrupt(h) \/ Handler(h)
    BY <1>0, <1>1, OwnHandlerOrder, OtherHandlerOrder
<1>2. CASE ReqThread
    BY <1>0, <1>2, ThreadOrder
<1>3. CASE PushRemote
    <2> DEFINE t == NewTask
    <2>1. /\ native_queue' = Append(native_queue, t) /\ UNCHANGED <<req_cons, irq, reqthrd, task, resp>>
          /\ native_queue \in Seq(Task)
        BY <1>3 DEF PushRemote, TypesInv, QueuePart
    <2>2. t \in Task /\ IsOf(t, g) = 0
        BY NewTaskTyped DEF NewTask, IsOf
    <2> HIDE DEF t
    <2>3. OrderOf(g, Append(native_queue, t), reqthrd, task, req_cons, irq, resp)
        BY <1>0, <2>1, <2>2, OrderAppended
    <2> QED BY <2>1, <2>3
<1>4. CASE UNCHANGED vars \/ Exit \/ Receive \/ \E h \in Guests : FrontPost(h) \/ FrontRead(h)
    <2>1. UNCHANGED <<native_queue, reqthrd, task, req_cons, irq, resp>>
        BY <1>4 DEF vars, Exit, Receive, FrontPost, Post, FrontRead, FrontInterrupt
    <2> QED BY <1>0, <2>1
<1> QED BY <1>1, <1>2, <1>3, <1>4 DEF Next

(* Nothing is out of order initially.                                      *)
LEMMA InitOrder == Init => OrderInv
<1> SUFFICES ASSUME Init, NEW g \in Guests
             PROVE  OrderOf(g, native_queue, reqthrd, task, req_cons, irq, resp)
    BY DEF OrderInv
<1>1. native_queue = <<>> /\ reqthrd = "wait" /\ irq[g] = "idle"
    BY DEF Init
<1>2. Upto(native_queue, g, Len(native_queue)) = {} /\ ThreadHas(reqthrd, task, g) = 0
    BY <1>1 DEF Upto, ThreadHas, Working
<1> QED BY <1>1, <1>2, OrderNone

-----------------------------------------------------------------------------
(* The refinement: what a guest posted, what was dealt with and what was   *)
(* answered, for the guests that do not mix.                               *)
Posted    == [g \in Guests |-> IF Mixes(g) THEN 0 ELSE req_prod[g]]
DealtWith == [g \in Guests |-> IF Mixes(g) THEN 0 ELSE Dealt(g)]
Answers   == [g \in Guests |-> IF Mixes(g) THEN <<>> ELSE rsp_id[g]]

ServerVars == <<script, Posted, DealtWith, Answers>>

(* A guest's requests dealt with, after a step.                            *)
LEMMA DealtNext ==
    ASSUME NetInv', TypesInv', CountInv', script' = script
    PROVE  \A g \in Guests : /\ Dealt(g)' = rsp_prod'[g] + Cardinality(Maps(script[g], req_cons'[g]))
                             /\ Mixes(g)' = Mixes(g)
<1>1. (NetInv /\ TypesInv /\ CountInv =>
        \A g \in Guests : Dealt(g) = rsp_prod[g] + Cardinality(Maps(script[g], req_cons[g])))'
    BY DealtIs, PTL
<1>2. \A g \in Guests : Mixes(g)' = Mixes(g)
    BY DEF Mixes
<1> QED BY <1>1, <1>2

(* Nothing posted, taken or answered: the abstract server stutters.        *)
LEMMA ServerStutters ==
    ASSUME NetInv, TypesInv, CountInv, NetInv', TypesInv', CountInv', script' = script, UNCHANGED req_prod,
           UNCHANGED <<rsp_prod, rsp_id>>,
           \A g \in Guests : Cardinality(Maps(script[g], req_cons'[g])) = Cardinality(Maps(script[g], req_cons[g]))
    PROVE  UNCHANGED ServerVars
<1>1. \A g \in Guests : Dealt(g)' = Dealt(g) /\ Mixes(g)' = Mixes(g)
    BY DealtNext, DealtIs
<1> QED BY <1>1 DEF ServerVars, Posted, DealtWith, Answers

(* A response: an answer to a guest that does not mix.                     *)
LEMMA ServerAnswers ==
    ASSUME NetInv, TypesInv, CountInv, NetInv', TypesInv', CountInv', script' = script,
           UNCHANGED <<req_prod, req_cons>>, NEW g \in Guests, NEW id,
           rsp_prod' = [rsp_prod EXCEPT ![g] = @ + 1], rsp_id' = [rsp_id EXCEPT ![g] = Append(@, id)],
           ~Mixes(g) => id = Dealt(g) + 1 /\ Dealt(g) < req_prod[g]
    PROVE  [Server!Next]_ServerVars
<1>0. /\ rsp_prod \in [Guests -> Nat] /\ rsp_id \in [Guests -> Seq(Nat)] /\ req_cons \in [Guests -> Nat]
    BY DEF NetInv, NetTypes, TypesInv, RingPart
<1>1. /\ \A h \in Guests : Mixes(h)' = Mixes(h)
      /\ \A h \in Guests \ {g} : Dealt(h)' = Dealt(h) /\ rsp_id'[h] = rsp_id[h]
      /\ Dealt(g)' = Dealt(g) + 1 /\ rsp_id'[g] = Append(rsp_id[g], id)
    <2>1. \A h \in Guests : Cardinality(Maps(script[h], req_cons[h])) \in Nat
        BY <1>0, MapsNext
    <2>2. \A h \in Guests : /\ Dealt(h)' = rsp_prod'[h] + Cardinality(Maps(script[h], req_cons[h]))
                            /\ Dealt(h) = rsp_prod[h] + Cardinality(Maps(script[h], req_cons[h]))
                            /\ Mixes(h)' = Mixes(h)
        BY DealtNext, DealtIs
    <2> QED BY <1>0, <2>1, <2>2
<1>2. CASE Mixes(g)
    <2>1. UNCHANGED ServerVars
        BY <1>1, <1>2 DEF ServerVars, Posted, DealtWith, Answers
    <2> QED BY <2>1
<1>3. CASE ~Mixes(g)
    <2>1. DealtWith' = [DealtWith EXCEPT ![g] = @ + 1]
        BY <1>1, <1>3 DEF DealtWith
    <2>2. Answers' = [Answers EXCEPT ![g] = Append(@, DealtWith[g] + 1)]
        BY <1>1, <1>3 DEF Answers, DealtWith
    <2>3. Posted' = Posted /\ DealtWith[g] < Posted[g]
        BY <1>1, <1>3 DEF Posted, DealtWith
    <2>4. Server!Answer(g)
        BY <2>1, <2>2, <2>3 DEF Server!Answer, Server!Deal, Posted, DealtWith, Answers
    <2> QED BY <2>4 DEF Server!Next
<1> QED BY <1>2, <1>3

(* Every step is one of the abstract server, or a stutter: a request       *)
(* posted is posted, a MAP taken is dropped, a response pushed, by handler *)
(* or thread, answers the oldest request that is not dealt with.           *)
LEMMA ServerStep ==
    ASSUME ThreadInv, NetInv, TypesInv, CountInv, OrderInv, NetInv', TypesInv', CountInv', [Next]_vars
    PROVE  [Server!Next]_ServerVars
<1>0. /\ rsp_prod \in [Guests -> Nat] /\ rsp_id \in [Guests -> Seq(Nat)] /\ req_cons \in [Guests -> Nat]
      /\ req_prod \in [Guests -> Nat]
      /\ \A g \in Guests : Dealt(g) = rsp_prod[g] + Cardinality(Maps(script[g], req_cons[g]))
      /\ \A g \in Guests : req_cons[g] <= req_prod[g]
    <2>1. rp \in [Guests -> Nat]
        BY DEF NetInv, NetTypes
    <2>2. /\ rsp_prod \in [Guests -> Nat] /\ rsp_id \in [Guests -> Seq(Nat)]
          /\ req_cons \in [Guests -> Nat]
          /\ req_prod \in [Guests -> Nat]
        BY DEF NetInv, NetTypes, TypesInv, RingPart
    <2>3. \A g \in Guests : req_cons[g] <= req_prod[g]
        BY <2>1, <2>2 DEF NetInv, Indexes, IndexesAt
    <2> QED BY <2>2, <2>3, DealtIs
<1>s. script' = script
    BY ScriptKeeps
<1>1. CASE \E g \in Guests : FrontPost(g)
    <2>1. PICK g \in Guests : FrontPost(g)
        BY <1>1
    <2>2. /\ req_prod[g] < Len(script[g]) /\ req_prod' = [req_prod EXCEPT ![g] = @ + 1]
          /\ UNCHANGED <<rsp_prod, rsp_id, req_cons>>
        BY <2>1 DEF FrontPost, Post
    <2>3. \A h \in Guests : Dealt(h)' = Dealt(h) /\ Mixes(h)' = Mixes(h)
        BY <1>0, <1>s, <2>2, DealtNext
    <2>4. DealtWith' = DealtWith /\ Answers' = Answers
        BY <2>2, <2>3 DEF DealtWith, Answers
    <2>5. CASE Mixes(g)
        <3>1. Posted' = Posted
            BY <1>0, <2>2, <2>3, <2>5 DEF Posted
        <3> QED BY <1>s, <2>4, <3>1 DEF ServerVars
    <2>6. CASE ~Mixes(g)
        <3>1. Posted' = [Posted EXCEPT ![g] = @ + 1] /\ Posted[g] < Len(script[g])
            BY <1>0, <2>2, <2>3, <2>6 DEF Posted
        <3>2. Server!Post(g)
            BY <1>s, <2>4, <3>1 DEF Server!Post, Posted, DealtWith, Answers
        <3> QED BY <3>2 DEF Server!Next
    <2> QED BY <2>5, <2>6
<1>2. CASE \E g \in Guests : Take(g)
    <2>1. PICK g \in Guests : Take(g)
        BY <1>2
    <2> DEFINE op == script[g][req_cons[g] + 1]
    <2>2. /\ irq[g] = "scan" /\ req_cons' = [req_cons EXCEPT ![g] = @ + 1] /\ More(g)
          /\ UNCHANGED <<req_prod, rsp_prod, rsp_id>>
        BY <2>1 DEF Take, TakeRequest
    <2>3. /\ Cardinality(Maps(script[g], req_cons[g])) \in Nat
          /\ Cardinality(Maps(script[g], req_cons[g] + 1))
                = Cardinality(Maps(script[g], req_cons[g])) + IF op = "MAP" THEN 1 ELSE 0
        BY <1>0, MapsNext
    <2>4. /\ req_cons'[g] = req_cons[g] + 1 /\ req_cons[g] \in Nat
          /\ \A h \in Guests \ {g} : req_cons'[h] = req_cons[h]
        BY <1>0, <2>2
    <2>5. CASE op # "MAP"
        <3>1. \A h \in Guests : Cardinality(Maps(script[h], req_cons'[h])) = Cardinality(Maps(script[h], req_cons[h]))
            <4>1. Cardinality(Maps(script[g], req_cons'[g])) = Cardinality(Maps(script[g], req_cons[g]))
                BY <2>3, <2>4, <2>5
            <4> QED BY <2>4, <4>1
        <3>2. UNCHANGED ServerVars
            BY <1>s, <2>2, <3>1, ServerStutters
        <3> QED BY <3>2
    <2>6. CASE op = "MAP"
        <3>1. /\ \A h \in Guests : Mixes(h)' = Mixes(h)
              /\ \A h \in Guests \ {g} : Dealt(h)' = Dealt(h)
              /\ Dealt(g)' = Dealt(g) + 1
            <4>1. \A h \in Guests : /\ Dealt(h)' = rsp_prod[h] + Cardinality(Maps(script[h], req_cons'[h]))
                                    /\ Mixes(h)' = Mixes(h)
                BY <1>s, <2>2, DealtNext
            <4>2. Cardinality(Maps(script[g], req_cons'[g])) = Cardinality(Maps(script[g], req_cons[g])) + 1
                BY <2>3, <2>4, <2>6
            <4>3. rsp_prod[g] \in Nat
                BY <1>0
            <4>4. Dealt(g)' = Dealt(g) + 1
                BY <1>0, <2>3, <4>1, <4>2, <4>3
            <4> QED BY <1>0, <2>4, <4>1, <4>4
        <3>2. Posted' = Posted /\ Answers' = Answers
            BY <2>2, <3>1 DEF Posted, Answers
        <3>3. CASE Mixes(g)
            <4>1. DealtWith' = DealtWith
                BY <3>1, <3>3 DEF DealtWith
            <4> QED BY <1>s, <3>2, <4>1 DEF ServerVars
        <3>4. CASE ~Mixes(g)
            <4>1. DealtWith' = [DealtWith EXCEPT ![g] = @ + 1]
                BY <3>1, <3>4 DEF DealtWith
            <4>2. /\ Settled(req_cons, irq, g) = req_cons[g] /\ HandlerHas(irq, g) = 0
                BY <2>2, <2>4 DEF Settled, HandlerHas, Busy
            <4>3. req_cons[g] + 1 \in DOMAIN script[g] /\ req_cons[g] < req_prod[g]
                <5>1. script[g] \in Seq(Ops) /\ Len(script[g]) \in Nat /\ DOMAIN script[g] = 1 .. Len(script[g])
                    BY RingAssumption, LenProperties DEF NetInv, NetTypes
                <5>2. IndexesAt(g) /\ {rp[g], req_prod[g]} \subseteq Nat
                    BY DEF NetInv, Indexes, NetTypes
                <5>3. req_cons[g] < rp[g]
                    BY <2>2, TakenIsOp DEF NetInv
                <5> QED BY <2>4, <5>1, <5>2, <5>3 DEF IndexesAt
            <4>4. Waiting(native_queue, g) = 0 /\ ThreadHas(reqthrd, task, g) = 0
                <5>1. req_cons[g] + 1 > Settled(req_cons, irq, g)
                    BY <2>4, <4>2
                <5> QED BY <2>6, <3>4, <4>3, <5>1, NoneLeft
            <4>5. Dealt(g) = req_cons[g]
                BY <2>4, <4>2, <4>4, OutstandingIs DEF Dealt
            <4>6. DealtWith[g] = req_cons[g] /\ Posted[g] = req_prod[g]
                BY <3>4, <4>5 DEF DealtWith, Posted
            <4>7. DealtWith[g] < Posted[g] /\ script[g][DealtWith[g] + 1] \in {"MAP"}
                BY <2>6, <4>3, <4>6
            <4>8. Server!Drop(g)
                BY <1>s, <3>2, <4>1, <4>7 DEF Server!Drop, Server!Deal, Posted, DealtWith, Answers
            <4> QED BY <4>8 DEF Server!Next
        <3> QED BY <3>3, <3>4
    <2> QED BY <2>5, <2>6
<1>3. CASE \E g \in Guests : Send(g)
    <2>1. PICK g \in Guests : Send(g)
        BY <1>3
    <2> DEFINE id == resp[g][Len(resp[g])]
    <2>2. /\ irq[g] = "send" /\ UNCHANGED <<req_prod, req_cons>>
          /\ rsp_prod' = [rsp_prod EXCEPT ![g] = @ + 1]
          /\ rsp_id' = [rsp_id EXCEPT ![g] = Append(@, id)]
        BY <2>1 DEF Send, PushResponse
    <2>3. ~Mixes(g) => id = Dealt(g) + 1 /\ Dealt(g) < req_prod[g]
        <3> SUFFICES ASSUME ~Mixes(g) PROVE id = Dealt(g) + 1 /\ Dealt(g) < req_prod[g]
            OBVIOUS
        <3>1. Waiting(native_queue, g) = 0 /\ ThreadHas(reqthrd, task, g) = 0
            BY <2>2, BusyAlone DEF Busy
        <3>2. HandlerHas(irq, g) = 1
            BY <2>2 DEF HandlerHas, Busy
        <3>3. Dealt(g) = req_cons[g] - 1
            BY <1>0, <3>1, <3>2, OutstandingIs DEF Dealt
        <3>4. id = req_cons[g]
            BY <2>2 DEF OrderInv, OrderOf
        <3>5. req_cons[g] \in Nat /\ req_prod[g] \in Nat /\ req_cons[g] <= req_prod[g]
            BY <1>0
        <3> QED BY <3>3, <3>4, <3>5
    <2> HIDE DEF id
    <2> QED BY <1>s, <2>2, <2>3, ServerAnswers
<1>4. CASE SendTask
    <2> DEFINE d == task.data
               id == resp[d][task.resp]
    <2>1. /\ reqthrd = "send" /\ UNCHANGED <<req_prod, req_cons>>
          /\ rsp_prod' = [rsp_prod EXCEPT ![d] = @ + 1]
          /\ rsp_id' = [rsp_id EXCEPT ![d] = Append(@, id)]
        BY <1>4 DEF SendTask, PushResponse
    <2>2. d \in Guests /\ ThreadHas(reqthrd, task, d) = 1
        BY <2>1, TaskFills DEF ThreadHas, Working
    <2>3. ~Mixes(d) => id = Dealt(d) + 1 /\ Dealt(d) < req_prod[d]
        <3> SUFFICES ASSUME ~Mixes(d) PROVE id = Dealt(d) + 1 /\ Dealt(d) < req_prod[d]
            OBVIOUS
        <3>1. id = Settled(req_cons, irq, d) - Waiting(native_queue, d)
            BY <2>1, <2>2 DEF OrderInv, OrderOf
        <3> HIDE DEF d, id
        <3>2. Dealt(d) = req_cons[d] - (Waiting(native_queue, d) + 1 + HandlerHas(irq, d))
            BY <2>2, OutstandingIs DEF Dealt
        <3>3. req_cons[d] \in Nat /\ Waiting(native_queue, d) \in Nat /\ HandlerHas(irq, d) \in {0, 1}
            BY <2>2, Counts
        <3>4. req_prod[d] \in Nat /\ req_cons[d] <= req_prod[d]
            BY <1>0, <2>2
        <3> DEFINE w == Waiting(native_queue, d)
                   h == HandlerHas(irq, d)
        <3>5. id = req_cons[d] - h - w /\ Dealt(d) = req_cons[d] - (w + 1 + h)
            BY ONLY <3>1, <3>2 DEF Settled
        <3>6. req_cons[d] \in Nat /\ w \in Nat /\ h \in {0, 1}
            BY ONLY <3>3
        <3> HIDE DEF w, h
        <3> QED BY <3>4, <3>5, <3>6
    <2> HIDE DEF d, id
    <2> QED BY <1>s, <2>1, <2>2, <2>3, ServerAnswers
<1>5. CASE (ReqThread /\ ~SendTask) \/ Receive \/ PushRemote \/ Exit \/ UNCHANGED vars
           \/ \E g \in Guests : FrontRead(g) \/ Interrupt(g) \/ (Handler(g) /\ ~Take(g) /\ ~Send(g))
    <2>1. UNCHANGED <<req_prod, req_cons, rsp_prod, rsp_id>>
        BY <1>5 DEF ReqThread, vars, FrontRead, FrontInterrupt, Interrupt, Handler, Snapshot,
           GiveUp, FinalCheck,
            AskForEvent, FreeReq, QueueWrite, Ioctl, Answer, WaitTask, Pop, DoWrite, AnswerTask,
            RemoteWrite, RemoteRead, Receive, PushRemote, Exit
    <2>2. UNCHANGED ServerVars
        BY <1>s, <2>1, ServerStutters
    <2> QED BY <2>2
<1> QED BY <1>1, <1>2, <1>3, <1>4, <1>5 DEF Next

(* The back end is the abstract server to every guest that does not mix:   *)
(* handler and reqthread together answer in order, once, and under the     *)
(* request's own id, although the id is read from the ring when the        *)
(* response is made (data.c:244) and a WRITE waits in the queue until then *)
(* (459-487).                                                              *)
THEOREM NetServesAsPromised == Spec => ImplementsServer
<1>1. Init => Server!Init
    <2> SUFFICES ASSUME Init PROVE Server!Init
        OBVIOUS
    <2>1. NetInv /\ TypesInv /\ CountInv
        BY InitNet, InitTypes, InitCount
    <2>2. \A g \in Guests : req_prod[g] = 0 /\ rsp_id[g] = <<>> /\ req_cons[g] = 0 /\ rsp_prod[g] = 0
        BY DEF Init, RingInit
    <2>3. \A g \in Guests : Dealt(g) = 0
        <3> SUFFICES ASSUME NEW g \in Guests PROVE Dealt(g) = 0
            OBVIOUS
        <3>1. Cardinality(Maps(script[g], req_cons[g])) = 0
            <4>1. Maps(script[g], req_cons[g]) = {}
                BY <2>2 DEF Maps
            <4> QED BY <4>1, FS_EmptySet
        <3> QED BY <2>1, <2>2, <3>1, DealtIs
    <2> QED BY <2>2, <2>3 DEF Server!Init
<1>2. NetDom0Inv /\ OrderInv /\ NetDom0Inv' /\ [Next]_vars => OrderInv' /\ [Server!Next]_ServerVars
    BY OrderStep, ServerStep DEF NetDom0Inv
<1>3. [Server!Next]_ServerVars
        => [Server!Next]_<<script, [g \in Guests |-> IF Mixes(g) THEN 0 ELSE req_prod[g]],
                           [g \in Guests |-> IF Mixes(g) THEN 0 ELSE Dealt(g)],
                           [g \in Guests |-> IF Mixes(g) THEN <<>> ELSE rsp_id[g]]>>
    BY DEF ServerVars, Posted, DealtWith, Answers
<1> QED BY <1>1, <1>2, <1>3, InitOrder, RequestsCounted, PTL DEF Spec, ImplementsServer, Server!Spec
=============================================================================
