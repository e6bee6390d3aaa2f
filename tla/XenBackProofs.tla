---------------------------- MODULE XenBackProofs ---------------------------
(***************************************************************************)
(* Proofs about XenBackDom0 for any number of guests, ring and pool sizes  *)
(* and any requests: its types, the ring's indexes, the pool of pending    *)
(* requests, the wake-up protocol of the workers, the owner of the device, *)
(* and that it implements the abstract server.                             *)
(***************************************************************************)
EXTENDS XenBackDom0, TLAPS, FiniteSetTheorems

USE DEF Go, front_vars, rsp_vars, req_vars, ring_vars, file_vars, mark_vars, dev_vars, loop_vars,
        DevFrame, LoopFrame

(* The steps of a worker that look at the ring or the pool, ...            *)
RingSteps(g) ==
    \/ WaitRequests(g) \/ WaitPool(g) \/ Snapshot(g) \/ Take(g) \/ TakeLater(g) \/ FinalCheck(g)
    \/ FreeReq(g) \/ MakeResponse(g)

(* ... and those inside the switch, which only use the device.             *)
DeviceSteps(g) ==
    \/ ServeOpen(g) \/ OpenFile(g) \/ ServeClose(g) \/ CloseFile(g)
    \/ WriteLock(g) \/ WriteTest(g) \/ Nap(g) \/ Awake(g) \/ DoWrite(g) \/ DoUnlock(g)
    \/ DoRead(g) \/ ReadFinish(g) \/ ReadWake(g) \/ IoctlLock(g)

(* A worker's steps are these two kinds.                                   *)
LEMMA WorkerSteps ==
    ASSUME NEW g \in Guests
    PROVE  Worker(g) <=> RingSteps(g) \/ DeviceSteps(g)
BY DEF Worker, RingSteps, DeviceSteps

(* Where the steps inside the switch lead.                                 *)
LEMMA DeviceStepsServe ==
    ASSUME NEW g \in Guests, DeviceSteps(g), pc \in [Guests -> Places]
    PROVE  /\ UNCHANGED <<ring_vars, bus, loop_vars>>
           /\ pc[g] \in Serving \ ({"put", "dead"} \cup DOMAIN AfterResponse)
           /\ \E to \in Serving : pc' = [pc EXCEPT ![g] = to]
<1> USE DEF Serving, Writing, AfterResponse, Places
<1>1. CASE ServeOpen(g) \/ OpenFile(g) \/ ServeClose(g) \/ CloseFile(g)
    BY <1>1 DEF ServeOpen, OpenFile, ServeClose, CloseFile
<1>2. CASE WriteLock(g) \/ WriteTest(g) \/ Nap(g) \/ Awake(g)
    BY <1>2 DEF WriteLock, WriteTest, Nap, Awake
<1>3. CASE DoWrite(g) \/ DoRead(g)
    BY <1>3 DEF DoWrite, DoRead, Transfer
<1>4. CASE DoUnlock(g) \/ ReadFinish(g) \/ ReadWake(g) \/ IoctlLock(g)
    BY <1>4 DEF DoUnlock, ReadFinish, ReadWake, IoctlLock
<1> QED BY <1>1, <1>2, <1>3, <1>4 DEF DeviceSteps

(* The places where a WRITE is served.                                     *)
WritePlaces == {"wlock", "wtest", "nap", "asleep", "write"}

(* Inside the switch only a transfer that failed ends the duty to answer,  *)
(* and no path leads into that of another operation.                       *)
LEMMA LeavesOwing ==
    ASSUME NEW g \in Guests, DeviceSteps(g), pc \in [Guests -> Places]
    PROVE  \E to \in Serving :
              /\ pc' = [pc EXCEPT ![g] = to]
              /\ to \in Owing => pc[g] \in Owing
              /\ pc[g] \in Owing /\ to \notin Owing => pc[g] \in {"write", "read"}
              /\ to \in WritePlaces => pc[g] \in WritePlaces
              /\ to # "read"
<1> USE DEF Serving, Writing, AfterResponse, Owing, WritePlaces
<1>1. CASE ServeOpen(g) \/ OpenFile(g) \/ ServeClose(g) \/ CloseFile(g)
    BY <1>1 DEF ServeOpen, OpenFile, ServeClose, CloseFile
<1>2. CASE WriteLock(g) \/ WriteTest(g) \/ Nap(g) \/ Awake(g)
    BY <1>2 DEF WriteLock, WriteTest, Nap, Awake
<1>3. CASE DoWrite(g) \/ DoRead(g)
    BY <1>3 DEF DoWrite, DoRead, Transfer
<1>4. CASE DoUnlock(g) \/ ReadFinish(g) \/ ReadWake(g) \/ IoctlLock(g)
    BY <1>4 DEF DoUnlock, ReadFinish, ReadWake, IoctlLock
<1> QED BY <1>1, <1>2, <1>3, <1>4 DEF DeviceSteps

-----------------------------------------------------------------------------
(* The indexes of a ring never pass one another: responses read, responses *)
(* made, requests dealt with, taken, seen, posted; and the front end keeps *)
(* within the slots it knows to be free.                                   *)
Counts == \A g \in Guests :
    /\ rsp_cons[g] <= rsp_prod[g] /\ rsp_prod[g] <= Dealt(g)
    /\ req_cons[g] <= rp[g] /\ rp[g] <= req_prod[g] /\ req_prod[g] <= Len(script[g])
    /\ req_prod[g] - rsp_cons[g] <= RingSize

(* Where an operation's path begins.                                       *)
LEMMA EntryServes ==
    ASSUME NEW op \in Ops
    PROVE  Entry[op] \in Serving /\ (op = "MAP" => Entry[op] = "put")
           /\ (op # "MAP" => Entry[op] \in Owing)
BY DEF Ops, Entry, Serving, Writing, Owing, AfterResponse

(* A request taken is one that was posted.                                 *)
LEMMA TakenIsOp ==
    ASSUME TypeOK, Counts, NEW g \in Guests, More(g)
    PROVE  /\ req_cons[g] \in Nat /\ req_cons[g] + 1 \in 1 .. Len(script[g])
           /\ req_cons[g] < rp[g] /\ script[g][req_cons[g] + 1] \in Ops
<1>1. script[g] \in Seq(Ops)
    BY RingAssumption DEF TypeOK, RingTypeOK
<1>2. req_cons[g] \in Nat /\ rp[g] \in Nat /\ req_prod[g] \in Nat /\ Len(script[g]) \in Nat
    BY <1>1 DEF TypeOK, RingTypeOK
<1>3. req_cons[g] + 1 \in 1 .. Len(script[g]) /\ req_cons[g] < rp[g]
    BY <1>2 DEF More, Counts
<1> QED BY <1>1, <1>2, <1>3

(* Everything holds initially.                                             *)
LEMMA InitCounts ==
    ASSUME Init
    PROVE  TypeOK /\ Counts /\ PoolAccounted
<1>1. PICK w \in Workloads :
        /\ script = w.script /\ reqs = w.reqs /\ open_cnt = Cardinality(w.opened)
        /\ bus = [g \in Guests |-> IF g \in w.opened THEN "Connected" ELSE "InitWait"]
        /\ pc = [g \in Guests |-> IF g \in w.opened THEN "idle" ELSE "none"]
        /\ waiting_reqs \in [Guests -> {0, 1}]
        /\ chrif_filp = IF w.opened # {} THEN "open" ELSE "none"
    BY DEF Init
<1>2. /\ w.script \in Scripts /\ w.opened \in SUBSET Guests /\ w.reqs \in Nat \ {0}
    BY BackAssumption
<1>3. open_cnt \in Nat
    BY <1>1, <1>2, RingAssumption, FS_Subset, FS_CardinalityType
<1>4. RingTypeOK
    BY DEF Init, RingInit, RingTypeOK
<1>5. TypeOK
    <2>1. /\ bus \in [Guests -> {"InitWait", "Connected", "Unbound"}] /\ pc \in [Guests -> Places]
          /\ reqs \in Nat /\ chrif_filp \in {"none", "open", "error", "closed"}
        BY <1>1, <1>2 DEF Places
    <2>2. /\ rp \in [Guests -> Nat] /\ pending_free = reqs /\ pdma_lock = 1 /\ wting_domu_id = NoGuest
          /\ write_pdma_wq = {} /\ write_pdma_ws = 0 /\ contended = FALSE /\ errors = 0
        BY DEF Init
    <2>3. pending_free \in 0 .. reqs /\ errors \in 0 .. MaxErrors
        BY <2>1, <2>2, BackAssumption
    <2>4. waiting_reqs \in [Guests -> {0, 1}] /\ open_cnt \in Int
        BY <1>1, <1>3
    <2> QED BY <1>4, <2>1, <2>2, <2>3, <2>4 DEF TypeOK
<1>6. \A g \in Guests : pc[g] \notin Serving
    BY <1>1 DEF Serving, Writing, AfterResponse
<1>7. Counts
    <2>1. \A g \in Guests : Len(script[g]) \in Nat
        BY RingAssumption DEF Init, RingInit
    <2> QED BY <1>6, <2>1, RingAssumption DEF Counts, Dealt, Owing, Init, RingInit
<1>8. PoolAccounted
    <2>1. {g \in Guests : pc[g] \in Serving} = {}
        BY <1>6
    <2>2. pending_free = reqs /\ reqs \in Nat
        BY <1>1, <1>2 DEF Init
    <2>3. Cardinality({g \in Guests : pc[g] \in Serving}) = 0
        BY <2>1, FS_EmptySet
    <2> QED BY <2>2, <2>3 DEF PoolAccounted
<1> QED BY <1>5, <1>7, <1>8

-----------------------------------------------------------------------------
(* Moving one worker moves at most one in or out of those that serve.      *)
LEMMA ServingMoves ==
    ASSUME pc \in [Guests -> Places], NEW g \in Guests, NEW to, pc' = [pc EXCEPT ![g] = to],
           NEW n \in Int, n = Cardinality({h \in Guests : pc[h] \in Serving}),
           NEW m, m = Cardinality({h \in Guests : pc'[h] \in Serving})
    PROVE  /\ (pc[g] \in Serving <=> to \in Serving) => m = n
           /\ (pc[g] \notin Serving /\ to \in Serving) => m = n + 1
           /\ (pc[g] \in Serving /\ to \notin Serving) => m = n - 1 /\ n >= 1
<1> DEFINE S == {h \in Guests : pc[h] \in Serving}
           T == {h \in Guests : pc'[h] \in Serving}
<1>1. IsFiniteSet(S) /\ IsFiniteSet(T)
    BY RingAssumption, FS_Subset
<1>2. CASE pc[g] \in Serving <=> to \in Serving
    BY <1>2, S = T
<1>3. CASE pc[g] \notin Serving /\ to \in Serving
    <2>1. T = S \cup {g} /\ g \notin S
        BY <1>3
    <2> QED BY <1>1, <1>3, <2>1, FS_AddElement
<1>4. CASE pc[g] \in Serving /\ to \notin Serving
    <2>1. T = S \ {g} /\ g \in S
        BY <1>4
    <2>2. Cardinality(S) # 0 /\ Cardinality(S) \in Nat
        BY <1>1, <2>1, FS_EmptySet, FS_CardinalityType
    <2> HIDE DEF S, T
    <2>3. Cardinality(T) = Cardinality(S) - 1
        BY <1>1, <2>1, FS_RemoveElement
    <2>4. n = Cardinality(S) /\ m = Cardinality(T)
        BY DEF S, T
    <2> QED BY <1>4, <2>2, <2>3, <2>4
<1> QED BY <1>2, <1>3, <1>4

(* The pool: every step keeps the account.                                 *)
LEMMA PoolStep ==
    ASSUME TypeOK, Counts, PoolAccounted, Next
    PROVE  PoolAccounted' /\ pending_free' \in 0 .. reqs
<1> DEFINE n == Cardinality({h \in Guests : pc[h] \in Serving})
           m == Cardinality({h \in Guests : pc'[h] \in Serving})
<1>1. /\ pending_free + n = reqs /\ pending_free \in 0 .. reqs /\ reqs \in Nat
      /\ pc \in [Guests -> Places]
    BY DEF PoolAccounted, TypeOK
<1>2. n \in Int
    BY RingAssumption, FS_Subset, FS_CardinalityType
<1>3. SUFFICES pending_free' + m = reqs' /\ pending_free' \in 0 .. reqs
    BY DEF PoolAccounted
<1>4. ASSUME UNCHANGED <<pc, reqs, pending_free>>
      PROVE  pending_free' + m = reqs' /\ pending_free' \in 0 .. reqs
    <2>1. m = n
        BY <1>4
    <2> QED BY <1>1, <1>4, <2>1
<1>5. ASSUME NEW g \in Guests, NEW to, pc' = [pc EXCEPT ![g] = to], reqs' = reqs,
             \/ (pc[g] \in Serving <=> to \in Serving) /\ pending_free' = pending_free
             \/ pc[g] \notin Serving /\ to \in Serving /\ pending_free > 0 /\ pending_free' = pending_free - 1
             \/ pc[g] \in Serving /\ to \notin Serving /\ pending_free' = pending_free + 1
      PROVE  pending_free' + m = reqs' /\ pending_free' \in 0 .. reqs
    <2>1. /\ (pc[g] \in Serving <=> to \in Serving) => m = n
          /\ (pc[g] \notin Serving /\ to \in Serving) => m = n + 1
          /\ (pc[g] \in Serving /\ to \notin Serving) => m = n - 1 /\ n >= 1
        BY <1>1, <1>2, <1>5, ServingMoves
    <2> QED BY <1>1, <1>2, <1>5, <2>1
<1> HIDE DEF n, m
<1>6. PICK g \in Guests :
        Connecting(g) \/ FrontPost(g) \/ FrontRead(g) \/ Interrupt(g) \/ Worker(g)
    BY DEF Next
<1>7. CASE Connect(g) \/ FrontPost(g) \/ FrontRead(g) \/ Interrupt(g)
    BY <1>4, <1>7 DEF Connect, FrontPost, FrontRead, Interrupt
<1>8. CASE StartThread(g)
    BY <1>5, <1>8 DEF StartThread, Serving, Writing, AfterResponse
<1>9. CASE DeviceSteps(g)
    BY <1>1, <1>5, <1>9, DeviceStepsServe
<1>10. CASE WaitRequests(g) \/ WaitPool(g) \/ Snapshot(g) \/ TakeLater(g) \/ FinalCheck(g)
    BY <1>5, <1>10 DEF WaitRequests, WaitPool, Snapshot, TakeLater, FinalCheck, Serving, Writing, AfterResponse
<1>11. CASE Take(g)
    <2>1. Entry[script[g][req_cons[g] + 1]] \in Serving /\ "scan" \notin Serving
        BY <1>11, TakenIsOp, EntryServes DEF Take, Serving, Writing, AfterResponse
    <2> QED BY <1>5, <1>11, <2>1 DEF Take
<1>12. CASE FreeReq(g)
    BY <1>5, <1>12 DEF FreeReq, Serving, Writing, AfterResponse
<1>13. CASE MakeResponse(g)
    <2>1. pc[g] \in Serving /\ AfterResponse[pc[g]] \in Serving
        BY <1>13 DEF MakeResponse, Serving, Writing, AfterResponse
    <2> QED BY <1>5, <1>13, <2>1 DEF MakeResponse
<1> QED BY <1>6, <1>7, <1>8, <1>9, <1>10, <1>11, <1>12, <1>13, WorkerSteps DEF Connecting, RingSteps

-----------------------------------------------------------------------------
(* The types that the steps below need, by name.                           *)
LEMMA Types ==
    ASSUME TypeOK
    PROVE  /\ req_prod \in [Guests -> Nat] /\ req_event \in [Guests -> Nat] /\ req_cons \in [Guests -> Nat]
           /\ rsp_prod \in [Guests -> Nat] /\ rsp_event \in [Guests -> Nat] /\ rsp_cons \in [Guests -> Nat]
           /\ rsp_id \in [Guests -> Seq(Nat)] /\ evt \in [Guests -> BOOLEAN] /\ fevt \in [Guests -> BOOLEAN]
           /\ pc \in [Guests -> Places] /\ rp \in [Guests -> Nat] /\ waiting_reqs \in [Guests -> {0, 1}]
           /\ script \in Scripts /\ \A g \in Guests : script[g] \in Seq(Ops) /\ Len(script[g]) \in Nat
           /\ reqs \in Nat /\ pending_free \in 0 .. reqs /\ RingSize \in Nat \ {0}
<1>1. script \in Scripts
    BY DEF TypeOK, RingTypeOK
<1>2. \A g \in Guests : script[g] \in Seq(Ops) /\ Len(script[g]) \in Nat
    BY <1>1, RingAssumption
<1>3. \A c \in {req_prod, req_event, req_cons, rsp_prod, rsp_event, rsp_cons} : c \in [Guests -> Nat]
    BY DEF TypeOK, RingTypeOK
<1> QED BY <1>1, <1>2, <1>3, RingAssumption DEF TypeOK, RingTypeOK

(* The front end's and the event channels' steps keep the indexes.         *)
CountsAt(g) ==
    /\ rsp_cons[g] <= rsp_prod[g] /\ rsp_prod[g] <= Dealt(g)
    /\ req_cons[g] <= rp[g] /\ rp[g] <= req_prod[g] /\ req_prod[g] <= Len(script[g])
    /\ req_prod[g] - rsp_cons[g] <= RingSize

(* A step of one guest leaves the indexes of the others alone.             *)
Others(g) == \A h \in Guests \ {g} :
    UNCHANGED <<rsp_cons[h], rsp_prod[h], req_cons[h], rp[h], req_prod[h], pc[h]>>

(* The indexes of all guests, guest by guest.                              *)
LEMMA CountsByGuest ==
    ASSUME Counts, NEW g \in Guests, UNCHANGED script, Others(g), CountsAt(g) => CountsAt(g)'
    PROVE  Counts'
BY DEF Counts, CountsAt, Dealt, Others

(* The steps that are not a worker's keep the indexes.                     *)
LEMMA OutsideCounts ==
    ASSUME TypeOK, Counts, NEW g \in Guests,
           Connecting(g) \/ FrontPost(g) \/ FrontRead(g) \/ Interrupt(g)
    PROVE  Counts'
<1>1. CASE Connect(g) \/ Interrupt(g)
    BY <1>1 DEF Connect, Interrupt, Counts, Dealt
<1>2. CASE StartThread(g)
    <2>1. /\ pc[g] \notin Owing /\ pc'[g] \notin Owing
          /\ UNCHANGED <<script, req_prod, rsp_cons, rsp_prod, req_cons, rp>> /\ Others(g)
        BY <1>2, Types DEF StartThread, Others, Owing, Serving, Writing, AfterResponse
    <2> QED BY <2>1, CountsByGuest DEF CountsAt, Dealt
<1>3. CASE FrontPost(g)
    <2>1. /\ req_prod[g] < Len(script[g]) /\ req_prod[g] - rsp_cons[g] < RingSize
          /\ req_prod'[g] = req_prod[g] + 1 /\ Others(g)
          /\ UNCHANGED <<script, rsp_cons, rsp_prod, req_cons, pc, rp>>
        BY <1>3, Types DEF FrontPost, Post, Others
    <2>2. {req_prod[g], Len(script[g]), rsp_cons[g], rp[g], RingSize} \subseteq Nat
        BY Types
    <2> QED BY <2>1, <2>2, CountsByGuest DEF CountsAt, Dealt
<1>4. CASE FrontRead(g)
    <2>1. /\ rsp_cons'[g] = rsp_prod[g] /\ Others(g)
          /\ UNCHANGED <<script, req_prod, rsp_prod, req_cons, pc, rp>>
        BY <1>4, Types DEF FrontRead, FrontInterrupt, Others
    <2>2. {req_prod[g], rsp_prod[g], rsp_cons[g], RingSize} \subseteq Nat
        BY Types
    <2> QED BY <2>1, <2>2, CountsByGuest DEF CountsAt, Dealt
<1> QED BY <1>1, <1>2, <1>3, <1>4 DEF Connecting

(* So do a worker's: it takes what its snapshot showed, and answers a      *)
(* request at most once.                                                   *)
LEMMA WorkerCounts ==
    ASSUME TypeOK, Counts, NEW g \in Guests, Worker(g)
    PROVE  Counts'
<1>0. {req_prod[g], rsp_prod[g], rsp_cons[g], req_cons[g], rp[g]} \subseteq Nat /\ CountsAt(g)
    BY Types DEF Counts, CountsAt
<1>1. ASSUME NEW to, pc' = [pc EXCEPT ![g] = to], to \in Owing => pc[g] \in Owing,
             UNCHANGED <<script, req_prod, rsp_cons, rsp_prod, req_cons, rp>>
      PROVE  Counts'
    <2>1. Others(g) /\ pc'[g] = to
        BY <1>1, Types DEF Others
    <2> QED BY <1>0, <1>1, <2>1, CountsByGuest DEF CountsAt, Dealt
<1>2. CASE DeviceSteps(g)
    BY <1>1, <1>2, LeavesOwing, DeviceStepsServe, Types
<1>3. CASE WaitRequests(g) \/ WaitPool(g) \/ TakeLater(g) \/ FinalCheck(g) \/ FreeReq(g)
    <2>1. \E to \in {"pool", "snap", "scan", "idle"} : pc' = [pc EXCEPT ![g] = to]
        BY <1>3 DEF WaitRequests, WaitPool, TakeLater, FinalCheck, FreeReq
    <2>2. {"pool", "snap", "scan", "idle"} \cap Owing = {}
        BY DEF Owing, Serving, Writing, AfterResponse
    <2>3. UNCHANGED <<script, req_prod, rsp_cons, rsp_prod, req_cons, rp>>
        BY <1>3 DEF WaitRequests, WaitPool, TakeLater, FinalCheck, AskForEvent, FreeReq
    <2> QED BY <1>1, <2>1, <2>2, <2>3
<1>4. CASE Snapshot(g)
    <2>1. /\ rp'[g] \in {req_prod[g], rp[g]} /\ pc'[g] \in {"scan", "lost"} /\ Others(g)
          /\ UNCHANGED <<script, req_prod, rsp_cons, rsp_prod, req_cons>>
        BY <1>4, Types DEF Snapshot, Others
    <2>2. pc[g] \notin Owing /\ {"scan", "lost"} \cap Owing = {}
        BY <1>4 DEF Snapshot, Owing, Serving, Writing, AfterResponse
    <2> QED BY <1>0, <2>1, <2>2, CountsByGuest DEF CountsAt, Dealt
<1>5. CASE Take(g)
    <2>1. req_cons[g] < rp[g]
        BY <1>5, TakenIsOp DEF Take
    <2>2. pc[g] \notin Owing
        BY <1>5 DEF Take, Owing, Serving, Writing, AfterResponse
    <2>3. /\ req_cons'[g] = req_cons[g] + 1 /\ Others(g)
          /\ UNCHANGED <<script, req_prod, rsp_cons, rsp_prod, rp>>
        BY <1>5, Types DEF Take, TakeRequest, Others
    <2> QED BY <1>0, <2>1, <2>2, <2>3, CountsByGuest DEF CountsAt, Dealt
<1>6. CASE MakeResponse(g)
    <2>1. pc[g] \in Owing /\ AfterResponse[pc[g]] \notin Owing
        BY <1>6 DEF MakeResponse, Owing, Serving, Writing, AfterResponse
    <2>2. /\ rsp_prod'[g] = rsp_prod[g] + 1 /\ pc'[g] = AfterResponse[pc[g]] /\ Others(g)
          /\ UNCHANGED <<script, req_prod, rsp_cons, req_cons, rp>>
        BY <1>6, Types DEF MakeResponse, PushResponse, Others
    <2>3. pc'[g] \notin Owing
        BY <2>1, <2>2
    <2>4. rsp_prod[g] <= req_cons[g] - 1
        BY <1>0, <2>1 DEF CountsAt, Dealt
    <2> QED BY <1>0, <2>2, <2>3, <2>4, CountsByGuest DEF CountsAt, Dealt
<1> QED BY <1>2, <1>3, <1>4, <1>5, <1>6, WorkerSteps DEF RingSteps

-----------------------------------------------------------------------------
(* Types.                                                                  *)
RingTypes ==
    /\ script \in Scripts
    /\ req_prod \in [Guests -> Nat] /\ req_event \in [Guests -> Nat] /\ req_cons \in [Guests -> Nat]
    /\ rsp_prod \in [Guests -> Nat] /\ rsp_event \in [Guests -> Nat] /\ rsp_cons \in [Guests -> Nat]
    /\ rsp_id \in [Guests -> Seq(Nat)] /\ evt \in [Guests -> BOOLEAN] /\ fevt \in [Guests -> BOOLEAN]

(* The quantifier in RingTypeOK, written out.                              *)
LEMMA RingTypesListed == RingTypeOK <=> RingTypes
BY DEF RingTypeOK, RingTypes

(* The same of the next state.                                             *)
LEMMA RingTypesListedNext == RingTypeOK' <=> RingTypes'
BY RingTypesListed, PTL

LoopTypes ==
    /\ bus \in [Guests -> {"InitWait", "Connected", "Unbound"}] /\ pc \in [Guests -> Places] /\ rp \in [Guests -> Nat]
    /\ waiting_reqs \in [Guests -> {0, 1}] /\ reqs \in Nat /\ pending_free \in 0 .. reqs

DeviceTypes ==
    /\ open_cnt \in Int /\ chrif_filp \in {"none", "open", "error", "closed"} /\ pdma_lock \in Nat
    /\ wting_domu_id \in Guests \cup {NoGuest} /\ write_pdma_wq \subseteq Guests
    /\ write_pdma_ws \in {0, 1} /\ contended \in BOOLEAN /\ errors \in 0 .. MaxErrors

(* The three parts of TypeOK.                                              *)
LEMMA TypesListed == TypeOK <=> RingTypes /\ LoopTypes /\ DeviceTypes
BY RingTypesListed DEF TypeOK, LoopTypes, DeviceTypes

(* A failure more is still within the bound.                               *)
LEMMA FailCounts ==
    ASSUME errors \in 0 .. MaxErrors, Fail
    PROVE  errors' \in 0 .. MaxErrors
BY BackAssumption DEF Fail

(* The steps that are not a worker's keep the types,                       *)
LEMMA OutsideType ==
    ASSUME TypeOK, NEW g \in Guests,
           Connecting(g) \/ FrontPost(g) \/ FrontRead(g) \/ Interrupt(g)
    PROVE  (RingTypes /\ LoopTypes /\ DeviceTypes)'
<1>0. RingTypes /\ LoopTypes /\ DeviceTypes
    BY TypesListed
<1> USE <1>0
<1>1. CASE Connect(g)
    <2>1. errors' \in 0 .. MaxErrors
        BY <1>1, FailCounts DEF Connect, DeviceTypes
    <2> QED BY <1>1, <2>1 DEF Connect, RingTypes, LoopTypes, DeviceTypes
<1>2. CASE StartThread(g)
    <2>1. errors' \in 0 .. MaxErrors
        BY <1>2, FailCounts DEF StartThread, DeviceTypes
    <2> QED BY <1>2, <2>1 DEF StartThread, Places, RingTypes, LoopTypes, DeviceTypes
<1>3. CASE FrontPost(g)
    <2>1. req_prod' \in [Guests -> Nat]
        BY <1>3 DEF FrontPost, Post, RingTypes
    <2>2. evt' \in [Guests -> BOOLEAN]
        BY <1>3 DEF FrontPost, Post, RingTypes
    <2> QED BY <1>3, <2>1, <2>2 DEF FrontPost, Post, RingTypes, LoopTypes, DeviceTypes
<1>4. CASE FrontRead(g)
    <2>1. /\ rsp_cons' \in [Guests -> Nat] /\ rsp_event' \in [Guests -> Nat]
          /\ fevt' \in [Guests -> BOOLEAN]
        BY <1>4 DEF FrontRead, FrontInterrupt, RingTypes
    <2>2. UNCHANGED <<script, req_prod, req_event, req_cons, rsp_prod, rsp_id, evt, bus, pc>>
          /\ UNCHANGED loop_vars /\ UNCHANGED dev_vars
        BY <1>4 DEF FrontRead, FrontInterrupt, req_vars
    <2>3. RingTypes'
        BY <2>1, <2>2 DEF RingTypes
    <2>4. LoopTypes'
        BY <2>2 DEF LoopTypes, loop_vars
    <2>5. DeviceTypes'
        BY <2>2 DEF DeviceTypes, dev_vars, file_vars, mark_vars
    <2> QED BY <2>3, <2>4, <2>5
<1>5. CASE Interrupt(g)
    BY <1>5 DEF Interrupt, RingTypes, LoopTypes, DeviceTypes
<1> QED BY <1>1, <1>2, <1>3, <1>4, <1>5 DEF Connecting

(* so do a worker's inside the switch,                                     *)
LEMMA DeviceType ==
    ASSUME TypeOK, NEW g \in Guests, DeviceSteps(g)
    PROVE  (RingTypes /\ LoopTypes /\ DeviceTypes)'
<1>0. RingTypes /\ LoopTypes /\ DeviceTypes
    BY TypesListed
<1>1. RingTypes' /\ LoopTypes'
    <2>1. pc' \in [Guests -> Places]
        BY <1>0, DeviceStepsServe DEF LoopTypes, Places
    <2>2. UNCHANGED <<ring_vars, bus, loop_vars>>
        BY <1>0, DeviceStepsServe DEF LoopTypes
    <2> QED BY <1>0, <2>1, <2>2 DEF RingTypes, LoopTypes
<1>2. DeviceTypes'
    <2> USE <1>0 DEF DeviceTypes
    <2>1. CASE ServeOpen(g) \/ OpenFile(g) \/ ServeClose(g) \/ CloseFile(g)
        <3>1. errors' \in 0 .. MaxErrors
            BY <2>1, FailCounts DEF ServeOpen, OpenFile, ServeClose, CloseFile
        <3>2. open_cnt' \in Int
            BY <2>1 DEF ServeOpen, OpenFile, ServeClose, CloseFile
        <3>3. chrif_filp' \in {"none", "open", "error", "closed"}
            BY <2>1 DEF ServeOpen, OpenFile, ServeClose, CloseFile
        <3> QED BY <2>1, <3>1, <3>2, <3>3 DEF ServeOpen, OpenFile, ServeClose, CloseFile
    <2>2. CASE WriteLock(g) \/ WriteTest(g) \/ Nap(g) \/ Awake(g)
        <3>1. pdma_lock' \in Nat
            BY <2>2 DEF WriteLock, WriteTest, Nap, Awake, Lock, Unlock
        <3> QED BY <2>2, <3>1 DEF WriteLock, WriteTest, Nap, Awake
    <2>3. CASE DoWrite(g) \/ DoRead(g)
        <3>1. errors' \in 0 .. MaxErrors
            <4>1. errors' = errors \/ (errors < MaxErrors /\ errors' = errors + 1)
                BY <2>3 DEF DoWrite, DoRead, Transfer, Fail
            <4> QED BY <4>1, BackAssumption
        <3>2. contended' \in BOOLEAN
            BY <2>3 DEF DoWrite, DoRead
        <3> QED BY <2>3, <3>1, <3>2 DEF DoWrite, DoRead, Transfer
    <2>4. CASE DoUnlock(g) \/ ReadFinish(g) \/ ReadWake(g) \/ IoctlLock(g)
        <3>1. pdma_lock' \in Nat
            BY <2>4 DEF DoUnlock, ReadFinish, ReadWake, IoctlLock, Lock, Unlock
        <3> QED BY <2>4, <3>1 DEF DoUnlock, ReadFinish, ReadWake, IoctlLock
    <2> QED BY <2>1, <2>2, <2>3, <2>4 DEF DeviceSteps
<1> QED BY <1>1, <1>2

(* and those in its loop, given the order of the indexes.                  *)
LEMMA RingType ==
    ASSUME TypeOK, Counts, pending_free' \in 0 .. reqs, NEW g \in Guests, RingSteps(g)
    PROVE  (RingTypes /\ LoopTypes /\ DeviceTypes)'
<1>0. RingTypes /\ LoopTypes /\ DeviceTypes
    BY TypesListed
<1> USE <1>0
<1>1. CASE WaitRequests(g) \/ WaitPool(g) \/ TakeLater(g)
    BY <1>1 DEF WaitRequests, WaitPool, TakeLater, Places, RingTypes, LoopTypes, DeviceTypes
<1>2. CASE Snapshot(g)
    BY <1>2 DEF Snapshot, Places, RingTypes, LoopTypes, DeviceTypes
<1>3. CASE FinalCheck(g)
    <2>1. pc' \in [Guests -> Places]
        BY <1>3 DEF FinalCheck, Places, LoopTypes
    <2>2. req_event' \in [Guests -> Nat] /\ req_cons' = req_cons
        <3>1. UNCHANGED req_vars \/ AskForEvent(g)
            BY <1>3 DEF FinalCheck
        <3>2. CASE AskForEvent(g)
            <4>1. req_cons[g] + 1 \in Nat /\ req_event \in [Guests -> Nat]
                BY DEF RingTypes
            <4> QED BY <3>2, <4>1 DEF AskForEvent
        <3> QED BY <3>1, <3>2 DEF RingTypes
    <2> QED BY <1>3, <2>1, <2>2 DEF FinalCheck, RingTypes, LoopTypes, DeviceTypes
<1>4. CASE FreeReq(g)
    BY <1>4 DEF FreeReq, Places, RingTypes, LoopTypes, DeviceTypes
<1>5. CASE Take(g)
    <2>1. Entry[script[g][req_cons[g] + 1]] \in Places
        BY <1>5, TakenIsOp, EntryServes DEF Take, Places
    <2>2. pc' \in [Guests -> Places]
        BY <1>5, <2>1 DEF Take, LoopTypes
    <2>3. req_cons' \in [Guests -> Nat] /\ req_event' = req_event
        BY <1>5 DEF Take, TakeRequest, RingTypes
    <2> QED BY <1>5, <2>2, <2>3 DEF Take, RingTypes, LoopTypes, DeviceTypes
<1>6. CASE MakeResponse(g)
    <2>1. AfterResponse[pc[g]] \in Places
        BY <1>6 DEF MakeResponse, AfterResponse, Places, Serving
    <2>2. /\ rsp_prod' \in [Guests -> Nat] /\ rsp_id' \in [Guests -> Seq(Nat)]
          /\ fevt' \in [Guests -> BOOLEAN]
        <3>1. rsp_prod' \in [Guests -> Nat]
            BY <1>6 DEF MakeResponse, PushResponse, RingTypes
        <3>2. rsp_id' \in [Guests -> Seq(Nat)]
            <4>1. Append(rsp_id[g], req_cons[g]) \in Seq(Nat)
                BY DEF RingTypes
            <4> QED BY <1>6, <4>1 DEF MakeResponse, PushResponse, RingTypes
        <3>3. fevt' \in [Guests -> BOOLEAN]
            BY <1>6 DEF MakeResponse, PushResponse, RingTypes
        <3> QED BY <3>1, <3>2, <3>3
    <2> QED BY <1>6, <2>1, <2>2 DEF MakeResponse, RingTypes, LoopTypes, DeviceTypes
<1> QED BY <1>1, <1>2, <1>3, <1>4, <1>5, <1>6 DEF RingSteps

-----------------------------------------------------------------------------
(* The three together are inductive.                                       *)
Inv == TypeOK /\ Counts /\ PoolAccounted

(* No step breaks types, indexes or the pool's account.                    *)
LEMMA InvStep ==
    ASSUME Inv, [Next]_vars
    PROVE  Inv'
<1>1. CASE UNCHANGED vars
    BY <1>1 DEF Inv, vars, TypeOK, RingTypeOK, Counts, Dealt, PoolAccounted
<1>2. CASE Next
    <2>1. PICK g \in Guests :
            Connecting(g) \/ FrontPost(g) \/ FrontRead(g) \/ Interrupt(g) \/ Worker(g)
        BY <1>2 DEF Next
    <2>2. PoolAccounted' /\ pending_free' \in 0 .. reqs
        BY <1>2, PoolStep DEF Inv
    <2>3. Counts'
        BY <2>1, OutsideCounts, WorkerCounts DEF Inv
    <2>4. TypeOK'
        <3>1. (RingTypes /\ LoopTypes /\ DeviceTypes)'
            BY <2>1, <2>2, OutsideType, DeviceType, RingType, WorkerSteps DEF Inv
        <3> QED BY <3>1, TypesListed, PTL
    <2> QED BY <2>2, <2>3, <2>4 DEF Inv
<1> QED BY <1>1, <1>2

(* Types, indexes and the pool's account hold together in every state of   *)
(* do_char_io_op and its callers (data.c:382-534).                         *)
THEOREM RingsAndPool == Spec => []Inv
<1>1. Init => Inv
    BY InitCounts DEF Inv
<1>2. Inv /\ [Next]_vars => Inv'
    BY InvStep
<1> QED BY <1>1, <1>2, PTL DEF Spec

(* Every variable keeps its type; in particular pending_free stays within  *)
(* the pool that alloc_req and free_req share (data.c:61-91).              *)
THEOREM TypeCorrect == Spec => []TypeOK
BY RingsAndPool, PTL DEF Inv

(* No path through the switch (data.c:421-487) loses a pending request or  *)
(* frees one twice.                                                        *)
THEOREM PoolIsAccounted == Spec => []PoolAccounted
BY RingsAndPool, PTL DEF Inv

(* The overflow test never strikes: it counts slots that the front end,    *)
(* which posts into free ones only, counts as well.                        *)
LEMMA OverflowNever ==
    ASSUME Inv
    PROVE  NeverOverflows
<1> SUFFICES ASSUME NEW g \in Guests, Unconsumed(g)
             PROVE  ~ConsOverflow(g) /\ rsp_prod[g] <= req_cons[g]
    BY DEF NeverOverflows
<1>1. {req_prod[g], req_cons[g], rsp_prod[g], rsp_cons[g], rp[g], RingSize} \subseteq Nat
    BY Types DEF Inv
<1>2. CountsAt(g)
    BY DEF Inv, Counts, CountsAt
<1>3. Dealt(g) <= req_cons[g]
    BY <1>1 DEF Dealt
<1>4. Dealt(g) \in Int
    BY <1>1 DEF Dealt
<1>5. rsp_prod[g] <= req_cons[g]
    BY <1>1, <1>2, <1>3, <1>4 DEF CountsAt
<1>6. req_cons[g] < req_prod[g]
    BY <1>1, <1>2 DEF CountsAt, Unconsumed
<1>7. ~ConsOverflow(g)
    BY <1>1, <1>2, <1>6, <1>4 DEF CountsAt, ConsOverflow
<1> QED BY <1>5, <1>7

(* So the exit of do_char_io_op's loop on overflow (data.c:399) is dead    *)
(* code, whatever the requests that are never answered.                    *)
THEOREM RingNeverOverflows == Spec => []NeverOverflows
BY RingsAndPool, OverflowNever, PTL

-----------------------------------------------------------------------------
(* The wake-up protocol: a worker at rest that has no reason to look has   *)
(* seen all its ring holds, and is told of the next request.               *)
SeenAt(g) == pc[g] \in {"none", "idle"} =>
    \/ evt[g] \/ waiting_reqs[g] = 1
    \/ req_prod[g] = req_cons[g] /\ req_event[g] = req_cons[g] + 1

Seen == \A g \in Guests : SeenAt(g)

(* Nor does one leave a worker at rest before an unseen request.           *)
LEMMA SeenStep ==
    ASSUME Inv, Seen, [Next]_vars
    PROVE  Seen'
<1>1. CASE UNCHANGED vars
    BY <1>1 DEF Seen, SeenAt, vars
<1>2. ASSUME NEW g \in Guests, SeenAt(g)',
             \A h \in Guests \ {g} :
                UNCHANGED <<pc[h], evt[h], waiting_reqs[h], req_prod[h], req_cons[h], req_event[h]>>
      PROVE  Seen'
    BY <1>2 DEF Seen, SeenAt
<1>3. CASE Next
    <2>1. PICK g \in Guests :
            Connecting(g) \/ FrontPost(g) \/ FrontRead(g) \/ Interrupt(g) \/ Worker(g)
        BY <1>3 DEF Next
    <2>2. SeenAt(g) /\ TypeOK /\ pc \in [Guests -> Places] /\ req_event \in [Guests -> Nat]
        BY Types DEF Inv, Seen
    <2>3. CASE Connect(g) \/ FrontRead(g)
        BY <2>3 DEF Connect, FrontRead, FrontInterrupt, Seen, SeenAt
    <2>4. CASE StartThread(g)
        BY <1>2, <2>2, <2>4 DEF StartThread, SeenAt
    <2>5. CASE FrontPost(g)
        <3>1. /\ evt'[g] = (evt[g] \/ req_event[g] = req_prod[g] + 1)
              /\ UNCHANGED <<pc, waiting_reqs, req_cons, req_event>>
              /\ \A h \in Guests \ {g} : UNCHANGED <<evt[h], req_prod[h]>>
            BY <2>5, Types DEF Inv, FrontPost, Post
        <3>2. SeenAt(g)'
            BY <2>2, <3>1 DEF SeenAt
        <3> QED BY <1>2, <3>1, <3>2
    <2>6. CASE Interrupt(g)
        <3>1. waiting_reqs'[g] = 1
            BY <2>6, Types DEF Inv, Interrupt
        <3> QED BY <1>2, <2>6, <3>1, Types DEF Inv, Interrupt, SeenAt
    <2>7. CASE DeviceSteps(g)
        <3>1. \E to \in Serving : pc' = [pc EXCEPT ![g] = to]
            BY <2>2, <2>7, DeviceStepsServe
        <3>2. {"none", "idle"} \cap Serving = {}
            BY DEF Serving, Writing, AfterResponse
        <3>3. UNCHANGED <<ring_vars, loop_vars>>
            BY <2>2, <2>7, DeviceStepsServe
        <3> QED BY <1>2, <2>2, <3>1, <3>2, <3>3 DEF SeenAt
    <2>8. CASE WaitRequests(g) \/ WaitPool(g) \/ Snapshot(g) \/ FreeReq(g)
        <3>1. \E to \in {"pool", "snap", "scan", "lost"} : pc' = [pc EXCEPT ![g] = to]
            BY <2>8 DEF WaitRequests, WaitPool, Snapshot, FreeReq, Go
        <3>2. /\ UNCHANGED <<req_prod, req_cons, req_event, evt>>
              /\ waiting_reqs' = waiting_reqs \/ waiting_reqs' = [waiting_reqs EXCEPT ![g] = 0]
            BY <2>8 DEF WaitRequests, WaitPool, Snapshot, FreeReq, LoopFrame, front_vars, req_vars
        <3>3. pc'[g] \notin {"none", "idle"} /\ \A h \in Guests \ {g} : UNCHANGED pc[h]
            BY <2>2, <3>1
        <3>4. \A h \in Guests \ {g} : UNCHANGED waiting_reqs[h]
            BY <3>2, Types DEF Inv
        <3>5. SeenAt(g)'
            BY <3>3 DEF SeenAt
        <3> QED BY <1>2, <3>2, <3>3, <3>4, <3>5
    <2>9. CASE Take(g)
        <3>1. Entry[script[g][req_cons[g] + 1]] \in Serving
            BY <2>9, TakenIsOp, EntryServes DEF Inv, Take
        <3>2. {"none", "idle"} \cap Serving = {}
            BY DEF Serving, Writing, AfterResponse
        <3> QED BY <1>2, <2>2, <2>9, <3>1, <3>2, Types DEF Take, TakeRequest, SeenAt
    <2>10. CASE TakeLater(g)
        <3>1. waiting_reqs'[g] = 1
            BY <2>10, Types DEF Inv, TakeLater
        <3> QED BY <1>2, <2>2, <2>10, <3>1, Types DEF TakeLater, SeenAt
    <2>11. CASE FinalCheck(g)
        <3>1. Unconsumed(g) => ~ConsOverflow(g)
            BY OverflowNever DEF NeverOverflows
        <3>2. CASE Go(g, "scan", "snap") /\ UNCHANGED req_vars
            BY <1>2, <2>2, <2>11, <3>2 DEF FinalCheck, SeenAt
        <3>3. CASE ~Unconsumed(g) /\ Go(g, "scan", "idle") /\ AskForEvent(g)
            <4>1. /\ req_event'[g] = req_cons'[g] + 1 /\ req_prod'[g] = req_cons'[g]
                  /\ \A h \in Guests \ {g} : UNCHANGED <<req_event[h], pc[h]>>
                  /\ UNCHANGED <<req_cons, evt, waiting_reqs, req_prod>>
                BY <2>2, <2>11, <3>3 DEF FinalCheck, AskForEvent, Unconsumed
            <4> QED BY <1>2, <4>1 DEF SeenAt
        <3> QED BY <2>11, <3>1, <3>2, <3>3 DEF FinalCheck
    <2>12. CASE MakeResponse(g)
        <3>1. AfterResponse[pc[g]] \in Serving
            BY <2>12 DEF MakeResponse, AfterResponse, Serving, Writing
        <3>2. {"none", "idle"} \cap Serving = {}
            BY DEF Serving, Writing, AfterResponse
        <3> QED BY <1>2, <2>2, <2>12, <3>1, <3>2 DEF MakeResponse, SeenAt
    <2> QED BY <2>1, <2>3, <2>4, <2>5, <2>6, <2>7, <2>8, <2>9, <2>10, <2>11, <2>12, WorkerSteps
            DEF Connecting, RingSteps
<1> QED BY <1>1, <1>3

(* No request is left unseen by a worker at rest in wait_event (data.c:518 *)
(* to 520), whatever the number of guests and the size of ring and pool.   *)
THEOREM RequestsAreSeen == Spec => []RequestsSeen
<1>1. Init => Seen
    BY DEF Init, RingInit, Seen, SeenAt
<1>2. Inv /\ Seen /\ [Next]_vars => Seen'
    BY SeenStep
<1>3. Seen => RequestsSeen
    BY DEF Seen, SeenAt, RequestsSeen, Unconsumed
<1> QED BY <1>1, <1>2, <1>3, RingsAndPool, PTL DEF Spec

-----------------------------------------------------------------------------
(* The owner of the device.  Until two guests contend for it, the mutex is *)
(* held by one worker at most, and who writes it or has just read it under *)
(* the mark still has the mark.                                            *)
Holding == {"wtest", "unlock", "resp_unlock"} \cup Writing
Marked  == {"resp_rfin", "rfin"} \cup Writing

OwnedAt(g) ==
    /\ pc[g] \notin {"nap", "asleep"}
    /\ pc[g] \in Holding => pdma_lock = 0
    /\ pc[g] \in Marked => wting_domu_id = g

Owned ==
    /\ pdma_lock \in {0, 1}
    /\ \A g \in Guests : OwnedAt(g)
    /\ \A g, h \in Guests : pc[g] \in Holding /\ pc[h] \in Holding => g = h

OwnedInv == contended \/ Owned

(* Contention is never forgotten.                                          *)
LEMMA ContendedStays ==
    ASSUME contended, [Next]_vars
    PROVE  contended'
<1>1. CASE UNCHANGED vars
    BY <1>1 DEF vars
<1>2. CASE Next
    <2>1. PICK g \in Guests :
            Connecting(g) \/ FrontPost(g) \/ FrontRead(g) \/ Interrupt(g) \/ Worker(g)
        BY <1>2 DEF Next
    <2>2. CASE Connecting(g) \/ FrontPost(g) \/ FrontRead(g) \/ Interrupt(g)
        BY <2>2 DEF Connecting, Connect, StartThread, FrontPost, FrontRead, Interrupt
    <2>3. CASE RingSteps(g)
        BY <2>3 DEF RingSteps, WaitRequests, WaitPool, Snapshot, Take, TakeLater, FinalCheck,
                    FreeReq, MakeResponse
    <2>4. CASE ServeOpen(g) \/ OpenFile(g) \/ ServeClose(g) \/ CloseFile(g)
        BY <2>4 DEF ServeOpen, OpenFile, ServeClose, CloseFile
    <2>5. CASE WriteLock(g) \/ WriteTest(g) \/ Nap(g) \/ Awake(g)
        BY <2>5 DEF WriteLock, WriteTest, Nap, Awake
    <2>6. CASE DoWrite(g) \/ DoRead(g)
        BY <2>6 DEF DoWrite, DoRead
    <2>7. CASE DoUnlock(g) \/ ReadFinish(g) \/ ReadWake(g) \/ IoctlLock(g)
        BY <2>7 DEF DoUnlock, ReadFinish, ReadWake, IoctlLock
    <2> QED BY <2>1, <2>2, <2>3, <2>4, <2>5, <2>6, <2>7, WorkerSteps DEF DeviceSteps
<1> QED BY <1>1, <1>2

(* A worker that moves without touching mutex or mark.                     *)
LEMMA OwnedQuiet ==
    ASSUME Owned, pc \in [Guests -> Places], UNCHANGED <<pdma_lock, wting_domu_id>>,
           NEW g \in Guests, NEW to, pc' = [pc EXCEPT ![g] = to], to \notin {"nap", "asleep"},
           to \in Holding => pc[g] \in Holding,
           to \in Marked => pc[g] \in Marked \/ wting_domu_id = g
    PROVE  Owned'
<1>1. \A h \in Guests : pc'[h] = IF h = g THEN to ELSE pc[h]
    OBVIOUS
<1> QED BY <1>1 DEF Owned, OwnedAt

(* A step of a worker that uses the device, while nobody contends for it.  *)
LEMMA OwnedDevice ==
    ASSUME TypeOK, Owned, NEW g \in Guests, DeviceSteps(g), ~contended'
    PROVE  Owned'
<1> USE DEF Holding, Marked, Writing
<1>0. /\ pc \in [Guests -> Places] /\ wting_domu_id \in Guests \cup {NoGuest} /\ NoGuest \notin Guests
      /\ pdma_lock \in {0, 1} /\ OwnedAt(g)
      /\ \A h \in Guests : OwnedAt(h)
    BY Types, BackAssumption DEF TypeOK, Owned
<1>1. CASE ServeOpen(g) \/ OpenFile(g) \/ ServeClose(g) \/ CloseFile(g)
    <2>1. UNCHANGED <<pdma_lock, wting_domu_id>>
        BY <1>1 DEF ServeOpen, OpenFile, ServeClose, CloseFile
    <2>2. \E to \in {"filp_open", "filp_close", "resp_put", "dead"} : pc' = [pc EXCEPT ![g] = to]
        BY <1>1 DEF ServeOpen, OpenFile, ServeClose, CloseFile
    <2> QED BY <1>0, <2>1, <2>2, OwnedQuiet
<1>2. ASSUME Lock, NEW to \in {"wtest", "resp_unlock", "dead"}, pc' = [pc EXCEPT ![g] = to],
             wting_domu_id' = wting_domu_id \/ wting_domu_id = NoGuest
      PROVE  Owned'
    <2>1. pdma_lock = 1 /\ pdma_lock' = 0 /\ \A h \in Guests : pc[h] \notin Holding
        BY <1>0, <1>2 DEF Lock, OwnedAt
    <2>2. \A h \in Guests : pc'[h] = IF h = g THEN to ELSE pc[h]
        BY <1>0, <1>2
    <2>3. \A h \in Guests : pc[h] \in Marked => wting_domu_id' = h
        BY <1>0, <1>2 DEF OwnedAt
    <2>4. \A h \in Guests : OwnedAt(h)'
        BY <1>0, <1>2, <2>1, <2>2, <2>3 DEF OwnedAt
    <2>5. \A h, k \in Guests : pc'[h] \in Holding /\ pc'[k] \in Holding => h = k
        BY <2>1, <2>2
    <2> QED BY <2>1, <2>4, <2>5 DEF Owned
<1>3. CASE WriteLock(g)
    BY <1>2, <1>3 DEF WriteLock
<1>4. CASE IoctlLock(g)
    BY <1>2, <1>4 DEF IoctlLock
<1>5. CASE WriteTest(g)
    BY <1>0, <1>5, OwnedQuiet DEF WriteTest
<1>6. CASE Nap(g) \/ Awake(g)
    BY <1>0, <1>6 DEF Nap, Awake, OwnedAt
<1>7. CASE DoWrite(g)
    BY <1>0, <1>7, OwnedQuiet DEF DoWrite, Transfer
<1>8. CASE DoRead(g)
    <2>1. wting_domu_id = g
        BY <1>8 DEF DoRead
    <2> QED BY <1>0, <1>8, <2>1, OwnedQuiet DEF DoRead, Transfer
<1>9. CASE DoUnlock(g)
    <2>1. pc[g] \in Holding /\ pdma_lock = 0 /\ wting_domu_id' = wting_domu_id
        BY <1>0, <1>9 DEF DoUnlock, OwnedAt
    <2>2. pdma_lock' = 1
        BY <1>9, <2>1 DEF DoUnlock, Unlock
    <2>3. \A h \in Guests : pc'[h] = IF h = g THEN "put" ELSE pc[h]
        BY <1>0, <1>9 DEF DoUnlock
    <2>4. \A h \in Guests : pc'[h] \notin Holding
        BY <2>1, <2>3 DEF Owned
    <2>5. \A h \in Guests : OwnedAt(h)'
        BY <1>0, <2>1, <2>3, <2>4 DEF OwnedAt
    <2> QED BY <2>2, <2>4, <2>5 DEF Owned
<1>10. CASE ReadFinish(g)
    <2>1. CASE wting_domu_id' = wting_domu_id /\ Go(g, "rfin", "put")
        <3>1. UNCHANGED pdma_lock
            BY <1>10 DEF ReadFinish
        <3> HIDE DEF Holding, Marked
        <3>2. "put" \notin Holding /\ "put" \notin Marked
            BY DEF Holding, Marked
        <3> QED BY <1>0, <2>1, <3>1, <3>2, OwnedQuiet
    <2>2. CASE wting_domu_id' = NoGuest /\ Go(g, "rfin", "rwake")
        <3>1. \A h \in Guests \ {g} : pc[h] \notin Marked
            BY <1>0, <2>2 DEF OwnedAt
        <3>2. \A h \in Guests : pc'[h] = IF h = g THEN "rwake" ELSE pc[h]
            BY <1>0, <2>2
        <3>3. pdma_lock' = pdma_lock
            BY <1>10 DEF ReadFinish
        <3>4. \A h \in Guests : OwnedAt(h)'
            BY <1>0, <3>1, <3>2, <3>3 DEF OwnedAt
        <3>5. \A h, k \in Guests : pc'[h] \in Holding /\ pc'[k] \in Holding => h = k
            BY <3>2 DEF Owned
        <3> QED BY <1>0, <3>3, <3>4, <3>5 DEF Owned
    <2> QED BY <1>10, <2>1, <2>2 DEF ReadFinish
<1>11. CASE ReadWake(g)
    <2>1. pdma_lock' = pdma_lock /\ wting_domu_id' = wting_domu_id /\ Go(g, "rwake", "put")
        BY <1>11 DEF ReadWake
    <2> HIDE DEF Holding, Marked
    <2>2. "put" \notin Holding /\ "put" \notin Marked
        BY DEF Holding, Marked
    <2> QED BY <1>0, <2>1, <2>2, OwnedQuiet
<1> QED BY <1>1, <1>3, <1>4, <1>5, <1>6, <1>7, <1>8, <1>9, <1>10, <1>11 DEF DeviceSteps

(* No step gives the device to a second guest before there is contention.  *)
LEMMA OwnedStep ==
    ASSUME Inv, OwnedInv, [Next]_vars
    PROVE  OwnedInv'
<1> SUFFICES ASSUME Owned, ~contended' PROVE Owned'
    BY ContendedStays DEF OwnedInv
<1> USE DEF Holding, Marked, Writing
<1>0. pc \in [Guests -> Places] /\ TypeOK
    BY Types DEF Inv
<1>1. CASE UNCHANGED vars
    BY <1>1 DEF vars, Owned, OwnedAt
<1>2. CASE Next
    <2>1. PICK g \in Guests :
            Connecting(g) \/ FrontPost(g) \/ FrontRead(g) \/ Interrupt(g) \/ Worker(g)
        BY <1>2 DEF Next
    <2>2. CASE Connect(g) \/ FrontPost(g) \/ FrontRead(g) \/ Interrupt(g)
        BY <2>2 DEF Connect, FrontPost, FrontRead, Interrupt, Owned, OwnedAt
    <2>3. CASE StartThread(g)
        BY <1>0, <2>3, OwnedQuiet DEF StartThread
    <2>4. CASE DeviceSteps(g)
        BY <1>0, <2>4, OwnedDevice
    <2>5. CASE RingSteps(g)
        <3>1. UNCHANGED <<pdma_lock, wting_domu_id>>
            BY <2>5 DEF RingSteps, WaitRequests, WaitPool, Snapshot, Take, TakeLater, FinalCheck,
                        FreeReq, MakeResponse
        <3>2. CASE WaitRequests(g) \/ WaitPool(g) \/ Snapshot(g) \/ TakeLater(g) \/ FinalCheck(g) \/ FreeReq(g)
            <4>1. \E to \in {"pool", "snap", "scan", "idle", "lost"} : pc' = [pc EXCEPT ![g] = to]
                BY <3>2 DEF WaitRequests, WaitPool, Snapshot, TakeLater, FinalCheck, FreeReq
            <4> QED BY <1>0, <3>1, <4>1, OwnedQuiet
        <3>3. CASE Take(g)
            <4>1. Entry[script[g][req_cons[g] + 1]] \notin {"nap", "asleep"} \cup Holding \cup Marked
                BY <3>3, TakenIsOp DEF Inv, Take, Entry, Ops
            <4> QED BY <1>0, <3>1, <3>3, <4>1, OwnedQuiet DEF Take
        <3>4. CASE MakeResponse(g)
            <4>1. /\ AfterResponse[pc[g]] \notin {"nap", "asleep"}
                  /\ AfterResponse[pc[g]] \in Holding => pc[g] \in Holding
                  /\ AfterResponse[pc[g]] \in Marked => pc[g] \in Marked
                BY <3>4 DEF MakeResponse, AfterResponse
            <4> QED BY <1>0, <3>1, <3>4, <4>1, OwnedQuiet DEF MakeResponse
        <3> QED BY <2>5, <3>2, <3>3, <3>4 DEF RingSteps
    <2> QED BY <2>1, <2>2, <2>3, <2>4, <2>5, WorkerSteps DEF Connecting
<1> QED BY <1>1, <1>2

(* Until two guests contend for the device, the one inside do_write_resp   *)
(* (data.c:430-452) is alone there, under the mutex, with the mark.        *)
THEOREM WritesAlone == Spec => []ExclusiveUntilContended
<1>1. Init => OwnedInv
    <2> SUFFICES ASSUME Init PROVE Owned
        BY DEF OwnedInv
    <2>1. \A g \in Guests : pc[g] \in {"none", "idle"}
        BY DEF Init
    <2> QED BY <2>1 DEF Init, Owned, OwnedAt, Holding, Marked, Writing
<1>2. Inv /\ OwnedInv /\ [Next]_vars => OwnedInv'
    BY OwnedStep
<1>3. OwnedInv => ExclusiveUntilContended
    BY DEF OwnedInv, Owned, OwnedAt, Holding, Marked, ExclusiveUntilContended
<1> QED BY <1>1, <1>2, <1>3, RingsAndPool, PTL DEF Spec

-----------------------------------------------------------------------------
(* What a worker serves is the request it took last.                       *)
KindAt(g) ==
    /\ pc[g] \in WritePlaces => script[g][req_cons[g]] = "WRITE"
    /\ pc[g] = "read" => script[g][req_cons[g]] = "READ"

Kinds == \A g \in Guests : KindAt(g)

(* No step takes a worker onto the path of another operation.              *)
LEMMA KindStep ==
    ASSUME Inv, Kinds, [Next]_vars
    PROVE  Kinds'
<1>0. TypeOK /\ pc \in [Guests -> Places] /\ req_cons \in [Guests -> Nat]
    BY Types DEF Inv
<1>1. CASE UNCHANGED vars
    BY <1>1 DEF Kinds, KindAt, vars
<1>2. CASE Next
    <2>1. PICK g \in Guests :
            Connecting(g) \/ FrontPost(g) \/ FrontRead(g) \/ Interrupt(g) \/ Worker(g)
        BY <1>2 DEF Next
    <2>2. ASSUME NEW to, pc' = [pc EXCEPT ![g] = to], UNCHANGED <<script, req_cons>>,
                 to \in WritePlaces => pc[g] \in WritePlaces, to # "read"
          PROVE  Kinds'
        BY <1>0, <2>2 DEF Kinds, KindAt
    <2>3. CASE Connect(g) \/ FrontPost(g) \/ FrontRead(g) \/ Interrupt(g)
        BY <2>3 DEF Connect, FrontPost, Post, FrontRead, FrontInterrupt, Interrupt, Kinds, KindAt
    <2>4. CASE StartThread(g)
        BY <2>2, <2>4 DEF StartThread, WritePlaces
    <2>5. CASE DeviceSteps(g)
        BY <1>0, <2>2, <2>5, LeavesOwing, DeviceStepsServe
    <2>6. CASE WaitRequests(g) \/ WaitPool(g) \/ Snapshot(g) \/ TakeLater(g) \/ FinalCheck(g) \/ FreeReq(g)
        <3>1. \E to \in {"pool", "snap", "scan", "idle", "lost"} : pc' = [pc EXCEPT ![g] = to]
            BY <2>6 DEF WaitRequests, WaitPool, Snapshot, TakeLater, FinalCheck, FreeReq
        <3>2. UNCHANGED <<script, req_cons>>
            BY <2>6 DEF WaitRequests, WaitPool, Snapshot, TakeLater, FinalCheck, AskForEvent, FreeReq
        <3> QED BY <2>2, <3>1, <3>2 DEF WritePlaces
    <2>7. CASE Take(g)
        <3> DEFINE op == script[g][req_cons[g] + 1]
        <3>1. op \in Ops
            BY <2>7, TakenIsOp DEF Inv, Take
        <3>2. (Entry[op] \in WritePlaces => op = "WRITE") /\ (Entry[op] = "read" => op = "READ")
            BY <3>1 DEF Ops, Entry, WritePlaces
        <3>3. /\ pc'[g] = Entry[op] /\ req_cons'[g] = req_cons[g] + 1 /\ UNCHANGED script
              /\ \A h \in Guests \ {g} : UNCHANGED <<pc[h], req_cons[h]>>
            BY <1>0, <2>7 DEF Take, TakeRequest
        <3> QED BY <3>2, <3>3 DEF Kinds, KindAt
    <2>8. CASE MakeResponse(g)
        <3>1. AfterResponse[pc[g]] \notin WritePlaces \cup {"read"}
            BY <2>8 DEF MakeResponse, AfterResponse, WritePlaces
        <3> QED BY <2>2, <2>8, <3>1 DEF MakeResponse
    <2> QED BY <2>1, <2>3, <2>4, <2>5, <2>6, <2>7, <2>8, WorkerSteps DEF Connecting, RingSteps
<1> QED BY <1>1, <1>2

-----------------------------------------------------------------------------
(* The refinement: a post is a post, a response pushed is an answer, and a *)
(* request given up, a transfer that failed or MAP, is dropped.            *)
dealt == [g \in Guests |-> Dealt(g)]

(* What is dealt with grows when a duty to answer ends, and only then.     *)
LEMMA DealtMoves ==
    ASSUME NEW g \in Guests, Others(g)
    PROVE  /\ Dealt(g)' = Dealt(g) => dealt' = dealt
           /\ Dealt(g)' = Dealt(g) + 1 => dealt' = [dealt EXCEPT ![g] = @ + 1]
<1>1. \A h \in Guests \ {g} : Dealt(h)' = Dealt(h)
    BY DEF Dealt, Others
<1> QED BY <1>1 DEF dealt

(* Every step is one of the abstract server, or a stutter.                 *)
LEMMA ServerStep ==
    ASSUME Inv, Kinds, [Next]_vars
    PROVE  [Server!Next]_<<script, req_prod, dealt, rsp_id>>
<1>0. TypeOK /\ Counts /\ pc \in [Guests -> Places]
    BY Types DEF Inv
<1>1. CASE UNCHANGED vars
    BY <1>1 DEF vars, dealt, Dealt
<1>2. CASE Next
    <2>1. PICK g \in Guests :
            Connecting(g) \/ FrontPost(g) \/ FrontRead(g) \/ Interrupt(g) \/ Worker(g)
        BY <1>2 DEF Next
    <2>2. /\ CountsAt(g) /\ {req_cons[g], req_prod[g], rp[g]} \subseteq Nat
          /\ dealt[g] = Dealt(g)
        BY Types DEF Inv, Counts, CountsAt, dealt
    <2>3. ASSUME Others(g), Dealt(g)' = Dealt(g), UNCHANGED <<script, req_prod, rsp_id>>
          PROVE  UNCHANGED <<script, req_prod, dealt, rsp_id>>
        BY <2>3, DealtMoves
    <2>4. ASSUME Others(g), Dealt(g)' = Dealt(g) + 1, Dealt(g) = req_cons[g] - 1 \/ req_cons[g] < rp[g],
                 UNCHANGED <<script, req_prod, rsp_id>>,
                 script[g][Dealt(g) + 1] \in {"MAP", "READ", "WRITE"}
          PROVE  Server!Drop(g)
        <3>1. Dealt(g) < req_prod[g]
            BY <2>2, <2>4 DEF CountsAt, Dealt
        <3> QED BY <2>2, <2>4, <3>1, DealtMoves DEF Server!Drop, Server!Deal, dealt
    <2>5. CASE Connecting(g) \/ FrontRead(g) \/ Interrupt(g)
        <3>0. UNCHANGED <<script, req_prod, rsp_id, req_cons, rsp_prod, rp>>
            BY <2>5 DEF Connecting, Connect, StartThread, FrontRead, FrontInterrupt, Interrupt
        <3>1. Others(g)
            <4>1. CASE Connect(g) \/ StartThread(g) \/ Interrupt(g)
                BY <1>0, <3>0, <4>1 DEF Connect, StartThread, Interrupt, Others
            <4>2. CASE FrontRead(g)
                BY <3>0, <4>2, Types DEF Inv, FrontRead, FrontInterrupt, Others
            <4> QED BY <2>5, <4>1, <4>2 DEF Connecting
        <3>2. Dealt(g)' = Dealt(g)
            BY <1>0, <2>5, <3>0 DEF Connecting, Connect, StartThread, FrontRead, Interrupt, Dealt,
                                    Owing, Serving, Writing, AfterResponse
        <3> QED BY <2>3, <3>0, <3>1, <3>2
    <2>6. CASE FrontPost(g)
        <3>1. dealt' = dealt
            BY <2>6 DEF FrontPost, Post, dealt, Dealt
        <3>2. Server!Post(g)
            BY <2>6, <3>1 DEF FrontPost, Post, Server!Post, dealt
        <3> QED BY <3>2 DEF Server!Next
    <2>7. CASE DeviceSteps(g)
        <3>1. UNCHANGED <<ring_vars, loop_vars>>
            BY <1>0, <2>7, DeviceStepsServe
        <3>2. PICK to \in Serving :
                /\ pc' = [pc EXCEPT ![g] = to] /\ (to \in Owing => pc[g] \in Owing)
                /\ (pc[g] \in Owing /\ to \notin Owing => pc[g] \in {"write", "read"})
            BY <1>0, <2>7, LeavesOwing
        <3>3. Others(g) /\ pc'[g] = to
            BY <1>0, <3>1, <3>2 DEF Others
        <3>4. CASE to \in Owing <=> pc[g] \in Owing
            BY <2>3, <3>1, <3>3, <3>4 DEF Dealt
        <3>5. CASE pc[g] \in Owing /\ to \notin Owing
            <4>1. Dealt(g) = req_cons[g] - 1 /\ Dealt(g)' = Dealt(g) + 1
                BY <2>2, <3>1, <3>3, <3>5 DEF Dealt
            <4>2. script[g][req_cons[g]] \in {"READ", "WRITE"} /\ req_cons[g] = Dealt(g) + 1
                BY <2>2, <3>2, <3>5, <4>1 DEF Kinds, KindAt, WritePlaces
            <4>3. Server!Drop(g)
                BY <2>4, <3>1, <3>3, <4>1, <4>2
            <4> QED BY <4>3 DEF Server!Next
        <3> QED BY <3>2, <3>4, <3>5
    <2>8. CASE WaitRequests(g) \/ WaitPool(g) \/ Snapshot(g) \/ TakeLater(g) \/ FinalCheck(g) \/ FreeReq(g)
        <3>1. PICK to \in {"pool", "snap", "scan", "idle", "lost"} : pc' = [pc EXCEPT ![g] = to]
            BY <2>8 DEF WaitRequests, WaitPool, Snapshot, TakeLater, FinalCheck, FreeReq
        <3>2. UNCHANGED <<script, req_prod, rsp_id, rsp_cons, rsp_prod, req_cons>>
            BY <2>8 DEF WaitRequests, WaitPool, Snapshot, TakeLater, FinalCheck, AskForEvent, FreeReq
        <3>3. \A h \in Guests \ {g} : rp'[h] = rp[h]
            BY <2>8, Types DEF Inv, WaitRequests, WaitPool, Snapshot, TakeLater, FinalCheck, FreeReq
        <3>4. pc[g] \notin Owing /\ pc'[g] \notin Owing
            BY <1>0, <2>8, <3>1 DEF WaitRequests, WaitPool, Snapshot, TakeLater, FinalCheck, FreeReq,
                                    Owing, Serving, Writing, AfterResponse
        <3>5. Others(g) /\ Dealt(g)' = Dealt(g)
            BY <1>0, <3>1, <3>2, <3>3, <3>4 DEF Others, Dealt
        <3> QED BY <2>3, <3>2, <3>5
    <2>9. CASE Take(g)
        <3> DEFINE op == script[g][req_cons[g] + 1]
        <3>1. op \in Ops /\ req_cons[g] < rp[g]
            BY <2>9, TakenIsOp DEF Inv, Take
        <3>2. /\ pc'[g] = Entry[op] /\ req_cons'[g] = req_cons[g] + 1 /\ Others(g)
              /\ UNCHANGED <<script, req_prod, rsp_id>>
            BY <2>9, Types DEF Inv, Take, TakeRequest, Others
        <3>3. Dealt(g) = req_cons[g]
            BY <2>9 DEF Take, Dealt, Owing, Serving, Writing, AfterResponse
        <3>4. CASE op = "MAP"
            <4>1. pc'[g] \notin Owing
                BY <3>2, <3>4 DEF Entry, Owing, Ops
            <4>2. Dealt(g)' = Dealt(g) + 1
                BY <3>2, <3>3, <4>1 DEF Dealt
            <4>3. Server!Drop(g)
                BY <2>4, <3>1, <3>2, <3>3, <3>4, <4>2
            <4> QED BY <4>3 DEF Server!Next
        <3>5. CASE op # "MAP"
            <4>1. pc'[g] \in Owing
                BY <3>1, <3>2, <3>5, EntryServes
            <4>2. Dealt(g)' = Dealt(g)
                BY <2>2, <3>2, <3>3, <4>1 DEF Dealt
            <4> QED BY <2>3, <3>2, <4>2
        <3> QED BY <3>4, <3>5
    <2>10. CASE MakeResponse(g)
        <3>1. pc[g] \in Owing /\ AfterResponse[pc[g]] \notin Owing
            BY <2>10 DEF MakeResponse, Owing, Serving, Writing, AfterResponse
        <3>2. /\ pc'[g] = AfterResponse[pc[g]] /\ Others(g)
              /\ rsp_id' = [rsp_id EXCEPT ![g] = Append(@, req_cons[g])]
              /\ UNCHANGED <<script, req_prod, req_cons>>
            BY <2>10, Types DEF Inv, MakeResponse, PushResponse, Others
        <3>3. pc'[g] \notin Owing
            BY <3>1, <3>2
        <3>4. Dealt(g) = req_cons[g] - 1 /\ Dealt(g)' = Dealt(g) + 1 /\ req_cons[g] = Dealt(g) + 1
            BY <2>2, <3>1, <3>2, <3>3 DEF Dealt
        <3>5. Dealt(g) < req_prod[g]
            BY <2>2, <3>4 DEF CountsAt
        <3>6. Server!Answer(g)
            BY <2>2, <3>2, <3>4, <3>5, DealtMoves DEF Server!Answer, Server!Deal, dealt
        <3> QED BY <3>6 DEF Server!Next
    <2> QED BY <2>1, <2>5, <2>6, <2>7, <2>8, <2>9, <2>10, WorkerSteps DEF RingSteps
<1> QED BY <1>1, <1>2

(* The back end (data.c:382-509) implements the abstract server: requests  *)
(* are dealt with in order, each answered at most once and by its own id,  *)
(* and none but MAP, READ and WRITE is ever left without an answer.        *)
THEOREM ServesAsPromised == Spec => ImplementsServer
<1>1. Init => Kinds
    BY DEF Init, Kinds, KindAt, WritePlaces
<1>2. Inv /\ Kinds /\ [Next]_vars => Kinds'
    BY KindStep
<1>3. Init => Server!Init
    <2> SUFFICES ASSUME Init PROVE Server!Init
        OBVIOUS
    <2>1. \A g \in Guests : pc[g] \in {"none", "idle"} /\ req_cons[g] = 0
        BY DEF Init, RingInit
    <2>2. \A g \in Guests : Dealt(g) = 0
        BY <2>1 DEF Dealt, Owing, Serving, Writing, AfterResponse
    <2>3. [g \in Guests |-> Dealt(g)] = [g \in Guests |-> 0]
        BY <2>2
    <2> QED BY <2>3 DEF Init, RingInit, Server!Init
<1>4. Inv /\ Kinds /\ [Next]_vars => [Server!Next]_<<script, req_prod, [g \in Guests |-> Dealt(g)], rsp_id>>
    BY ServerStep DEF dealt
<1> QED BY <1>1, <1>2, <1>3, <1>4, RingsAndPool, PTL DEF Spec, ImplementsServer, Server!Spec
=============================================================================
