------------------------------ MODULE XenQueue ------------------------------
(***************************************************************************)
(* The intrusive queue of Net_Dom0, ire/Net_Dom0/xen_queue.c: a ring of    *)
(* next and prev links through a head node.  The file has no lock of its   *)
(* own; as in data.c, a call runs under the queue's spin lock, except      *)
(* xen_queue_is_empty, which wait_event evaluates at any moment.  A write  *)
(* to a link that such a look can see is a step of its own.                *)
(***************************************************************************)
EXTENDS Integers, Sequences, FiniteSets

CONSTANTS
    Threads, Elements,
    QHead,      \* the xen_queue_head
    NULL,
    MaxCount    \* bound on the count of xen_queue_length

ASSUME QueueAssumption ==
    /\ QHead \notin Elements /\ NULL \notin Elements \cup Threads
    /\ IsFiniteSet(Elements) /\ MaxCount \in Nat

Nodes == Elements \cup {QHead}

VARIABLES
    next, prev,     \* the links
    lock,           \* the thread that holds the queue's spin lock, or NULL
    step,           \* where that thread is in its call
    arg, last,      \* its locals queue_element (or first) and last
    count,          \* its local length
    ret             \* per thread: the operation that returned last, and its result

vars == <<next, prev, lock, step, arg, last, count, ret>>

(* The elements on the way along the links from the head back to it; one   *)
(* more than there are, if the way does not lead back.                     *)
Way(links) ==
    LET N == Cardinality(Elements)
        at[i \in 0 .. N + 1] == IF i = 0 THEN QHead ELSE links[at[i - 1]]
        n == Cardinality({i \in 1 .. N + 1 : \A j \in 1 .. i : at[j] # QHead})
    IN  [i \in 1 .. n |-> at[i]]

Contents == Way(next)

Queued(e) == \E i \in 1 .. Len(Contents) : Contents[i] = e

(* xen_queue_init; the links of an element are whatever kmalloc returned.  *)
Init ==
    /\ next \in [Nodes -> Nodes] /\ prev \in [Nodes -> Nodes]
    /\ next[QHead] = QHead /\ prev[QHead] = QHead
    /\ lock = NULL /\ step = "idle" /\ arg = NULL /\ last = NULL /\ count = 0
    /\ ret = [t \in Threads |-> <<"none", NULL>>]

Enter(t, e, to) == lock = NULL /\ lock' = t /\ step' = to /\ arg' = e
Go(t, from, to) == lock = t /\ step = from /\ step' = to /\ UNCHANGED <<lock, arg, last, count>>
Leave(t, from) ==
    /\ lock = t /\ step = from /\ lock' = NULL /\ step' = "idle"
    /\ arg' = NULL /\ last' = NULL /\ count' = 0
Answer(t, op, v) == ret' = [ret EXCEPT ![t] = <<op, v>>]
AtOnce(t, op, v) == lock = NULL /\ Answer(t, op, v) /\ UNCHANGED <<next, prev, lock, step, arg, last, count>>

-----------------------------------------------------------------------------
PushCall(t, e) ==
    /\ ~Queued(e) /\ Enter(t, e, "push") /\ last' = prev[QHead]
    /\ UNCHANGED <<next, prev, count, ret>>

BugPushPrepareNoNext(t) ==
    /\ Go(t, "push", "push_link")
    /\ prev' = [prev EXCEPT ![arg] = last]
    /\ UNCHANGED <<next, ret>>

(* The element's own links, which nobody else can reach yet ...            *)
PushPrepare(t) ==
    /\ Go(t, "push", "push_link")
    /\ next' = [next EXCEPT ![arg] = QHead] /\ prev' = [prev EXCEPT ![arg] = last]
    /\ UNCHANGED ret

(* ... then the link of its predecessor, then the head's.                  *)
PushLink(t) ==
    /\ Go(t, "push_link", "push_tail")
    /\ next' = [next EXCEPT ![last] = arg]
    /\ UNCHANGED <<prev, ret>>

PushTail(t) ==
    /\ Leave(t, "push_tail")
    /\ prev' = [prev EXCEPT ![QHead] = arg] /\ Answer(t, "push", arg)
    /\ UNCHANGED next

-----------------------------------------------------------------------------
PopCall(t) ==
    \/ next[QHead] = QHead /\ AtOnce(t, "pop", NULL)
    \/ /\ next[QHead] # QHead /\ Enter(t, next[QHead], "pop")
       /\ UNCHANGED <<next, prev, last, count, ret>>

PopUnlink(t) ==
    /\ Go(t, "pop", "pop_prev")
    /\ next' = [next EXCEPT ![QHead] = next[arg]]
    /\ UNCHANGED <<prev, ret>>

BugPopPrevForgotten(t) == Go(t, "pop_prev", "pop_self") /\ UNCHANGED <<next, prev, ret>>

PopPrev(t) ==
    /\ Go(t, "pop_prev", "pop_self")
    /\ prev' = [prev EXCEPT ![next[arg]] = QHead]
    /\ UNCHANGED <<next, ret>>

PopSelf(t) ==
    /\ Leave(t, "pop_self")
    /\ next' = [next EXCEPT ![arg] = arg] /\ prev' = [prev EXCEPT ![arg] = arg]
    /\ Answer(t, "pop", arg)

-----------------------------------------------------------------------------
(* One read of one link, at any moment of another thread's call.           *)
IsEmpty(t) ==
    /\ lock # t /\ Answer(t, "empty", next[QHead] = QHead)
    /\ UNCHANGED <<next, prev, lock, step, arg, last, count>>

Front(t) == AtOnce(t, "front", IF next[QHead] = QHead THEN NULL ELSE next[QHead])

LengthCall(t) ==
    \/ next[QHead] = QHead /\ AtOnce(t, "length", 0)
    \/ /\ next[QHead] # QHead /\ Enter(t, next[QHead], "length") /\ count' = 1
       /\ UNCHANGED <<next, prev, last, ret>>

(* The loop counts, but never moves element on.                            *)
LengthLoop(t) ==
    /\ \/ lock = t /\ step = "length" /\ next[arg] = QHead
          /\ Leave(t, "length") /\ Answer(t, "length", count)
       \/ lock = t /\ step = "length" /\ next[arg] # QHead
          /\ count < MaxCount /\ count' = count + 1
          /\ UNCHANGED <<lock, step, arg, last, ret>>
    /\ UNCHANGED <<next, prev>>

Next == \E t \in Threads :
    \/ \E e \in Elements : PushCall(t, e)
    \/ PushPrepare(t) \/ PushLink(t) \/ PushTail(t)
    \/ PopCall(t) \/ PopUnlink(t) \/ PopPrev(t) \/ PopSelf(t)
    \/ IsEmpty(t) \/ Front(t) \/ LengthCall(t) \/ LengthLoop(t)

Spec == Init /\ [][Next]_vars

-----------------------------------------------------------------------------
(* Between two calls the ring reads the same in both directions: every     *)
(* node on it is its successor's prev (xen_queue.c:17-37), so that the     *)
(* next push (18) and the next pop (32) touch the nodes they mean to.      *)
RingIsDouble ==
    lock = NULL => \A n \in Nodes : (n = QHead \/ Queued(n)) => prev[next[n]] = n

(* The queue implements a FIFO, although xen_queue_is_empty looks at it in *)
(* the middle of a push or a pop (xen_queue.c:40 against 17-36).  A push   *)
(* takes effect where it links its predecessor (21), a pop where it        *)
(* unlinks the first element (31).                                         *)
Effect(t) ==
    IF lock = t /\ step = "push_tail" THEN <<"push", arg>>
    ELSE IF lock = t /\ step \in {"pop_prev", "pop_self"} THEN <<"pop", arg>>
    ELSE ret[t]

Abstract == INSTANCE Fifo WITH items <- Contents, ret <- [t \in Threads |-> Effect(t)]
ImplementsFifo == Abstract!Spec

(* "queue length" (xen_queue.c:54): what is counted are queued elements.   *)
LengthCountsQueue == step = "length" => count <= Len(Contents)
=============================================================================
