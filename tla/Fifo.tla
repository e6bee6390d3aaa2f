-------------------------------- MODULE Fifo --------------------------------
(***************************************************************************)
(* What a queue of Net_Dom0 promises to the threads that share it: pushes  *)
(* and pops take effect one at a time, in first-in first-out order, and    *)
(* every answer is true of the queue at one moment during the call.        *)
(***************************************************************************)
EXTENDS Integers, Sequences

CONSTANTS Threads, Elements, NULL

VARIABLES
    items,  \* the queued elements, oldest first
    ret     \* per thread, the answer to its last call: <<operation, value>>

Answer(t, op, v) == ret' = [ret EXCEPT ![t] = <<op, v>>]

Init == items = <<>> /\ ret = [t \in Threads |-> <<"none", NULL>>]

Push(t, e) ==
    /\ \A i \in 1 .. Len(items) : items[i] # e
    /\ items' = Append(items, e) /\ Answer(t, "push", e)

Pop(t) ==
    \/ items = <<>> /\ Answer(t, "pop", NULL) /\ UNCHANGED items
    \/ items # <<>> /\ Answer(t, "pop", Head(items)) /\ items' = Tail(items)

IsEmpty(t) == Answer(t, "empty", items = <<>>) /\ UNCHANGED items

Front(t) ==
    /\ Answer(t, "front", IF items = <<>> THEN NULL ELSE Head(items))
    /\ UNCHANGED items

Length(t) == Answer(t, "length", Len(items)) /\ UNCHANGED items

Next == \E t \in Threads :
    \/ \E e \in Elements : Push(t, e)
    \/ Pop(t) \/ IsEmpty(t) \/ Front(t) \/ Length(t)

Spec == Init /\ [][Next]_<<items, ret>>
=============================================================================
