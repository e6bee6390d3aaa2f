------------------------------- MODULE XenRing ------------------------------
(***************************************************************************)
(* The ring that each guest shares with its back end, its two event        *)
(* channels and the front end that uses it: what both back ends (ire/Dom0  *)
(* and ire/Net_Dom0) rely on.  Ring, channels and front end are external:  *)
(* they follow the macros of xen/interface/io/ring.h, whose barriers make  *)
(* a push with its check, and a final check, one step each.  Indexes count *)
(* from a moment at which the ring was empty and do not wrap.              *)
(***************************************************************************)
EXTENDS Integers, Sequences, FiniteSets

CONSTANTS
    Guests,
    RingSize,   \* slots of a ring
    Scripts     \* what the front ends may request: each guest's sequence of operations

Ops == {"OPEN", "WRITE", "READ", "IOCTL", "CLOSE", "MAP", "UNKNOWN"}

ASSUME RingAssumption ==
    RingSize \in Nat \ {0} /\ IsFiniteSet(Guests) /\ Scripts \subseteq [Guests -> Seq(Ops)]

VARIABLES
    script,                             \* what each guest's front end will request
    req_prod, req_event, req_cons,      \* requests: pushed, next to notify, taken
    rsp_prod, rsp_event, rsp_cons,      \* responses: pushed, next to notify, read
    rsp_id,                             \* the ids of the responses pushed so far
    evt, fevt                           \* event pending for the back end, the front end

front_vars == <<script, req_prod, rsp_event, rsp_cons>>
rsp_vars   == <<rsp_prod, rsp_id, fevt>>
req_vars   == <<req_event, req_cons>>
ring_vars  == <<front_vars, rsp_vars, req_vars, evt>>

RingTypeOK ==
    /\ script \in Scripts
    /\ \A c \in {req_prod, req_event, req_cons, rsp_prod, rsp_event, rsp_cons} : c \in [Guests -> Nat]
    /\ rsp_id \in [Guests -> Seq(Nat)]
    /\ evt \in [Guests -> BOOLEAN] /\ fevt \in [Guests -> BOOLEAN]

RingInit ==
    /\ script \in Scripts
    /\ req_prod = [g \in Guests |-> 0] /\ req_cons = [g \in Guests |-> 0]
    /\ rsp_prod = [g \in Guests |-> 0] /\ rsp_cons = [g \in Guests |-> 0]
    /\ req_event = [g \in Guests |-> 1] /\ rsp_event = [g \in Guests |-> 1]
    /\ rsp_id = [g \in Guests |-> <<>>]
    /\ evt = [g \in Guests |-> FALSE] /\ fevt = [g \in Guests |-> FALSE]

(* The front end: a request into a free slot, with the event the back end  *)
(* asked for ...                                                           *)
Post(g) ==
    /\ req_prod[g] < Len(script[g]) /\ req_prod[g] - rsp_cons[g] < RingSize
    /\ req_prod' = [req_prod EXCEPT ![g] = @ + 1]
    /\ evt' = [evt EXCEPT ![g] = @ \/ req_event[g] = req_prod[g] + 1]
    /\ UNCHANGED <<script, rsp_event, rsp_cons, rsp_vars, req_vars>>

(* ... and its event handler, which reads every response there is and asks *)
(* to hear of the next.                                                    *)
FrontInterrupt(g) ==
    /\ fevt[g] /\ fevt' = [fevt EXCEPT ![g] = FALSE]
    /\ rsp_cons' = [rsp_cons EXCEPT ![g] = rsp_prod[g]]
    /\ rsp_event' = [rsp_event EXCEPT ![g] = rsp_prod[g] + 1]
    /\ UNCHANGED <<script, req_prod, rsp_prod, rsp_id, req_vars, evt>>

(* The back end's side of the macros.                                      *)
Unconsumed(g) == req_prod[g] # req_cons[g]
ConsOverflow(g) == req_cons[g] - rsp_prod[g] >= RingSize

TakeRequest(g) == req_cons' = [req_cons EXCEPT ![g] = @ + 1] /\ UNCHANGED req_event

(* RING_FINAL_CHECK_FOR_REQUESTS when it finds none.                       *)
AskForEvent(g) == req_event' = [req_event EXCEPT ![g] = req_cons[g] + 1] /\ UNCHANGED req_cons

(* make_response: one slot, pushed, with the event the front end asked for.*)
PushResponse(g, id) ==
    /\ rsp_prod' = [rsp_prod EXCEPT ![g] = @ + 1]
    /\ rsp_id' = [rsp_id EXCEPT ![g] = Append(@, id)]
    /\ fevt' = [fevt EXCEPT ![g] = @ \/ rsp_event[g] = rsp_prod[g] + 1]
=============================================================================
