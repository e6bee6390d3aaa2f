----------------------------- MODULE CharServer -----------------------------
(***************************************************************************)
(* What a back end promises to each guest: its requests are dealt with one *)
(* at a time in the order it posted them, every response belongs to the    *)
(* request it names and no request has two, and only a kind of request     *)
(* that may go unanswered is dropped.                                      *)
(***************************************************************************)
EXTENDS Integers, Sequences

CONSTANTS Guests, Silent    \* Silent: the kinds that may have no response

VARIABLES
    kinds,      \* per guest, the kinds of its requests, in the order it posts them
    posted,     \* per guest, how many it has posted
    dealt,      \* per guest, how many were dealt with
    answers     \* per guest, the requests that were answered, oldest first

Init ==
    /\ posted = [g \in Guests |-> 0] /\ dealt = [g \in Guests |-> 0]
    /\ answers = [g \in Guests |-> <<>>]

Post(g) ==
    /\ posted[g] < Len(kinds[g]) /\ posted' = [posted EXCEPT ![g] = @ + 1]
    /\ UNCHANGED <<kinds, dealt, answers>>

Deal(g) ==
    /\ dealt[g] < posted[g] /\ dealt' = [dealt EXCEPT ![g] = @ + 1]
    /\ UNCHANGED <<kinds, posted>>

Answer(g) == Deal(g) /\ answers' = [answers EXCEPT ![g] = Append(@, dealt[g] + 1)]

Drop(g) == Deal(g) /\ kinds[g][dealt[g] + 1] \in Silent /\ UNCHANGED answers

Next == \E g \in Guests : Post(g) \/ Answer(g) \/ Drop(g)

Spec == Init /\ [][Next]_<<kinds, posted, dealt, answers>>
=============================================================================
