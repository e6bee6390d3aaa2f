----------------------------- MODULE MCXenQueue -----------------------------
(* Two threads and three elements as model values.                         *)
EXTENDS XenQueue, TLC

CONSTANTS t1, t2, e1, e2, e3

TwoThreads == {t1, t2}
ThreeElements == {e1, e2, e3}
QueueSymmetry == Permutations(TwoThreads) \cup Permutations(ThreeElements)
=============================================================================
