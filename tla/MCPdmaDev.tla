------------------------------ MODULE MCPdmaDev ------------------------------
(* Small instances of PdmaDev: thread identities as model values.          *)
EXTENDS PdmaDev, TLC

CONSTANTS r1, r2, w1, w2, c1, c2

OneReader == {r1}
TwoReaders == {r1, r2}
OneWriter == {w1}
TwoWriters == {w1, w2}
OneCtl == {c1}
TwoCtls == {c1, c2}
Nobody == {}

(* Threads of one kind are interchangeable; used with safety runs only.    *)
ThreadSymmetry == Permutations(Readers) \cup Permutations(Writers) \cup Permutations(Ctls)
=============================================================================
