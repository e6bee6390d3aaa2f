----------------------------- MODULE MCPdmaProbe ----------------------------
(* Two programs, one failed acquisition, one error, and one device         *)
(* number, so that a second probe finds none.                              *)
EXTENDS PdmaProbe

CONSTANTS u1, u2

TwoUsers == {u1, u2}
=============================================================================
