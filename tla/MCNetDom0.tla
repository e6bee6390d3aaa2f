------------------------------ MODULE MCNetDom0 -----------------------------
(* Two guests with a ring of two slots each, and up to three returns of   *)
(* kernel_recvmsg: both write; one maps and writes next to another host;   *)
(* another host is alone; one mixes WRITEs with requests that are answered *)
(* at once; two share one pending request; threads of others are stopped   *)
(* meanwhile.                                                              *)
EXTENDS NetDom0

CONSTANTS g1, g2

TwoGuests == {g1, g2}

Load(s1, s2, n, d, f) ==
    [script |-> [g \in TwoGuests |-> IF g = g1 THEN s1 ELSE s2], reqs |-> n, datagrams |-> d,
     foreign_stop |-> f]

NetLoads == {
    Load(<<"WRITE", "WRITE", "WRITE">>, <<"WRITE">>, 2, 0, FALSE),
    Load(<<"MAP", "WRITE">>, <<>>, 2, 2, FALSE),
    Load(<<>>, <<>>, 1, 3, FALSE),
    Load(<<"WRITE", "UNKNOWN", "WRITE">>, <<>>, 2, 0, FALSE),
    Load(<<"WRITE">>, <<"UNKNOWN", "IOCTL">>, 1, 0, FALSE),
    Load(<<"WRITE", "UNKNOWN">>, <<>>, 2, 0, TRUE)}

NetScripts == {w.script : w \in NetLoads}
=============================================================================
