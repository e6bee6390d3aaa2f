--------------------------- MODULE MCXenBackDom0 ----------------------------
(* Two guests, each with a ring of two slots and a short legal sequence of *)
(* requests: both want the device; one reads it without the mark; both     *)
(* open it, one closes it while the other asks for its state; one maps     *)
(* pages and sends what nobody knows.                                      *)
EXTENDS XenBackDom0

CONSTANTS g1, g2

TwoGuests == {g1, g2}

Load(s1, s2, o, n) ==
    [script |-> [g \in TwoGuests |-> IF g = g1 THEN s1 ELSE s2], opened |-> o, reqs |-> n]

WriteLoad == Load(<<"WRITE", "READ", "WRITE">>, <<"WRITE", "READ">>, TwoGuests, 2)

ShortLoads == {WriteLoad,
    Load(<<"READ", "WRITE">>, <<"WRITE">>, TwoGuests, 1),
    Load(<<"OPEN", "CLOSE">>, <<"OPEN", "IOCTL">>, {}, 1),
    Load(<<"MAP", "UNKNOWN", "UNKNOWN">>, <<"UNKNOWN">>, {}, 1)}

ShortScripts == {w.script : w \in ShortLoads}
=============================================================================
