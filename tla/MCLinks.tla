------------------------------- MODULE MCLinks -------------------------------
(* Two interfaces; one attachment reaches the server, the other does not.  *)
EXTENDS Links

a1 == [addr |-> "a", dev |-> 1]
b1 == [addr |-> "b", dev |-> 1]

MCIfs         == {"eth", "usb"}
MCAttachments == {a1, b1}
MCReaching    == {a1}
MCStarts      == {[eth |-> a1, usb |-> None]}
MCCallers     == {"c1"}
MCExplicit    == <<"eth">>
MCAutos       == {FALSE, TRUE}
MCScenes      == {"handshakes", "lookups", "crowded", "stop"}
MCWanIds      == {0}
=============================================================================
