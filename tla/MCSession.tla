------------------------------ MODULE MCSession ------------------------------
(* Two groups of two packets, three modes, two paths.                      *)
EXTENDS Session

MCSeqs     == 1 .. MaxSeq
MCTimeouts == {1}
MCModes    == {"bonding", "redundant", "fec"}
=============================================================================
