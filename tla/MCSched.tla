------------------------------- MODULE MCSched ------------------------------
(* Two paths, one of which is slower by more than the allowed spread;      *)
(* restrictions between the packets' lengths; two weights.                 *)
EXTENDS Sched

MCPaths   == 0 .. 1
MCWeights == {1, 2}
MCLens    == {2, 3, 4}
MCInners  == {0, 1, 2, 3}
MCRTTs    == {0, 1, 3}
=============================================================================
