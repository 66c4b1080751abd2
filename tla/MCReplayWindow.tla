--------------------------- MODULE MCReplayWindow ---------------------------
(* Small instances of ReplayWindow for TLC.                                *)
EXTENDS ReplayWindow

MCCounters == 0 .. 10
=============================================================================
