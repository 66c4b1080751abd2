------------------------------ MODULE MCPmtud ------------------------------
(* Small instances of Pmtud for TLC.  An interface below Floor, between    *)
(* Floor and Base, and above Base; a network below Floor and on both sides *)
(* of Base.                                                                *)
EXTENDS Pmtud

MCIfMTUs == {1, 3, 8}
MCLimits == {1, 3, 6, 8}
=============================================================================
