------------------------------ MODULE MCProbes -------------------------------
(***************************************************************************)
(* Instance of Probes.  The code closes a window at 20 packets and calls a *)
(* loss of 10 percent bad; both are scaled alike (3 packets, 8 of 12), so  *)
(* that a packet under way weighs as much against the threshold as in the  *)
(* code.                                                                   *)
(***************************************************************************)
EXTENDS Probes
=============================================================================
