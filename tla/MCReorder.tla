------------------------------ MODULE MCReorder ------------------------------
(* A small instance of Reorder for TLC.                                     *)
EXTENDS Reorder

(* Neighbours, blocks that share a slot of the duplicate filter, and jumps  *)
(* of exactly and of more than the ring.                                   *)
MCSeqsSparse == {0, 1, 2, 5, 6, 7, 12}

MCTimeouts == {2}
=============================================================================
