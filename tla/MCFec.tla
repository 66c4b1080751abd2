-------------------------------- MODULE MCFec -------------------------------
(* Fec has numeric constants only; the configurations give their values.   *)
EXTENDS Fec
=============================================================================
