------------------------------ MODULE MCEpochs ------------------------------
(* Epochs has numeric bounds only; the configurations give their values.   *)
EXTENDS Epochs
=============================================================================
