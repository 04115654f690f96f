-------------------------- MODULE MCThreadPrograms --------------------------
(* Every program of ThreadPrograms is an initial state of one run.         *)
EXTENDS ThreadPrograms
=============================================================================
