-------------------------- MODULE MCCondVarQueue --------------------------
(* CondVarQueue for TLC, with the five consumers of the source.          *)
EXTENDS CondVarQueue

CONSTANTS c1, c2, c3, c4, c5

MCConsumers == {c1, c2, c3, c4, c5}
==============================================================================
