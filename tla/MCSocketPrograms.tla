-------------------------- MODULE MCSocketPrograms --------------------------
(* SocketPrograms has no constants: every cast is an initial state.        *)
EXTENDS SocketPrograms
=============================================================================
