--------------------------- MODULE MCEventServers ---------------------------
(* EventServers for TLC.                                                   *)
EXTENDS EventServers
=============================================================================
