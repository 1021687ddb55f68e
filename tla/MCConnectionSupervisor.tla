------------------------- MODULE MCConnectionSupervisor -------------------------
(* The bounds of the run are in the configuration; every input is possible *)
(* at every moment.                                                        *)
EXTENDS ConnectionSupervisor
=============================================================================
