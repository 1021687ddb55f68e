-------------------------- MODULE MCThreadIncarnations --------------------------
(* Two clients.                                                            *)
EXTENDS ThreadIncarnations, TLC

CONSTANTS c1, c2

MCClients == {c1, c2}
=============================================================================
