--------------------------- MODULE MCShellSubscription ---------------------------
(* Two threads: one command creates both, later ones change and archive    *)
(* the first.                                                              *)
EXTENDS ShellSubscription

MCEvent(a, k) == [agg |-> a, kind |-> k]
MCAggregates == {"t1", "t2"}
MCBatches == {
    <<MCEvent("t1", "activate"), MCEvent("t2", "activate")>>,
    <<MCEvent("t1", "change")>>,
    <<MCEvent("t1", "remove")>>}
=============================================================================
