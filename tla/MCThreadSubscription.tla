-------------------------- MODULE MCThreadSubscription --------------------------
(* Commands that write a detail event, alone or behind an unrelated one.   *)
EXTENDS ThreadSubscription

MCBatches == {<<"detail">>, <<"other", "detail">>}
=============================================================================
