------------------------- MODULE MCKeyedCoalescingWorker -------------------------
(* Two keys, one that is busy and one that waits for it.                   *)
EXTENDS KeyedCoalescingWorker

MCKeys == {"busy", "other"}
=============================================================================
