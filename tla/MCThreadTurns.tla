----------------------------- MODULE MCThreadTurns -----------------------------
(* Two turns of a thread over a restart of the server.                         *)
EXTENDS ThreadTurns, TLC

CONSTANTS r1

MCTurns == 1 .. MaxStarts
MCRequests == {r1}

(* A behaviour has calls and requests of the user, or messages and checkpoints *)
(* of the agent; what both together do to a turn goes beyond this instance.    *)
OneSide ==
    \/ asked.calls = 0 /\ \A r \in Requests : agent.asks[r] = "none"
    \/ /\ spoken = 0 /\ captures = <<>> /\ capture = Idle
       /\ \A t \in Turns : rows.checkpoints[t] = "none"
=============================================================================
