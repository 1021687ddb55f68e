------------------------- MODULE MCOrchestrationEngine -------------------------
(* A small instance of OrchestrationEngine: threads that are created and   *)
(* deleted, a two-event command, a command id used for two aggregates, two *)
(* commands of which only the first to be decided can be accepted, and a   *)
(* command refused for an activity that a restarted read model has lost.   *)
EXTENDS OrchestrationEngine, TLC

MCRequests == {"create", "createAgain", "createOther", "delete", "ask", "settle"}
MCCommandIds == {"c1", "c2", "c3", "c4", "c5"}
MCAggregates == {"t1", "t2"}
MCBodies == {"created", "stopped", "deleted", "asked", "settled"}
MCDecisions ==
    {<<>>, <<"created">>, <<"stopped", "deleted">>, <<"asked">>, <<"settled">>}

(* "createOther" reuses the id of "create" for another thread.             *)
MCIdOf ==
    "create" :> "c1" @@ "createAgain" :> "c2" @@ "createOther" :> "c1"
        @@ "delete" :> "c3" @@ "ask" :> "c4" @@ "settle" :> "c5"
MCAggregateOf == [r \in MCRequests |-> IF r = "createOther" THEN "t2" ELSE "t1"]

(* requireThreadAbsent and requireThread: a thread that was deleted may be *)
(* created again.  The rows tell which threads there are.                  *)
MCExists(model, a) ==
    LET events == model.rows \o model.folded IN
    \E i \in 1..Len(events) :
        /\ AggregateOf[events[i].req] = a
        /\ events[i].body = "created"
        /\ \A j \in i..Len(events) :
              AggregateOf[events[j].req] = a => events[j].body # "deleted"

(* hasOpenBlockingRequest: activities, which the rows do not bring back.   *)
MCOpenRequest(model) == \E i \in 1..Len(model.folded) : model.folded[i].body = "asked"

MCDecide(r, model) ==
    CASE r \in {"create", "createAgain", "createOther"} ->
            IF MCExists(model, AggregateOf[r]) THEN <<>> ELSE <<"created">>
      [] r \in {"delete", "ask", "settle"} ->
            IF ~MCExists(model, AggregateOf[r]) THEN <<>>
            ELSE IF r = "delete" THEN <<"stopped", "deleted">>
            ELSE IF r = "ask" THEN <<"asked">>
            ELSE IF MCOpenRequest(model) THEN <<>> ELSE <<"settled">>
=============================================================================
