---------------------------- MODULE MCSharedDatabase ----------------------------
(* Two server commands and two offline commands over two projects: "add"   *)
(* and "cliAdd" add the same workspace root.                               *)
EXTENDS SharedDatabase, TLC

MCRequests == {"add", "other", "cliAdd", "cliOther"}
MCCliRequests == {"cliAdd", "cliOther"}
MCCommandIds == {"c1", "c2", "c3", "c4"}
MCAggregates == {"p1", "p2"}
MCBodies == {"created", "updated"}
MCDecisions == {<<>>, <<"created">>, <<"created", "updated">>}
MCIdOf == "add" :> "c1" @@ "other" :> "c2" @@ "cliAdd" :> "c3" @@ "cliOther" :> "c4"
MCAggregateOf == "add" :> "p1" @@ "other" :> "p2" @@ "cliAdd" :> "p1" @@ "cliOther" :> "p2"

(* requireProjectAbsent, which the rows tell; "other" writes two events.   *)
MCDecide(r, model) ==
    LET events == model.rows \o model.folded IN
    IF \E i \in 1..Len(events) : AggregateOf[events[i].req] = AggregateOf[r] THEN <<>>
    ELSE IF r = "other" THEN <<"created", "updated">> ELSE <<"created">>
=============================================================================
