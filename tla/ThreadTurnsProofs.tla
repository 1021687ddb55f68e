--------------------------- MODULE ThreadTurnsProofs ---------------------------
(* First the thread, whatever commands the engine is given and in whatever    *)
(* order: the decider's read model and the rows agree, and a settled thread   *)
(* is at rest.  Then its turns: clients, reactor, sends, agent, ingestion and *)
(* checkpoints change the thread by its commands only, so a turn's life       *)
(* implements ThreadAggregate, and what is proved of the commands in any      *)
(* order holds of it.  Then how turns begin, and that what a client is shown   *)
(* of the work is what is done: the feed and the ingestion still owe what the *)
(* session lacks.  Last, that both sides have the same latest turn.          *)
EXTENDS ThreadTurns, SequenceTheorems, TLAPS

(* A request is in the rows only after a provider has spoken of it.         *)
UnaskedIsAbsent ==
    \A r \in Requests : r \notin history.asked => rows.approvals[r] = "absent"

ThreadInv ==
    /\ TypeOK /\ ColumnsAgree /\ SettledIsAtRest /\ FlagsAgree /\ UnaskedIsAbsent

-----------------------------------------------------------------------------
(* The operators keep the kinds of their records.                           *)

(* The settled, snoozed and archived stamps keep the kind of both records.  *)
LEMMA StampTypes ==
  ASSUME NEW m \in Model, NEW r \in Rows, NEW held \in BOOLEAN, NEW reason
  PROVE  /\ Settled(m) \in Model /\ Settled(r) \in Rows
         /\ Unsettled(m, reason) \in Model /\ Unsettled(r, reason) \in Rows
         /\ Woken(m) \in Model /\ Woken(r) \in Rows
         /\ Snoozed(m, held) \in Model /\ Snoozed(r, held) \in Rows
         /\ Archived(m, held) \in Model /\ Archived(r, held) \in Rows
  BY ZenonT(60) DEF Settled, Unsettled, Woken, Snoozed, Archived, Model, Rows

(* thread.session-set keeps the kind of the read model.                     *)
LEMMA SessionSetModelType ==
  ASSUME NEW m \in Model, NEW status \in SessionStatuses,
         NEW turn \in Turns \cup {NoTurn}, NEW newer \in BOOLEAN
  PROVE  SessionSetInModel(m, status, turn, newer) \in Model
<1> DEFINE begins == status = "running" /\ turn # NoTurn
           ends == ~begins /\ status \notin Live
                   /\ m.latest # NoTurn /\ m.latestState = "running"
<1>1. (m.queued /\ (begins \/ ends => newer)) \in BOOLEAN
  OBVIOUS
<1>2. SettledTurnState(status) \in TurnStates
  BY DEF SettledTurnState, TurnStates
<1>3. ASSUME NEW queued \in BOOLEAN, NEW begun \in BOOLEAN, NEW ended \in BOOLEAN
      PROVE  [m EXCEPT !.status = status, !.turn = turn,
                       !.latest = IF begun THEN turn ELSE @,
                       !.latestState = IF begun THEN "running"
                                       ELSE IF ended THEN SettledTurnState(status) ELSE @,
                       !.queued = queued] \in Model
  BY <1>2 DEF Model, TurnStates
<1>4. begins \in BOOLEAN /\ ends \in BOOLEAN
  OBVIOUS
<1> QED BY <1>1, <1>3, <1>4, Zenon DEF SessionSetInModel

(* thread.session-set keeps the kind of the rows.                           *)
LEMMA SessionSetRowsType ==
  ASSUME NEW r \in Rows, NEW status \in SessionStatuses,
         NEW turn \in Turns \cup {NoTurn}
  PROVE  SessionSetInRows(r, status, turn) \in Rows
<1> DEFINE begins == status = "running" /\ turn # NoTurn
           After == [t \in Turns |-> TurnAfter(r.turns[t], t, status, begins, turn)]
           pending == r.pendingStart /\ ~begins
                      /\ status \notin {"error", "stopped", "interrupted"}
<1>1. After \in [Turns -> TurnStates \cup {"absent"}]
  BY DEF Rows, TurnAfter, SettledTurnState, TurnStates
<1>2. pending \in BOOLEAN
  OBVIOUS
<1>3. ASSUME NEW after \in [Turns -> TurnStates \cup {"absent"}], NEW starting \in BOOLEAN
      PROVE  [r EXCEPT !.status = status, !.turn = turn,
                       !.latest = IF turn = NoTurn THEN @ ELSE turn,
                       !.turns = after, !.pendingStart = starting] \in Rows
  BY DEF Rows
<1> QED BY <1>1, <1>2, <1>3, Zenon DEF SessionSetInRows

(* A checkpoint keeps the kind of the read model, its columns and requests.  *)
LEMMA DiffInModel ==
  ASSUME NEW m \in Model, NEW turn \in Turns, NEW newer \in BOOLEAN,
         NEW status \in CheckpointStatuses
  PROVE  LET x == TurnDiffCompletedInModel(m, turn, status, newer)
         IN  /\ x \in Model /\ x.open = m.open
             /\ \A c \in Columns : x[c] = m[c]
<1>1. CASE TurnDiffCompletedInModel(m, turn, status, newer) = m
  <2>1. \A c \in Columns : TurnDiffCompletedInModel(m, turn, status, newer)[c] = m[c]
    BY <1>1
  <2> QED BY <1>1, <2>1
<1>2. CASE /\ status # "missing" \/ m.checkpoints[turn] \notin {"ready", "error"}
           /\ StillRunning(m, turn)
  <2>1. TurnDiffCompletedInModel(m, turn, status, newer)
          = [m EXCEPT !.checkpoints[turn] = status]
    BY <1>2 DEF TurnDiffCompletedInModel
  <2> QED BY <2>1 DEF Model, Columns
<1>3. CASE /\ status # "missing" \/ m.checkpoints[turn] \notin {"ready", "error"}
           /\ ~StillRunning(m, turn)
  <2> DEFINE state == CASE status = "error" -> "error"
                        [] status = "missing" -> "interrupted"
                        [] OTHER -> "completed"
  <2>1. TurnDiffCompletedInModel(m, turn, status, newer)
          = [m EXCEPT !.checkpoints[turn] = status, !.latest = turn,
                      !.latestState = state, !.queued = newer]
    BY <1>3 DEF TurnDiffCompletedInModel
  <2>2. state \in TurnStates
    BY DEF TurnStates
  <2> HIDE DEF state
  <2>3. TurnDiffCompletedInModel(m, turn, status, newer) \in Model
    <3> DEFINE kept == [m.checkpoints EXCEPT ![turn] = status]
    <3>1. kept \in [Turns -> CheckpointStatuses]
      BY DEF Model
    <3>2. ASSUME NEW final \in TurnStates, NEW c \in [Turns -> CheckpointStatuses]
          PROVE  [m EXCEPT !.checkpoints = c, !.latest = turn,
                           !.latestState = final, !.queued = newer] \in Model
      BY DEF Model
    <3>3. TurnDiffCompletedInModel(m, turn, status, newer)
            = [m EXCEPT !.checkpoints = kept, !.latest = turn,
                        !.latestState = state, !.queued = newer]
      BY <2>1
    <3> HIDE DEF kept
    <3> QED BY Zenon, <2>2, <3>1, <3>2, <3>3
  <2>4. /\ TurnDiffCompletedInModel(m, turn, status, newer).open = m.open
        /\ \A c \in Columns : TurnDiffCompletedInModel(m, turn, status, newer)[c] = m[c]
    BY <2>1 DEF Model, Columns
  <2> QED BY <2>3, <2>4
<1>4. CASE status = "missing" /\ m.checkpoints[turn] \in {"ready", "error"}
  BY <1>1, <1>4, Zenon DEF TurnDiffCompletedInModel
<1> QED BY <1>2, <1>3, <1>4

(* It keeps the kind of the rows, their columns and requests.               *)
LEMMA DiffInRows ==
  ASSUME NEW r \in Rows, NEW turn \in Turns, NEW status \in CheckpointStatuses
  PROVE  LET y == TurnDiffCompletedInRows(r, turn, status)
         IN  /\ y \in Rows /\ y.approvals = r.approvals
             /\ \A c \in Columns : y[c] = r[c]
<1> DEFINE y == TurnDiffCompletedInRows(r, turn, status)
<1>1. PICK state \in TurnStates \cup {"absent"} :
         y = [r EXCEPT !.checkpoints[turn] = status, !.latest = turn, !.turns[turn] = state]
  BY DEF TurnDiffCompletedInRows, Rows, TurnStates
<1> HIDE DEF y
<1>2. y \in Rows /\ y.approvals = r.approvals /\ \A c \in Columns : y[c] = r[c]
  BY <1>1 DEF Rows, Columns
<1> QED BY <1>2 DEF y

(* The rows of the requests keep their kind.                                *)
LEMMA ApprovalTypes ==
  ASSUME NEW r \in Rows, NEW request \in Requests
  PROVE  /\ ResponseRequestedInRows(r, request) \in Rows
         /\ RequestedInRows(r, request) \in Rows
         /\ ResolvedInRows(r, request) \in Rows
         /\ StaleFailureInRows(r, request) \in Rows
  BY DEF ResponseRequestedInRows, RequestedInRows, ResolvedInRows, StaleFailureInRows, Rows

-----------------------------------------------------------------------------
(* What the events leave alone.                                             *)

(* The stamps touch their own columns only.                                 *)
LEMMA StampsKeep ==
  ASSUME NEW m \in Model, NEW r \in Rows, NEW held \in BOOLEAN, NEW reason
  PROVE  /\ Settled(m).override = "settled" /\ Settled(r).override = "settled"
         /\ Unsettled(m, reason).override # "settled"
         /\ Unsettled(m, reason).override = Unsettled(r, reason).override
         /\ Woken(m).override = "none" /\ Woken(r).override = "none"
         /\ Snoozed(m, held).snoozed = held /\ Snoozed(r, held).snoozed = held
         /\ Archived(m, held).archived = held /\ Archived(r, held).archived = held
         /\ \A x \in {Settled(m), Unsettled(m, reason), Woken(m)} :
               /\ x.snoozed = m.snoozed /\ x.archived = m.archived
         /\ \A x \in {Snoozed(m, held), Archived(m, held)} : x.override = m.override
         /\ Snoozed(m, held).archived = m.archived /\ Archived(m, held).snoozed = m.snoozed
         /\ \A x \in {Settled(r), Unsettled(r, reason), Woken(r)} :
               /\ x.snoozed = r.snoozed /\ x.archived = r.archived
         /\ \A x \in {Snoozed(r, held), Archived(r, held)} : x.override = r.override
         /\ Snoozed(r, held).archived = r.archived /\ Archived(r, held).snoozed = r.snoozed
         /\ \A x \in {Settled(m), Unsettled(m, reason), Woken(m), Snoozed(m, held),
                      Archived(m, held)} :
               x.status = m.status /\ x.turn = m.turn /\ x.open = m.open
         /\ \A x \in {Settled(r), Unsettled(r, reason), Woken(r), Snoozed(r, held),
                      Archived(r, held)} :
               /\ x.status = r.status /\ x.turn = r.turn
               /\ x.turns = r.turns /\ x.approvals = r.approvals
  BY DEF Settled, Unsettled, Woken, Snoozed, Archived, Model, Rows

(* thread.session-set sets the session, and nothing a request needs.        *)
LEMMA SessionSetKeeps ==
  ASSUME NEW m \in Model, NEW r \in Rows, NEW status \in SessionStatuses,
         NEW turn \in Turns \cup {NoTurn}, NEW newer \in BOOLEAN
  PROVE  LET x == SessionSetInModel(m, status, turn, newer)
             y == SessionSetInRows(r, status, turn)
         IN  /\ x.status = status /\ x.turn = turn
             /\ y.status = status /\ y.turn = turn
             /\ x.override = m.override /\ x.snoozed = m.snoozed
             /\ x.archived = m.archived /\ x.open = m.open
             /\ y.override = r.override /\ y.snoozed = r.snoozed
             /\ y.archived = r.archived /\ y.approvals = r.approvals
<1>1. /\ SessionSetInModel(m, status, turn, newer).status = status
      /\ SessionSetInModel(m, status, turn, newer).turn = turn
      /\ SessionSetInModel(m, status, turn, newer).override = m.override
      /\ SessionSetInModel(m, status, turn, newer).snoozed = m.snoozed
      /\ SessionSetInModel(m, status, turn, newer).archived = m.archived
      /\ SessionSetInModel(m, status, turn, newer).open = m.open
  BY DEF SessionSetInModel, Model
<1>2. /\ SessionSetInRows(r, status, turn).status = status
      /\ SessionSetInRows(r, status, turn).turn = turn
      /\ SessionSetInRows(r, status, turn).override = r.override
      /\ SessionSetInRows(r, status, turn).snoozed = r.snoozed
      /\ SessionSetInRows(r, status, turn).archived = r.archived
      /\ SessionSetInRows(r, status, turn).approvals = r.approvals
  BY DEF SessionSetInRows, Rows
<1> QED BY <1>1, <1>2

-----------------------------------------------------------------------------
(* The steps.                                                               *)

(* A settled thread is at rest when the decider's side of it is.            *)
LEMMA RestFromModel ==
  ASSUME ColumnsAgree, FlagsAgree,
         model.override = "settled" => model.status \notin Live /\ model.open = {}
  PROVE  SettledIsAtRest
<1>1. rows.override = model.override /\ rows.status = model.status
  BY DEF ColumnsAgree, Columns
<1> QED BY <1>1 DEF SettledIsAtRest, FlagsAgree

(* A command that leaves the session and the requests alone, and settles the *)
(* thread only at rest.                                                      *)
LEMMA StampStep ==
  ASSUME ThreadInv, (TypeOK)', (ColumnsAgree)',
         model'.status = model.status, model'.open = model.open,
         rows'.status = rows.status, rows'.approvals = rows.approvals, UNCHANGED history,
         model'.override = "settled" =>
             model.override = "settled" \/ (model.status \notin Live /\ model.open = {})
  PROVE  ThreadInv'
<1>1. FlagsAgree'
  BY DEF ThreadInv, FlagsAgree
<1>2. UnaskedIsAbsent'
  BY DEF ThreadInv, UnaskedIsAbsent
<1>3. model.override = "settled" => model.status \notin Live /\ model.open = {}
  BY DEF ThreadInv, SettledIsAtRest, ColumnsAgree, Columns
<1>4. (model.override = "settled" => model.status \notin Live /\ model.open = {})'
  BY <1>3
<1>5. SettledIsAtRest'
  BY <1>1, <1>4, RestFromModel, PTL
<1> QED BY <1>1, <1>2, <1>5 DEF ThreadInv

(* Settling, snoozing, archiving and their undoing.                         *)
LEMMA StampCommands ==
  ASSUME ThreadInv, NEW reason \in {"user", "activity"},
         \/ Settle \/ Unsettle(reason) \/ Snooze \/ Unsnooze \/ Archive \/ Unarchive
  PROVE  ThreadInv'
<1>1. model \in Model /\ rows \in Rows /\ history \in History
  BY DEF ThreadInv, TypeOK
<1>2. ColumnsAgree
  BY DEF ThreadInv
<1>3. \A h \in BOOLEAN :
         /\ Snoozed(model, h) \in Model /\ Snoozed(rows, h) \in Rows
         /\ Archived(model, h) \in Model /\ Archived(rows, h) \in Rows
         /\ Unsettled(model, reason) \in Model /\ Unsettled(rows, reason) \in Rows
         /\ Settled(model) \in Model /\ Settled(rows) \in Rows
  BY <1>1, StampTypes
<1>4. CASE Settle
  <2> DEFINE m == Settled(model)
             r == Settled(rows)
  <2>1. /\ model' = Snoozed(m, FALSE) /\ rows' = Snoozed(r, FALSE) /\ history' = history
        /\ model.status \notin Live /\ model.open = {}
    BY <1>4 DEF Settle, CanSettle, HasOpenBlockingRequest
  <2>2. m \in Model /\ r \in Rows
    BY <1>3
  <2>3. Snoozed(m, FALSE) \in Model /\ Snoozed(r, FALSE) \in Rows
    BY <2>2, StampTypes
  <2>4. /\ m.status = model.status /\ m.turn = model.turn /\ m.open = model.open
        /\ m.archived = model.archived /\ m.override = "settled"
        /\ r.status = rows.status /\ r.turn = rows.turn /\ r.turns = rows.turns
        /\ r.approvals = rows.approvals /\ r.archived = rows.archived /\ r.override = "settled"
    BY ZenonT(60), <1>1, StampsKeep
  <2>5. /\ Snoozed(m, FALSE).status = m.status /\ Snoozed(m, FALSE).turn = m.turn
        /\ Snoozed(m, FALSE).open = m.open /\ Snoozed(m, FALSE).archived = m.archived
        /\ Snoozed(m, FALSE).override = m.override /\ Snoozed(m, FALSE).snoozed = FALSE
        /\ Snoozed(r, FALSE).status = r.status /\ Snoozed(r, FALSE).turn = r.turn
        /\ Snoozed(r, FALSE).turns = r.turns /\ Snoozed(r, FALSE).approvals = r.approvals
        /\ Snoozed(r, FALSE).archived = r.archived
        /\ Snoozed(r, FALSE).override = r.override /\ Snoozed(r, FALSE).snoozed = FALSE
    BY ZenonT(60), <2>2, StampsKeep
  <2> HIDE DEF m, r
  <2>6. TypeOK'
    BY <1>1, <2>1, <2>3 DEF TypeOK
  <2>7. ColumnsAgree'
    BY ZenonT(60), <1>2, <2>1, <2>4, <2>5 DEF ColumnsAgree, Columns
  <2> QED BY <2>1, <2>4, <2>5, <2>6, <2>7, StampStep
<1>5. ASSUME NEW m \in {Unsettled(model, reason), Snoozed(model, TRUE), Snoozed(model, FALSE),
                        Archived(model, TRUE), Archived(model, FALSE)},
             NEW r \in Rows, m \in Model, model' = m, rows' = r, UNCHANGED history,
             r.override = m.override, r.snoozed = m.snoozed, r.archived = m.archived,
             r.status = rows.status, r.turn = rows.turn, r.turns = rows.turns,
             r.approvals = rows.approvals,
             m.override = "settled" => model.override = "settled"
      PROVE  ThreadInv'
  <2>1. m.status = model.status /\ m.turn = model.turn /\ m.open = model.open
    BY <1>1, <1>5 DEF Unsettled, Snoozed, Archived, Model
  <2>2. TypeOK'
    BY <1>1, <1>5 DEF TypeOK
  <2>3. ColumnsAgree'
    BY <1>2, <1>5, <2>1 DEF ColumnsAgree, Columns
  <2> QED BY <1>5, <2>1, <2>2, <2>3, StampStep
<1>6. CASE Unsettle(reason)
  <2>1. model' = Unsettled(model, reason) /\ rows' = Unsettled(rows, reason) /\ UNCHANGED history
    BY <1>6 DEF Unsettle
  <2>2. /\ Unsettled(model, reason).override # "settled"
        /\ Unsettled(rows, reason).override = Unsettled(model, reason).override
        /\ Unsettled(model, reason).snoozed = model.snoozed
        /\ Unsettled(model, reason).archived = model.archived
        /\ Unsettled(rows, reason).snoozed = rows.snoozed
        /\ Unsettled(rows, reason).archived = rows.archived
        /\ Unsettled(rows, reason).status = rows.status
        /\ Unsettled(rows, reason).turn = rows.turn
        /\ Unsettled(rows, reason).turns = rows.turns
        /\ Unsettled(rows, reason).approvals = rows.approvals
    BY <1>1 DEF Unsettled, Model, Rows
  <2>3. rows.snoozed = model.snoozed /\ rows.archived = model.archived
    BY <1>2 DEF ColumnsAgree, Columns
  <2> QED BY <1>3, <1>5, <2>1, <2>2, <2>3
<1>7. ASSUME NEW h \in BOOLEAN, model' = Snoozed(model, h), rows' = Snoozed(rows, h),
             UNCHANGED history
      PROVE  ThreadInv'
  <2>1. /\ Snoozed(model, h).override = model.override /\ Snoozed(model, h).snoozed = h
        /\ Snoozed(model, h).archived = model.archived
        /\ Snoozed(rows, h).override = rows.override /\ Snoozed(rows, h).snoozed = h
        /\ Snoozed(rows, h).archived = rows.archived
        /\ Snoozed(rows, h).status = rows.status /\ Snoozed(rows, h).turn = rows.turn
        /\ Snoozed(rows, h).turns = rows.turns /\ Snoozed(rows, h).approvals = rows.approvals
    BY <1>1, StampsKeep
  <2>2. rows.override = model.override /\ rows.archived = model.archived
    BY <1>2 DEF ColumnsAgree, Columns
  <2>3. Snoozed(model, h) \in {Snoozed(model, TRUE), Snoozed(model, FALSE)}
    OBVIOUS
  <2> QED BY <1>3, <1>5, <1>7, <2>1, <2>2, <2>3
<1>8. ASSUME NEW h \in BOOLEAN, model' = Archived(model, h), rows' = Archived(rows, h),
             UNCHANGED history
      PROVE  ThreadInv'
  <2>1. /\ Archived(model, h).override = model.override /\ Archived(model, h).archived = h
        /\ Archived(model, h).snoozed = model.snoozed
        /\ Archived(rows, h).override = rows.override /\ Archived(rows, h).archived = h
        /\ Archived(rows, h).snoozed = rows.snoozed
        /\ Archived(rows, h).status = rows.status /\ Archived(rows, h).turn = rows.turn
        /\ Archived(rows, h).turns = rows.turns /\ Archived(rows, h).approvals = rows.approvals
    BY <1>1, StampsKeep
  <2>2. rows.override = model.override /\ rows.snoozed = model.snoozed
    BY <1>2 DEF ColumnsAgree, Columns
  <2>3. Archived(model, h) \in {Archived(model, TRUE), Archived(model, FALSE)}
    OBVIOUS
  <2> QED BY <1>3, <1>5, <1>8, <2>1, <2>2, <2>3
<1>9. CASE Snooze \/ Unsnooze \/ Archive \/ Unarchive
  BY <1>7, <1>8, <1>9 DEF Snooze, Unsnooze, Archive, Unarchive
<1> QED BY <1>4, <1>6, <1>9

(* A message wakes the thread.                                              *)
LEMMA StartTurnStep ==
  ASSUME ThreadInv, NEW ahead \in BOOLEAN, StartTurn(ahead)
  PROVE  ThreadInv'
<1>1. model \in Model /\ rows \in Rows /\ history \in History /\ ColumnsAgree
  BY DEF ThreadInv, TypeOK
<1> DEFINE m == Snoozed(Woken(model), FALSE)
           r == Snoozed(Woken(rows), FALSE)
<1>2. m \in Model /\ r \in Rows
  BY <1>1, StampTypes
<1>3. /\ m.status = model.status /\ m.turn = model.turn /\ m.open = model.open
      /\ m.override = "none" /\ m.snoozed = FALSE /\ m.archived = model.archived
      /\ r.status = rows.status /\ r.turn = rows.turn /\ r.turns = rows.turns
      /\ r.approvals = rows.approvals
      /\ r.override = "none" /\ r.snoozed = FALSE /\ r.archived = rows.archived
  BY <1>1 DEF Snoozed, Woken, Unsettled, Model, Rows
<1>4. /\ model' = [m EXCEPT !.queued = @ \/ ahead] /\ rows' = [r EXCEPT !.pendingStart = TRUE]
      /\ history' = history
  BY DEF StartTurn
<1> HIDE DEF m, r
<1>5. (m.queued \/ ahead) \in BOOLEAN
  OBVIOUS
<1>6. ASSUME NEW queued \in BOOLEAN, model' = [m EXCEPT !.queued = queued]
      PROVE  ThreadInv'
  <2>1. /\ model' \in Model /\ model'.status = m.status /\ model'.turn = m.turn
        /\ model'.open = m.open /\ model'.override = m.override
        /\ model'.snoozed = m.snoozed /\ model'.archived = m.archived
    BY <1>2, <1>6 DEF Model
  <2>2. /\ rows' \in Rows /\ rows'.status = r.status /\ rows'.turn = r.turn
        /\ rows'.turns = r.turns /\ rows'.approvals = r.approvals
        /\ rows'.override = r.override /\ rows'.snoozed = r.snoozed
        /\ rows'.archived = r.archived
    BY <1>2, <1>4 DEF Rows
  <2>3. TypeOK'
    BY <1>1, <1>4, <2>1, <2>2 DEF TypeOK
  <2>4. ColumnsAgree'
    BY <1>1, <1>3, <2>1, <2>2 DEF ColumnsAgree, Columns
  <2> QED BY <1>3, <1>4, <2>1, <2>2, <2>3, <2>4, StampStep
<1> QED BY <1>4, <1>5, <1>6, Zenon

(* A session that comes alive wakes the thread.                             *)
LEMMA SetSessionStep ==
  ASSUME ThreadInv, NEW status \in SessionStatuses, NEW turn \in Turns \cup {NoTurn},
         NEW newer \in BOOLEAN, SetSession(status, turn, newer)
  PROVE  ThreadInv'
<1>1. model \in Model /\ rows \in Rows /\ history \in History /\ ColumnsAgree
  BY DEF ThreadInv, TypeOK
<1> DEFINE m == IF status \in Live THEN Woken(model) ELSE model
           r == IF status \in Live THEN Woken(rows) ELSE rows
<1>2. m \in Model /\ r \in Rows
  BY <1>1, StampTypes
<1>3. /\ m.open = model.open /\ m.snoozed = model.snoozed /\ m.archived = model.archived
      /\ m.override = IF status \in Live THEN "none" ELSE model.override
      /\ r.approvals = rows.approvals /\ r.snoozed = rows.snoozed
      /\ r.archived = rows.archived
      /\ r.override = IF status \in Live THEN "none" ELSE rows.override
  BY <1>1 DEF Woken, Unsettled, Model, Rows
<1>4. /\ model' = SessionSetInModel(m, status, turn, newer)
      /\ rows' = SessionSetInRows(r, status, turn) /\ history' = history
  BY DEF SetSession
<1> HIDE DEF m, r
<1>5. TypeOK'
  BY <1>1, <1>2, <1>4, SessionSetModelType, SessionSetRowsType DEF TypeOK
<1>6. /\ model'.status = status /\ model'.turn = turn
      /\ rows'.status = status /\ rows'.turn = turn
      /\ model'.override = m.override /\ model'.snoozed = m.snoozed
      /\ model'.archived = m.archived /\ model'.open = m.open
      /\ rows'.override = r.override /\ rows'.snoozed = r.snoozed
      /\ rows'.archived = r.archived /\ rows'.approvals = r.approvals
  BY <1>2, <1>4, SessionSetKeeps
<1>7. ColumnsAgree'
  BY <1>1, <1>3, <1>6 DEF ColumnsAgree, Columns
<1>8. FlagsAgree' /\ UnaskedIsAbsent'
  BY <1>3, <1>4, <1>6 DEF ThreadInv, FlagsAgree, UnaskedIsAbsent
<1>10. (model.override = "settled" => model.status \notin Live /\ model.open = {})'
  <2>1. model.override = "settled" => model.open = {}
    BY <1>1 DEF ThreadInv, SettledIsAtRest, ColumnsAgree, Columns
  <2> QED BY <1>3, <1>6, <2>1
<1>11. SettledIsAtRest'
  BY <1>7, <1>8, <1>10, RestFromModel, PTL
<1> QED BY <1>5, <1>7, <1>8, <1>11 DEF ThreadInv

(* A command that touches neither the columns nor the requests.             *)
LEMMA TurnOnly ==
  ASSUME ThreadInv, UNCHANGED history,
         model' \in Model, model'.open = model.open,
         \A c \in Columns : model'[c] = model[c],
         rows' \in Rows, rows'.approvals = rows.approvals,
         \A c \in Columns : rows'[c] = rows[c]
  PROVE  ThreadInv'
<1>1. TypeOK' /\ ColumnsAgree'
  BY DEF ThreadInv, TypeOK, ColumnsAgree
<1>2. rows'.override = rows.override /\ rows'.status = rows.status
  BY DEF Columns
<1>3. SettledIsAtRest' /\ FlagsAgree' /\ UnaskedIsAbsent'
  BY <1>2 DEF ThreadInv, SettledIsAtRest, FlagsAgree, UnaskedIsAbsent
<1> QED BY <1>1, <1>3 DEF ThreadInv

(* An interrupt touches the turns of the rows only.                         *)
LEMMA InterruptStep ==
  ASSUME ThreadInv, NEW t \in Turns, InterruptTurn(t)
  PROVE  ThreadInv'
<1>1. model \in Model /\ rows \in Rows
  BY DEF ThreadInv, TypeOK
<1>2. rows' = [rows EXCEPT !.turns[t] = "interrupted"] /\ UNCHANGED <<model, history>>
  BY DEF InterruptTurn
<1>3. /\ rows' \in Rows /\ rows'.approvals = rows.approvals
      /\ \A c \in Columns : rows'[c] = rows[c]
  <2>1. rows' \in Rows
    BY <1>1, <1>2 DEF Rows, TurnStates
  <2> QED BY <1>1, <1>2, <2>1 DEF Rows, Columns
<1> QED BY <1>1, <1>2, <1>3, TurnOnly

(* A message of the agent touches the turns of the rows only.               *)
LEMMA MessageStep ==
  ASSUME ThreadInv, NEW t \in Turns, NEW streaming \in BOOLEAN, MessageSent(t, streaming)
  PROVE  ThreadInv'
<1>1. model \in Model /\ rows \in Rows
  BY DEF ThreadInv, TypeOK
<1>2. rows' = MessageSentInRows(rows, t, streaming) /\ UNCHANGED <<model, history>>
  BY DEF MessageSent
<1>3. PICK state \in TurnStates \cup {"absent"} : rows' = [rows EXCEPT !.turns[t] = state]
  BY <1>1, <1>2 DEF MessageSentInRows, Rows, TurnStates
<1>4. /\ rows' \in Rows /\ rows'.approvals = rows.approvals
      /\ \A c \in Columns : rows'[c] = rows[c]
  BY <1>1, <1>3 DEF Rows, Columns
<1> QED BY <1>1, <1>2, <1>4, TurnOnly

(* A checkpoint touches turns and checkpoints, and the grace of a start.    *)
LEMMA DiffStep ==
  ASSUME ThreadInv, NEW t \in Turns, NEW status \in CheckpointStatuses \ {"none"},
         NEW newer \in BOOLEAN, TurnDiffCompleted(t, status, newer)
  PROVE  ThreadInv'
<1>1. model \in Model /\ rows \in Rows /\ history \in History
  BY DEF ThreadInv, TypeOK
<1>2. /\ model' = TurnDiffCompletedInModel(model, t, status, newer)
      /\ rows' = TurnDiffCompletedInRows(rows, t, status) /\ UNCHANGED history
  BY DEF TurnDiffCompleted
<1>3. /\ model' \in Model /\ model'.open = model.open
      /\ \A c \in Columns : model'[c] = model[c]
  BY <1>1, <1>2, DiffInModel
<1>4. /\ rows' \in Rows /\ rows'.approvals = rows.approvals
      /\ \A c \in Columns : rows'[c] = rows[c]
  BY <1>1, <1>2, DiffInRows
<1> QED BY <1>1, <1>2, <1>3, <1>4, TurnOnly

(* A response resolves the row of a request that was asked.                 *)
LEMMA RespondStep ==
  ASSUME ThreadInv, NEW q \in Requests, Respond(q)
  PROVE  ThreadInv'
<1>1. model \in Model /\ rows \in Rows /\ history \in History
  BY DEF ThreadInv, TypeOK
<1>2. /\ q \in history.asked /\ rows' = ResponseRequestedInRows(rows, q) /\ UNCHANGED model
      /\ history' = [history EXCEPT !.answered = @ \cup {q}]
  BY DEF Respond
<1>3. /\ rows' \in Rows /\ rows'.turns = rows.turns /\ \A c \in Columns : rows'[c] = rows[c]
      /\ rows'.approvals[q] = "resolved"
      /\ \A p \in Requests : p # q => rows'.approvals[p] = rows.approvals[p]
  <2>1. rows' \in Rows
    BY <1>1, <1>2, ApprovalTypes
  <2> QED BY <1>1, <1>2, <2>1 DEF ResponseRequestedInRows, Rows, Columns
<1>4. /\ history' \in History /\ history'.asked = history.asked
      /\ history'.answered = history.answered \cup {q} /\ history'.forgotten = history.forgotten
  BY <1>1, <1>2 DEF History
<1>5. TypeOK' /\ ColumnsAgree'
  BY <1>1, <1>2, <1>3, <1>4 DEF ThreadInv, TypeOK, ColumnsAgree
<1>6. rows'.override = rows.override /\ rows'.status = rows.status
  BY <1>3 DEF Columns
<1>7. SettledIsAtRest' /\ FlagsAgree' /\ UnaskedIsAbsent'
  BY <1>2, <1>3, <1>4, <1>6 DEF ThreadInv, SettledIsAtRest, FlagsAgree, UnaskedIsAbsent
<1> QED BY <1>5, <1>7 DEF ThreadInv

(* A request wakes the thread.                                              *)
LEMMA RequestedStep ==
  ASSUME ThreadInv, NEW q \in Requests, AppendRequested(q)
  PROVE  ThreadInv'
<1>1. model \in Model /\ rows \in Rows /\ history \in History /\ ColumnsAgree
  BY DEF ThreadInv, TypeOK
<1> DEFINE m == Woken(model)
           r == Woken(rows)
<1>2. m \in Model /\ r \in Rows
  BY <1>1, StampTypes
<1>3. /\ m.status = model.status /\ m.turn = model.turn /\ m.open = model.open
      /\ m.override = "none" /\ m.snoozed = model.snoozed /\ m.archived = model.archived
      /\ r.status = rows.status /\ r.turn = rows.turn /\ r.turns = rows.turns
      /\ r.approvals = rows.approvals
      /\ r.override = "none" /\ r.snoozed = rows.snoozed /\ r.archived = rows.archived
  BY <1>1 DEF Woken, Unsettled, Model, Rows
<1>4. /\ q \notin history.asked
      /\ model' = [m EXCEPT !.open = @ \cup {q}] /\ rows' = RequestedInRows(r, q)
      /\ history' = [history EXCEPT !.asked = @ \cup {q}]
  BY DEF AppendRequested
<1> HIDE DEF m, r
<1>5. /\ model' \in Model /\ model'.open = m.open \cup {q}
      /\ \A c \in Columns : model'[c] = m[c]
  BY <1>2, <1>4 DEF Model, Columns
<1>6. /\ rows' \in Rows /\ rows'.turns = r.turns /\ \A c \in Columns : rows'[c] = r[c]
      /\ rows'.approvals[q] = IF r.approvals[q] = "resolved" THEN "resolved" ELSE "pending"
      /\ \A p \in Requests : p # q => rows'.approvals[p] = r.approvals[p]
  <2>1. rows' \in Rows
    BY <1>2, <1>4, ApprovalTypes
  <2> QED BY <1>2, <1>4, <2>1 DEF RequestedInRows, Rows, Columns
<1>7. /\ history' \in History /\ history'.asked = history.asked \cup {q}
      /\ history'.answered = history.answered /\ history'.forgotten = history.forgotten
  BY <1>1, <1>4 DEF History
<1>8. TypeOK'
  BY <1>5, <1>6, <1>7 DEF TypeOK
<1>9. ColumnsAgree'
  BY <1>1, <1>3, <1>5, <1>6 DEF ColumnsAgree, Columns
<1>10. rows'.approvals[q] = "pending"
  BY <1>3, <1>4, <1>6 DEF ThreadInv, UnaskedIsAbsent
<1>11. FlagsAgree' /\ UnaskedIsAbsent'
  BY <1>3, <1>5, <1>6, <1>7, <1>10 DEF ThreadInv, FlagsAgree, UnaskedIsAbsent
<1>12. rows'.override = "none" /\ rows'.status = rows.status
  BY <1>3, <1>6 DEF Columns
<1>13. SettledIsAtRest'
  BY <1>12 DEF SettledIsAtRest
<1> QED BY <1>8, <1>9, <1>11, <1>13 DEF ThreadInv

(* A resolution, also one by a stale failure, closes a request.             *)
LEMMA ResolvedStep ==
  ASSUME ThreadInv, NEW q \in Requests, AppendResolved(q) \/ AppendStaleFailure(q)
  PROVE  ThreadInv'
<1>1. model \in Model /\ rows \in Rows /\ history \in History /\ ColumnsAgree
  BY DEF ThreadInv, TypeOK
<1>2. model' = [model EXCEPT !.open = @ \ {q}]
  BY DEF AppendResolved, AppendStaleFailure
<1>3. /\ model' \in Model /\ model'.open = model.open \ {q}
      /\ \A c \in Columns : model'[c] = model[c]
  BY <1>1, <1>2 DEF Model, Columns
<1>4. /\ rows' \in Rows /\ rows'.turns = rows.turns /\ \A c \in Columns : rows'[c] = rows[c]
      /\ rows'.approvals[q] # "pending"
      /\ rows'.approvals[q] = "resolved" \/ rows'.approvals[q] = rows.approvals[q]
      /\ \A p \in Requests : p # q => rows'.approvals[p] = rows.approvals[p]
  <2>1. rows' = ResolvedInRows(rows, q) \/ rows' = StaleFailureInRows(rows, q)
    BY DEF AppendResolved, AppendStaleFailure
  <2>2. rows' \in Rows
    BY <1>1, <2>1, ApprovalTypes
  <2>3. CASE rows' = ResolvedInRows(rows, q)
    BY <1>1, <2>2, <2>3 DEF ResolvedInRows, Rows, Columns
  <2>4. CASE rows' = StaleFailureInRows(rows, q)
    BY <1>1, <2>2, <2>4 DEF StaleFailureInRows, Rows, Columns
  <2> QED BY <2>1, <2>3, <2>4
<1>5. /\ history' \in History
      /\ history'.answered = history.answered /\ history'.forgotten = history.forgotten
  BY <1>1 DEF AppendResolved, AppendStaleFailure, History
<1>6. /\ history.asked \subseteq history'.asked
      /\ AppendResolved(q) => q \in history'.asked
      /\ AppendStaleFailure(q) /\ q \notin history'.asked => rows'.approvals[q] = "absent"
  <2>1. AppendResolved(q) => history'.asked = history.asked \cup {q}
    BY <1>1 DEF AppendResolved, History
  <2>2. AppendStaleFailure(q) => history'.asked = history.asked
    BY DEF AppendStaleFailure
  <2>3. AppendStaleFailure(q) /\ q \notin history.asked => rows'.approvals[q] = "absent"
    <3>1. q \notin history.asked => rows.approvals[q] = "absent"
      BY DEF ThreadInv, UnaskedIsAbsent
    <3>2. AppendStaleFailure(q) => rows' = StaleFailureInRows(rows, q)
      BY DEF AppendStaleFailure
    <3> QED BY <1>1, <3>1, <3>2 DEF StaleFailureInRows, Rows
  <2> QED BY <2>1, <2>2, <2>3
<1>7. TypeOK' /\ ColumnsAgree'
  BY <1>1, <1>3, <1>4, <1>5 DEF TypeOK, ColumnsAgree
<1>8. FlagsAgree'
  BY <1>3, <1>4, <1>5 DEF ThreadInv, FlagsAgree
<1>9. UnaskedIsAbsent'
  BY <1>4, <1>6 DEF ThreadInv, UnaskedIsAbsent
<1>10. rows'.override = rows.override /\ rows'.status = rows.status
  BY <1>4 DEF Columns
<1>11. SettledIsAtRest'
  BY <1>3, <1>4, <1>5, <1>10 DEF ThreadInv, SettledIsAtRest
<1> QED BY <1>7, <1>8, <1>9, <1>11 DEF ThreadInv

(* The grace of a queued start touches nothing the invariant is about.      *)
LEMMA GraceStep ==
  ASSUME ThreadInv, GraceExpires
  PROVE  ThreadInv'
<1>1. model \in Model /\ rows \in Rows /\ history \in History
  BY DEF ThreadInv, TypeOK
<1>2. model' = [model EXCEPT !.queued = FALSE] /\ UNCHANGED <<rows, history>>
  BY DEF GraceExpires
<1>3. /\ model' \in Model /\ model'.open = model.open
      /\ \A c \in Columns : model'[c] = model[c]
  BY <1>1, <1>2 DEF Model, Columns
<1>4. TypeOK' /\ ColumnsAgree'
  BY <1>1, <1>2, <1>3 DEF ThreadInv, TypeOK, ColumnsAgree
<1>5. SettledIsAtRest' /\ FlagsAgree' /\ UnaskedIsAbsent'
  BY <1>2, <1>3 DEF ThreadInv, SettledIsAtRest, FlagsAgree, UnaskedIsAbsent
<1> QED BY <1>4, <1>5 DEF ThreadInv

(* A restart makes the read model agree with the rows, and forgets requests. *)
LEMMA RebuildStep ==
  ASSUME ThreadInv, Rebuild
  PROVE  ThreadInv'
<1>1. model \in Model /\ rows \in Rows /\ history \in History
  BY DEF ThreadInv, TypeOK
<1>2. /\ model' = Rebuilt /\ UNCHANGED rows
      /\ history' = [history EXCEPT !.forgotten = @ \cup model.open]
  BY DEF Rebuild
<1>3. Rebuilt \in Model
  <2>1. rows.latest # NoTurn /\ rows.turns[rows.latest] # "absent" =>
            rows.turns[rows.latest] \in TurnStates
    BY <1>1 DEF Rows
  <2>2. (rows.latest # NoTurn /\ rows.turns[rows.latest] # "absent") \in BOOLEAN
    OBVIOUS
  <2>3. ASSUME NEW known \in BOOLEAN, known => rows.turns[rows.latest] \in TurnStates
        PROVE  [status |-> rows.status, turn |-> rows.turn, override |-> rows.override,
                snoozed |-> rows.snoozed, archived |-> rows.archived,
                latest |-> IF known THEN rows.latest ELSE NoTurn,
                latestState |-> IF known THEN rows.turns[rows.latest] ELSE "completed",
                checkpoints |-> [t \in Turns |-> "none"],
                open |-> {}, queued |-> FALSE] \in Model
    BY <1>1, <2>3 DEF Rows, Model, TurnStates, CheckpointStatuses
  <2> QED BY <2>1, <2>2, <2>3, Zenon DEF Rebuilt
<1>4. Rebuilt.open = {} /\ \A c \in Columns : Rebuilt[c] = rows[c]
  BY DEF Rebuilt, Columns
<1>5. /\ history' \in History /\ history'.asked = history.asked
      /\ history'.answered = history.answered
      /\ history'.forgotten = history.forgotten \cup model.open
  <2>1. model.open \in SUBSET Requests
    BY <1>1 DEF Model
  <2> QED BY <1>1, <1>2, <2>1 DEF History
<1>6. TypeOK' /\ ColumnsAgree'
  BY <1>1, <1>2, <1>3, <1>4, <1>5 DEF TypeOK, ColumnsAgree
<1>7. FlagsAgree'
  BY <1>2, <1>4, <1>5 DEF ThreadInv, FlagsAgree
<1>8. SettledIsAtRest' /\ UnaskedIsAbsent'
  BY <1>2, <1>4, <1>5 DEF ThreadInv, SettledIsAtRest, UnaskedIsAbsent
<1> QED BY <1>6, <1>7, <1>8 DEF ThreadInv

(* A thread that was just created.                                          *)
LEMMA ThreadInit == Init => ThreadInv
<1> SUFFICES ASSUME Init PROVE ThreadInv
  OBVIOUS
<1>1. model \in Model /\ rows \in Rows /\ history \in History
  BY DEF Init, Model, Rows, History, SessionStatuses, TurnStates, CheckpointStatuses
<1>2. TypeOK /\ ColumnsAgree
  BY <1>1 DEF Init, TypeOK, ColumnsAgree, Columns
<1>3. SettledIsAtRest /\ FlagsAgree /\ UnaskedIsAbsent
  BY DEF Init, SettledIsAtRest, FlagsAgree, UnaskedIsAbsent, Live
<1> QED BY <1>2, <1>3 DEF ThreadInv

(* Every command keeps the invariant.                                       *)
LEMMA ThreadStep == ThreadInv /\ [Next]_aggregateVars => ThreadInv'
<1> SUFFICES ASSUME ThreadInv, [Next]_aggregateVars PROVE ThreadInv'
  OBVIOUS
<1>1. CASE Settle \/ Snooze \/ Unsnooze \/ Archive \/ Unarchive
  BY <1>1, StampCommands
<1>2. ASSUME NEW reason \in {"user", "activity"}, Unsettle(reason) PROVE ThreadInv'
  BY <1>2, StampCommands
<1>3. ASSUME NEW ahead \in BOOLEAN, StartTurn(ahead) PROVE ThreadInv'
  BY <1>3, StartTurnStep
<1>4. ASSUME NEW t \in Turns, InterruptTurn(t) PROVE ThreadInv'
  BY <1>4, InterruptStep
<1>5. ASSUME NEW q \in Requests, Respond(q) PROVE ThreadInv'
  BY <1>5, RespondStep
<1>6. ASSUME NEW s \in SessionStatuses \ {"none"}, NEW t \in Turns \cup {NoTurn},
             NEW newer \in BOOLEAN, SetSession(s, t, newer)
      PROVE  ThreadInv'
  BY <1>6, SetSessionStep
<1>7. ASSUME NEW q \in Requests,
             AppendRequested(q) \/ AppendResolved(q) \/ AppendStaleFailure(q)
      PROVE  ThreadInv'
  BY <1>7, RequestedStep, ResolvedStep
<1>8. CASE GraceExpires
  BY <1>8, GraceStep
<1>9. CASE Rebuild
  BY <1>9, RebuildStep
<1>10. CASE UNCHANGED aggregateVars
  BY <1>10 DEF aggregateVars, ThreadInv, TypeOK, ColumnsAgree, SettledIsAtRest, FlagsAgree,
     UnaskedIsAbsent
<1>11. ASSUME NEW t \in Turns, NEW streaming \in BOOLEAN, MessageSent(t, streaming)
       PROVE  ThreadInv'
  BY <1>11, MessageStep
<1>12. ASSUME NEW t \in Turns, NEW status \in CheckpointStatuses \ {"none"},
              NEW newer \in BOOLEAN, TurnDiffCompleted(t, status, newer)
       PROVE  ThreadInv'
  BY <1>12, DiffStep
<1> QED
  BY <1>1, <1>2, <1>3, <1>4, <1>5, <1>6, <1>7, <1>8, <1>9, <1>10, <1>11, <1>12 DEF Next

(* The invariant holds of every behaviour of a thread.                      *)
THEOREM ThreadInvariant == Spec => []ThreadInv
BY ThreadInit, ThreadStep, PTL DEF Spec

(* Settled threads are at rest, whatever commands come in whatever order.   *)
THEOREM SettledCorrect == Spec => []SettledIsAtRest
<1>1. ThreadInv => SettledIsAtRest
  BY DEF ThreadInv
<1> QED BY <1>1, ThreadInvariant, PTL

(* The decider and the rows differ on a request only if it was answered or  *)
(* forgotten.                                                               *)
THEOREM FlagsCorrect == Spec => []FlagsAgree
<1>1. ThreadInv => FlagsAgree
  BY DEF ThreadInv
<1> QED BY <1>1, ThreadInvariant, PTL

(* What a command is decided on is what the rows say.                       *)
THEOREM ColumnsCorrect == Spec => []ColumnsAgree
<1>1. ThreadInv => ColumnsAgree
  BY DEF ThreadInv
<1> QED BY <1>1, ThreadInvariant, PTL

-----------------------------------------------------------------------------
(* The composition.                                                         *)

(* The kinds of what is queued and on its way.                              *)
TurnIds == Turns \cup {NoTurn}

Intents ==
    [kind : {"start"}, start : Nat] \cup [kind : {"interrupt"}, turn : Turns]
    \cup [kind : {"answer"}, request : Requests] \cup [kind : {"stop"}]

ReactorStates ==
    [pc : {"idle", "reconcile"}]
    \cup [pc : {"start", "ensure", "bind", "failure", "stop", "record stop", "interrupt",
                "give up", "answer"},
          intent : Intents, status : SessionStatuses, alive : BOOLEAN]

Stages == {"none", "forked", "begun", "recovering", "prompted", "failed", "done",
           "set stopped", "set error"}

SendStates == [stage : Stages, turn : TurnIds, steers : BOOLEAN]

Agents == [alive : BOOLEAN, bound : BOOLEAN, turn : TurnIds,
           asks : [Requests -> {"none", "open", "decided", "done"}]]

AgentEvents ==
    [type : {"started", "ready", "exited"}]
    \cup [type : {"turn.started", "turn.completed"}, turn : TurnIds]
    \cup [type : {"opened", "resolved"}, request : Requests]
    \cup [type : {"message"}, turn : Turns, streaming : BOOLEAN]

Writes == [pc : {"write"}, status : SessionStatuses \ {"none"}, turn : TurnIds]

Kinds == {"overtaking", "outrun", "collateral", "resurrected", "missed", "late"}

Asked == [starts : Nat, calls : Nat, restarts : Nat, mishaps : SUBSET Kinds]

WorkOK ==
    /\ intents \in Seq(Intents)
    /\ reactor \in ReactorStates
    /\ reactor.pc = "answer" => reactor.intent.request \in Requests
    /\ sends \in [Starts -> SendStates]
    /\ agent \in Agents
    /\ feed \in Seq(AgentEvents)
    /\ ingest \in {Idle} \cup Writes
    /\ asked \in Asked

(* What the agent puts out, and the turns it works on.                      *)
Captures == [turn : Turns, status : {"ready", "missing"}, replaces : BOOLEAN]
Capturing == [pc : {"record"}, turn : Turns, status : {"ready", "missing"}]

OutputOK ==
    /\ spoken \in Nat
    /\ captures \in Seq(Captures)
    /\ capture \in {Idle} \cup Capturing
    /\ \A n \in Starts : sends[n].stage \in {"begun", "prompted"} => sends[n].turn \in Turns

-----------------------------------------------------------------------------
(* The operators of the agent.                                              *)

(* Starts and turns are the same numbers.                                   *)
LEMMA StartsAreTurns == Starts = Turns /\ \A n \in Starts : n \in TurnIds
  BY TurnsAssumption DEF Starts, TurnIds

(* Failing some sends keeps the kind of all.                                *)
LEMMA FailedType ==
  ASSUME WorkOK, NEW set
  PROVE  FailedWith(set) \in [Starts -> SendStates]
  BY DEF WorkOK, FailedWith, SendStates, Stages

(* A step of a send.                                                        *)
LEMMA SendStepType ==
  ASSUME WorkOK, NEW n, NEW stage \in Stages, SendStep(n, stage)
  PROVE  sends' \in [Starts -> SendStates]
  BY DEF WorkOK, SendStep, SendStates, Stages

(* The events of a session that ends.                                       *)
LEMMA ExitType ==
  ASSUME NEW reported \in SUBSET Requests
  PROVE  Exit(reported) \in Seq(AgentEvents)
<1>1. Event("exited") \in AgentEvents
  BY DEF Event, AgentEvents
<1>2. <<>> \in Seq(AgentEvents) /\ <<Event("exited")>> \in Seq(AgentEvents)
  BY <1>1
<1>3. ASSUME reported # {}
      PROVE  <<[type |-> "resolved", request |-> CHOOSE r \in reported : TRUE]>> \in Seq(AgentEvents)
  <2>1. (CHOOSE r \in reported : TRUE) \in Requests
    BY <1>3
  <2>2. [type |-> "resolved", request |-> CHOOSE r \in reported : TRUE] \in AgentEvents
    BY <2>1 DEF AgentEvents
  <2> QED BY <2>2
<1> QED BY <1>2, <1>3, ConcatProperties DEF Exit

(* What is reported of the open requests.                                   *)
LEMMA ReportedType ==
  \A reported \in {{}} \cup {{r} : r \in OpenAsks} : reported \in SUBSET Requests
  BY DEF OpenAsks

(* The requests of a session that ends.                                     *)
LEMMA AsksType == AsksCancelled \in [Requests -> {"none", "open", "decided", "done"}]
  BY DEF AsksCancelled

(* adapter.stopSession.                                                     *)
LEMMA AgentStopsType ==
  ASSUME WorkOK, AgentStops
  PROVE  agent' \in Agents /\ feed' \in Seq(AgentEvents) /\ sends' \in [Starts -> SendStates]
<1>1. PICK reported \in {{}} \cup {{r} : r \in OpenAsks} :
          /\ feed' = feed \o Exit(reported) /\ sends' = FailedWith(InFlight)
          /\ agent' = [agent EXCEPT !.alive = FALSE, !.turn = NoTurn, !.asks = AsksCancelled]
  BY DEF AgentStops
<1>2. Exit(reported) \in Seq(AgentEvents) /\ feed \in Seq(AgentEvents)
  BY ExitType, ReportedType DEF WorkOK
<1>3. feed' \in Seq(AgentEvents)
  BY <1>1, <1>2, ConcatProperties
<1>4. agent' \in Agents
  BY <1>1, AsksType DEF WorkOK, Agents, TurnIds
<1> QED BY <1>1, <1>3, <1>4, FailedType

(* adapter.startSession.                                                    *)
LEMMA AgentStartsType ==
  ASSUME WorkOK, AgentStarts
  PROVE  agent' \in Agents /\ feed' \in Seq(AgentEvents)
<1>1. PICK reported \in {{}} \cup {{r} : r \in OpenAsks} :
          /\ feed' = feed \o Exit(reported) \o <<Event("started"), Event("ready")>>
          /\ agent' = [alive |-> TRUE, bound |-> TRUE, turn |-> NoTurn, asks |-> AsksCancelled]
  BY DEF AgentStarts
<1>2. Exit(reported) \in Seq(AgentEvents) /\ feed \in Seq(AgentEvents)
  BY ExitType, ReportedType DEF WorkOK
<1>3. Event("started") \in AgentEvents /\ Event("ready") \in AgentEvents
  BY DEF Event, AgentEvents
<1>4. <<Event("started"), Event("ready")>> \in Seq(AgentEvents)
  BY <1>3
<1>5. feed \o Exit(reported) \in Seq(AgentEvents)
  BY <1>2, ConcatProperties
<1>6. feed' \in Seq(AgentEvents)
  BY <1>1, <1>4, <1>5, ConcatProperties
<1>7. agent' \in Agents
  BY <1>1, AsksType DEF Agents, TurnIds
<1> QED BY <1>6, <1>7

(* The bounds and the mishaps.                                              *)
LEMMA AskedTypes ==
  ASSUME WorkOK, NEW kinds \in SUBSET Kinds, Acts \/ Mishaps(kinds) \/ UNCHANGED asked
  PROVE  asked' \in Asked
<1>1. CASE Acts
  <2>1. asked.calls + 1 \in Nat
    BY DEF WorkOK, Asked
  <2> QED BY <1>1, <2>1 DEF WorkOK, Asked, Acts
<1>2. CASE Mishaps(kinds)
  <2>1. asked.mishaps \cup kinds \in SUBSET Kinds
    BY DEF WorkOK, Asked
  <2> QED BY <1>2, <2>1 DEF WorkOK, Asked, Mishaps
<1> QED BY <1>1, <1>2 DEF WorkOK

-----------------------------------------------------------------------------
(* What the steps do to the thread: a command, or nothing.                  *)

ThreadMoves == Next \/ UNCHANGED aggregateVars

(* Steps that leave the thread alone.                                       *)
LEMMA ThreadStays == ASSUME UNCHANGED thread PROVE ThreadMoves
  BY DEF ThreadMoves, thread, aggregateVars

(* A session is set to something a session can be.                          *)
LEMMA SetsSession ==
  ASSUME NEW status \in SessionStatuses \ {"none"}, NEW turn \in TurnIds,
         NEW newer \in BOOLEAN, SetSession(status, turn, newer)
  PROVE  ThreadMoves
  BY DEF ThreadMoves, Next, TurnIds

(* The reactor sets a session without a turn.                               *)
LEMMA ReactorSetsSession ==
  ASSUME NEW status \in SessionStatuses \ {"none"}, ReactorSets(status)
  PROVE  ThreadMoves
  BY SetsSession DEF ReactorSets, TurnIds

-----------------------------------------------------------------------------
(* Clients.                                                                 *)

(* An intent that a client's call appends.                                  *)
LEMMA CallsType ==
  ASSUME WorkOK, NEW intent \in Intents, Calls(intent)
  PROVE  WorkOK'
<1>1. intents' \in Seq(Intents)
  BY AppendProperties DEF WorkOK, Calls
<1>2. asked' \in Asked
  BY AskedTypes DEF Calls, Kinds
<1> QED BY <1>1, <1>2 DEF WorkOK, Calls

(* What users and the parking of ws.ts do.                                  *)
LEMMA UserSteps ==
  ASSUME WorkOK, TypeOK, Users
  PROVE  WorkOK' /\ ThreadMoves
<1>1. CASE UserStarts
  <2>1. [kind |-> "start", start |-> asked.starts + 1] \in Intents
    BY DEF WorkOK, Asked, Intents
  <2>2. intents' \in Seq(Intents)
    BY <1>1, <2>1, AppendProperties DEF WorkOK, UserStarts
  <2>3. asked' \in Asked
    <3>1. asked' = [asked EXCEPT !.starts = @ + 1]
      BY <1>1 DEF UserStarts
    <3>2. ASSUME NEW a \in Asked PROVE [a EXCEPT !.starts = @ + 1] \in Asked
      BY DEF Asked
    <3> QED BY <3>1, <3>2 DEF WorkOK
  <2>4. WorkOK'
    BY <1>1, <2>2, <2>3 DEF WorkOK, UserStarts
  <2>5. ThreadMoves
    BY <1>1 DEF UserStarts, ThreadMoves, Next
  <2> QED BY <2>4, <2>5
<1>2. CASE UserInterrupts
  <2>1. rows.turn \in Turns
    BY <1>2 DEF UserInterrupts, TypeOK, Rows
  <2>2. [kind |-> "interrupt", turn |-> rows.turn] \in Intents
    BY <2>1 DEF Intents
  <2>3. WorkOK'
    BY <1>2, <2>2, CallsType DEF UserInterrupts
  <2>4. ThreadMoves
    BY <1>2, <2>1 DEF UserInterrupts, ThreadMoves, Next
  <2> QED BY <2>3, <2>4
<1>3. CASE UserAnswers
  <2>1. PICK r \in Requests : Respond(r) /\ Calls([kind |-> "answer", request |-> r])
    BY <1>3 DEF UserAnswers
  <2>2. [kind |-> "answer", request |-> r] \in Intents
    BY DEF Intents
  <2>3. WorkOK'
    BY <2>1, <2>2, CallsType
  <2>4. ThreadMoves
    BY <2>1 DEF ThreadMoves, Next
  <2> QED BY <2>3, <2>4
<1>4. CASE UserStops
  <2>1. [kind |-> "stop"] \in Intents
    BY DEF Intents
  <2> QED BY <1>4, <2>1, CallsType, ThreadStays DEF UserStops
<1>5. CASE UserTidies
  <2>1. asked' \in Asked
    BY <1>5, AskedTypes DEF UserTidies, Kinds
  <2>2. WorkOK'
    BY <1>5, <2>1 DEF UserTidies, WorkOK
  <2>3. ThreadMoves
    BY <1>5 DEF UserTidies, ThreadMoves, Next
  <2> QED BY <2>2, <2>3
<1>6. CASE ParkReads
  <2>1. asked' \in Asked
    BY <1>6, AskedTypes DEF ParkReads, Kinds
  <2> QED BY <1>6, <2>1, ThreadStays DEF ParkReads, WorkOK
<1>7. CASE ParkCommand
  <2>1. WorkOK'
    BY <1>7 DEF ParkCommand, WorkOK
  <2>2. ThreadMoves
    BY <1>7, ThreadStays DEF ParkCommand, ThreadMoves, Next
  <2> QED BY <2>1, <2>2
<1>8. CASE ParkStops
  <2>1. [kind |-> "stop"] \in Intents
    BY DEF Intents
  <2>2. intents' \in Seq(Intents)
    BY <1>8, <2>1, AppendProperties DEF ParkStops, WorkOK
  <2> QED BY <1>8, <2>2, ThreadStays DEF ParkStops, WorkOK
<1> QED BY <1>1, <1>2, <1>3, <1>4, <1>5, <1>6, <1>7, <1>8 DEF Users

-----------------------------------------------------------------------------
(* Sends and the agent.                                                     *)

(* Any failure that is read or recorded.                                    *)
LEMMA FailureKinds ==
  ASSUME WorkOK, NEW n, NEW status, FailureMishaps(n) \/ RecordMishaps(n, status)
  PROVE  asked' \in Asked
<1>1. CASE FailureMishaps(n)
  BY <1>1, AskedTypes DEF FailureMishaps, Kinds
<1>2. CASE RecordMishaps(n, status)
  BY <1>2, AskedTypes DEF RecordMishaps, Kinds
<1> QED BY <1>1, <1>2

(* What a forked sendTurn does.                                             *)
LEMMA SendSteps ==
  ASSUME WorkOK, OutputOK, TypeOK, NEW n \in Starts,
         \/ SendRoutes(n) \/ SendRecovers(n) \/ SendOpens(n) \/ SendEnds(n)
         \/ SendFailureReads(n) \/ SendFailureSets(n)
  PROVE  WorkOK' /\ ThreadMoves
<1>1. CASE SendRoutes(n)
  <2>1. asked' \in Asked
    BY <1>1, AskedTypes DEF SendRoutes, Kinds
  <2>2. sends' \in [Starts -> SendStates]
    <3>1. CASE agent.alive
      <4> DEFINE steers == InFlight # {} /\ agent.turn # NoTurn
      <4>1. sends' = [sends EXCEPT ![n] = [stage |-> "begun", steers |-> steers,
                                           turn |-> IF steers THEN agent.turn ELSE n]]
        BY <1>1, <3>1 DEF SendRoutes
      <4>2. steers \in BOOLEAN
        OBVIOUS
      <4>3. agent.turn \in TurnIds /\ n \in TurnIds
        BY StartsAreTurns DEF WorkOK, Agents
      <4>4. ASSUME NEW held \in BOOLEAN
            PROVE  [sends EXCEPT ![n] = [stage |-> "begun", steers |-> held,
                                         turn |-> IF held THEN agent.turn ELSE n]]
                      \in [Starts -> SendStates]
        BY <4>3 DEF WorkOK, SendStates, Stages
      <4> QED BY <4>1, <4>2, <4>4, Zenon
    <3>2. CASE ~agent.alive
      BY <1>1, <3>2, SendStepType DEF SendRoutes, Stages
    <3> QED BY <3>1, <3>2
  <2> QED BY <1>1, <2>1, <2>2, ThreadStays DEF SendRoutes, WorkOK
<1>2. CASE SendRecovers(n)
  <2>1. asked' \in Asked
    BY <1>2, AskedTypes DEF SendRecovers, Kinds
  <2>2. sends' \in [Starts -> SendStates] /\ agent' \in Agents /\ feed' \in Seq(AgentEvents)
    <3>1. CASE AgentStarts /\ sends' = [FailedWith(InFlight) EXCEPT ![n].stage = "forked"]
      <4>1. FailedWith(InFlight) \in [Starts -> SendStates]
        BY FailedType
      <4>2. ASSUME NEW f \in [Starts -> SendStates]
            PROVE  [f EXCEPT ![n].stage = "forked"] \in [Starts -> SendStates]
        BY DEF SendStates, Stages
      <4> QED BY <3>1, <4>1, <4>2, AgentStartsType
    <3>2. CASE SendStep(n, "failed") /\ UNCHANGED <<agent, feed, asked>>
      BY <3>2, SendStepType DEF WorkOK, Stages
    <3> QED BY <1>2, <3>1, <3>2 DEF SendRecovers
  <2> QED BY <1>2, <2>1, <2>2, ThreadStays DEF SendRecovers, WorkOK
<1>3. CASE SendOpens(n)
  <2>1. sends' \in [Starts -> SendStates]
    BY <1>3, SendStepType DEF SendOpens, Stages
  <2>2. sends[n].turn \in TurnIds
    BY DEF WorkOK, SendStates
  <2>3. agent' \in Agents
    BY <1>3, <2>2 DEF SendOpens, WorkOK, Agents
  <2>4. [type |-> "turn.started", turn |-> sends[n].turn] \in AgentEvents
    BY <2>2 DEF AgentEvents
  <2>5. feed' \in Seq(AgentEvents)
    <3>1. feed \in Seq(AgentEvents)
      BY DEF WorkOK
    <3>2. \/ feed' = feed
          \/ feed' = Append(feed, [type |-> "turn.started", turn |-> sends[n].turn])
      BY <1>3 DEF SendOpens
    <3> QED BY <2>4, <3>1, <3>2, AppendProperties
  <2> QED BY <1>3, <2>1, <2>3, <2>5, ThreadStays DEF SendOpens, WorkOK
<1>4. CASE SendEnds(n)
  <2>1. sends' \in [Starts -> SendStates]
    BY <1>4, SendStepType DEF SendEnds, Stages
  <2>2. sends[n].turn \in TurnIds
    BY DEF WorkOK, SendStates
  <2>3. [type |-> "turn.completed", turn |-> sends[n].turn] \in AgentEvents
    BY <2>2 DEF AgentEvents
  <2>4. feed' \in Seq(AgentEvents)
    <3>1. feed \in Seq(AgentEvents)
      BY DEF WorkOK
    <3> DEFINE said == Message(sends[n].turn, FALSE)
               done == Append(feed, [type |-> "turn.completed", turn |-> sends[n].turn])
    <3>2. sends[n].turn \in Turns
      BY <1>4 DEF SendEnds, OutputOK
    <3>3. said \in AgentEvents
      BY <3>2 DEF Message, AgentEvents
    <3>4. done \in Seq(AgentEvents)
      BY <2>3, <3>1, AppendProperties
    <3>5. feed' = feed \/ feed' = done \o <<>> \/ feed' = done \o <<said>>
      BY <1>4, Zenon DEF SendEnds
    <3> HIDE DEF said, done
    <3>6. <<>> \in Seq(AgentEvents) /\ <<said>> \in Seq(AgentEvents)
      BY <3>3
    <3> QED BY <3>1, <3>4, <3>5, <3>6, ConcatProperties
  <2> QED BY <1>4, <2>1, <2>4, ThreadStays DEF SendEnds, WorkOK
<1>5. CASE SendFailureReads(n)
  <2>1. sends' \in [Starts -> SendStates]
    BY <1>5, SendStepType DEF SendFailureReads, Stages
  <2>2. asked' \in Asked
    BY <1>5, FailureKinds DEF SendFailureReads
  <2> QED BY <1>5, <2>1, <2>2, ThreadStays DEF SendFailureReads, WorkOK
<1>6. CASE SendFailureSets(n)
  <2>1. sends' \in [Starts -> SendStates]
    BY <1>6, SendStepType DEF SendFailureSets, Stages
  <2>2. asked' \in Asked
    BY <1>6, FailureKinds DEF SendFailureSets
  <2>3. WorkOK'
    BY <1>6, <2>1, <2>2 DEF SendFailureSets, WorkOK
  <2>4. PICK newer \in BOOLEAN :
          SetSession(IF sends[n].stage = "set error" THEN "error" ELSE "stopped", NoTurn, newer)
    BY <1>6 DEF SendFailureSets
  <2>5. (IF sends[n].stage = "set error" THEN "error" ELSE "stopped")
            \in SessionStatuses \ {"none"}
    BY DEF SessionStatuses
  <2>6. NoTurn \in TurnIds
    BY DEF TurnIds
  <2>7. ThreadMoves
    BY <2>4, <2>5, <2>6, SetsSession
  <2> QED BY <2>3, <2>7
<1> QED BY <1>1, <1>2, <1>3, <1>4, <1>5, <1>6

(* What the agent says.                                                     *)
LEMMA SpeechSteps ==
  ASSUME WorkOK, AgentSpeaks
  PROVE  WorkOK' /\ ThreadMoves
<1>1. PICK streaming \in BOOLEAN :
         /\ agent.turn # NoTurn /\ feed' = Append(feed, Message(agent.turn, streaming))
         /\ UNCHANGED <<thread, intents, reactor, sends, agent, ingest, asked>>
  BY DEF AgentSpeaks
<1>2. Message(agent.turn, streaming) \in AgentEvents
  BY <1>1 DEF Message, AgentEvents, WorkOK, Agents, TurnIds
<1>3. feed' \in Seq(AgentEvents)
  BY <1>1, <1>2, AppendProperties DEF WorkOK
<1> QED BY <1>1, <1>3, ThreadStays DEF WorkOK

(* What the agent asks and reports.                                         *)
LEMMA AgentSteps ==
  ASSUME WorkOK, AgentAsks \/ AgentReports
  PROVE  WorkOK' /\ ThreadMoves
<1>1. PICK r \in Requests :
        /\ \E stage \in {"open", "done"} : agent' = [agent EXCEPT !.asks[r] = stage]
        /\ \E type \in {"opened", "resolved"} : feed' = Append(feed, [type |-> type, request |-> r])
        /\ UNCHANGED <<thread, intents, reactor, sends, ingest, asked>>
  BY DEF AgentAsks, AgentReports
<1>2. agent' \in Agents
  <2>1. PICK stage \in {"open", "done"} : agent' = [agent EXCEPT !.asks[r] = stage]
    BY <1>1
  <2> QED BY <2>1 DEF WorkOK, Agents
<1>3. \A type \in {"opened", "resolved"} : [type |-> type, request |-> r] \in AgentEvents
  BY DEF AgentEvents
<1>4. feed' \in Seq(AgentEvents)
  BY <1>1, <1>3, AppendProperties DEF WorkOK
<1> QED BY <1>1, <1>2, <1>4, ThreadStays DEF WorkOK

-----------------------------------------------------------------------------
(* The reactor.                                                             *)

(* It goes on to another thing to do, though never to an answer.            *)
LEMMA GoesType ==
  ASSUME WorkOK, reactor.pc \notin {"idle", "reconcile"},
         NEW pc \in {"ensure", "bind", "failure", "record stop", "give up"},
         NEW status \in SessionStatuses,
         reactor' \in {Idle, [reactor EXCEPT !.pc = pc],
                      [reactor EXCEPT !.pc = pc, !.status = status]}
  PROVE  reactor' \in ReactorStates /\ reactor'.pc # "answer"
<1>1. reactor \in [pc : {"start", "ensure", "bind", "failure", "stop", "record stop", "interrupt",
                        "give up", "answer"},
                  intent : Intents, status : SessionStatuses, alive : BOOLEAN]
  BY DEF WorkOK, ReactorStates
<1>2. CASE reactor' = Idle
  BY <1>2 DEF Idle, ReactorStates
<1>3. CASE reactor' = [reactor EXCEPT !.pc = pc]
  BY <1>1, <1>3 DEF ReactorStates
<1>4. CASE reactor' = [reactor EXCEPT !.pc = pc, !.status = status]
  BY <1>1, <1>4 DEF ReactorStates
<1> QED BY <1>2, <1>3, <1>4

(* The reactor takes an intent.                                             *)
LEMMA TakesStep ==
  ASSUME WorkOK, TypeOK, ReactorTakes
  PROVE  WorkOK' /\ ThreadMoves
<1>1. /\ intents # <<>> /\ intents \in Seq(Intents) /\ intents' = Tail(intents)
      /\ reactor' = [pc |-> Head(intents).kind, intent |-> Head(intents),
                     status |-> rows.status, alive |-> agent.alive]
  BY DEF WorkOK, ReactorTakes
<1>2. Head(intents) \in Intents /\ Tail(intents) \in Seq(Intents)
  BY <1>1, HeadTailProperties
<1>3. rows.status \in SessionStatuses /\ agent.alive \in BOOLEAN
  BY DEF WorkOK, TypeOK, Rows, Agents
<1>4. ASSUME NEW intent \in Intents
      PROVE  /\ intent.kind \in {"start", "interrupt", "answer", "stop"}
             /\ intent.kind = "answer" => intent.request \in Requests
  BY DEF Intents
<1>5. ASSUME NEW intent \in Intents, NEW status \in SessionStatuses, NEW alive \in BOOLEAN
      PROVE  [pc |-> intent.kind, intent |-> intent, status |-> status, alive |-> alive]
                \in ReactorStates
  BY <1>4 DEF ReactorStates
<1>6. reactor' \in ReactorStates
  BY <1>1, <1>2, <1>3, <1>5
<1>7. reactor'.pc = "answer" => reactor'.intent.request \in Requests
  BY <1>1, <1>2, <1>4
<1> QED BY <1>1, <1>2, <1>6, <1>7, ThreadStays DEF WorkOK, ReactorTakes

(* A start is forked.                                                       *)
LEMMA ForkType ==
  ASSUME WorkOK, Fork
  PROVE  sends' \in [Starts -> SendStates]
  BY DEF WorkOK, Fork, SendStates, Stages

(* The steps of a start.                                                    *)
LEMMA StartSteps ==
  ASSUME WorkOK, TypeOK,
         \/ ReactorMarks \/ ReactorKeepsSession \/ ReactorStartsSession \/ ReactorBinds
         \/ ReactorStartFails \/ ReactorRecordsFailure
  PROVE  WorkOK' /\ ThreadMoves
<1>1. rows.status \in SessionStatuses
  BY DEF TypeOK, Rows
<1>2. reactor.pc \notin {"idle", "reconcile"} /\ reactor \in ReactorStates
  BY DEF WorkOK, ReactorMarks, ReactorKeepsSession, ReactorStartsSession, ReactorBinds,
     ReactorStartFails, ReactorRecordsFailure
<1>3. reactor' \in ReactorStates /\ reactor'.pc # "answer"
  <2>1. \E pc \in {"ensure", "bind", "failure"}, status \in SessionStatuses :
           reactor' \in {Idle, [reactor EXCEPT !.pc = pc],
                        [reactor EXCEPT !.pc = pc, !.status = status]}
    BY <1>1 DEF ReactorMarks, ReactorKeepsSession, ReactorStartsSession, ReactorBinds,
       ReactorStartFails, ReactorRecordsFailure, ReactorGoes
  <2> QED BY <1>2, <2>1, GoesType
<1>4. CASE ReactorMarks
  <2>1. WorkOK'
    BY <1>3, <1>4 DEF ReactorMarks, WorkOK
  <2>2. ThreadMoves
    BY <1>4, ThreadStays, ReactorSetsSession DEF ReactorMarks, SessionStatuses, Live
  <2> QED BY <2>1, <2>2
<1>5. CASE ReactorKeepsSession
  BY <1>3, <1>5, ForkType, ThreadStays DEF ReactorKeepsSession, WorkOK
<1>6. CASE ReactorStartsSession
  BY <1>3, <1>6, AgentStartsType, FailedType, ThreadStays DEF ReactorStartsSession, WorkOK
<1>7. CASE ReactorBinds
  <2>1. WorkOK'
    BY <1>3, <1>7, ForkType DEF ReactorBinds, WorkOK
  <2>2. ThreadMoves
    BY <1>7, ReactorSetsSession DEF ReactorBinds, SessionStatuses, Live
  <2> QED BY <2>1, <2>2
<1>8. CASE ReactorStartFails
  <2>1. agent' \in Agents /\ feed' \in Seq(AgentEvents) /\ sends' \in [Starts -> SendStates]
    BY <1>8, AgentStopsType DEF ReactorStartFails, WorkOK
  <2>2. asked' \in Asked
    BY <1>8, FailureKinds DEF ReactorStartFails
  <2> QED BY <1>3, <1>8, <2>1, <2>2, ThreadStays DEF ReactorStartFails, WorkOK
<1>9. CASE ReactorRecordsFailure
  <2>1. asked' \in Asked
    BY <1>9, FailureKinds DEF ReactorRecordsFailure
  <2>2. WorkOK'
    BY <1>3, <1>9, <2>1 DEF ReactorRecordsFailure, WorkOK
  <2>3. ThreadMoves
    BY <1>9, ReactorSetsSession DEF ReactorRecordsFailure, SessionStatuses
  <2> QED BY <2>2, <2>3
<1> QED BY <1>4, <1>5, <1>6, <1>7, <1>8, <1>9

(* The steps of a stop, an interrupt and an answer.                         *)
LEMMA CallSteps ==
  ASSUME WorkOK, TypeOK,
         \/ ReactorStops \/ ReactorRecordsStop \/ ReactorRecovers \/ ReactorInterrupts
         \/ ReactorInterruptFails \/ ReactorGivesUp \/ ReactorAnswers
  PROVE  WorkOK' /\ ThreadMoves
<1>1. CASE ReactorRecovers
  <2>1. asked' \in Asked
    BY <1>1, AskedTypes DEF ReactorRecovers, Kinds
  <2> QED BY <1>1, <2>1, AgentStartsType, FailedType, ThreadStays DEF ReactorRecovers, WorkOK
<1>2. ASSUME ~ReactorRecovers
      PROVE  reactor' \in ReactorStates /\ reactor'.pc # "answer"
  <2>1. \E pc \in {"record stop", "give up"} :
           reactor' \in {Idle, [reactor EXCEPT !.pc = pc]}
    BY <1>2 DEF ReactorStops, ReactorRecordsStop, ReactorInterrupts, ReactorInterruptFails,
       ReactorGivesUp, ReactorAnswers, ReactorGoes
  <2>2. reactor.pc \notin {"idle", "reconcile"} /\ rows.status \in SessionStatuses
    BY <1>2 DEF ReactorStops, ReactorRecordsStop, ReactorInterrupts, ReactorInterruptFails,
       ReactorGivesUp, ReactorAnswers, TypeOK, Rows
  <2> QED BY <2>1, <2>2, GoesType
<1>3. ASSUME ~ReactorRecovers, ReactorStops PROVE WorkOK' /\ ThreadMoves
  <2>1. agent' \in Agents /\ feed' \in Seq(AgentEvents) /\ sends' \in [Starts -> SendStates]
    BY <1>3, AgentStopsType DEF ReactorStops, WorkOK
  <2>2. asked' \in Asked
    BY <1>3, AskedTypes DEF ReactorStops, Kinds
  <2> QED BY <1>2, <1>3, <2>1, <2>2, ThreadStays DEF ReactorStops, WorkOK
<1>4. ASSUME ~ReactorRecovers, ReactorRecordsStop PROVE WorkOK' /\ ThreadMoves
  <2>1. WorkOK'
    BY <1>2, <1>4 DEF ReactorRecordsStop, WorkOK
  <2>2. ThreadMoves
    BY <1>4, ReactorSetsSession DEF ReactorRecordsStop, SessionStatuses
  <2> QED BY <2>1, <2>2
<1>5. ASSUME ~ReactorRecovers, ReactorInterrupts PROVE WorkOK' /\ ThreadMoves
  <2>1. agent' \in Agents
    <3> DEFINE cancelled == [r \in Requests |->
                 IF agent.asks[r] = "open" THEN "decided" ELSE agent.asks[r]]
    <3>1. agent' = agent \/ agent' = [agent EXCEPT !.asks = cancelled]
      BY <1>5 DEF ReactorInterrupts
    <3>2. cancelled \in [Requests -> {"none", "open", "decided", "done"}]
      BY DEF WorkOK, Agents
    <3> HIDE DEF cancelled
    <3> QED BY <3>1, <3>2 DEF WorkOK, Agents
  <2> QED BY <1>2, <1>5, <2>1, ThreadStays DEF ReactorInterrupts, WorkOK
<1>6. ASSUME ~ReactorRecovers, ReactorInterruptFails PROVE WorkOK' /\ ThreadMoves
  BY <1>2, <1>6, ThreadStays DEF ReactorInterruptFails, WorkOK
<1>7. ASSUME ~ReactorRecovers, ReactorGivesUp PROVE WorkOK' /\ ThreadMoves
  BY <1>2, <1>7, AgentStopsType, ThreadStays DEF ReactorGivesUp, WorkOK
<1>8. ASSUME ~ReactorRecovers, ReactorAnswers PROVE WorkOK' /\ ThreadMoves
  <2> DEFINE r == reactor.intent.request
  <2>1. r \in Requests
    BY <1>8 DEF ReactorAnswers, WorkOK
  <2>2. \/ UNCHANGED <<thread, agent>>
        \/ UNCHANGED thread /\ agent' = [agent EXCEPT !.asks[r] = "decided"]
        \/ AppendStaleFailure(r) /\ UNCHANGED agent
    BY <1>8 DEF ReactorAnswers
  <2> HIDE DEF r
  <2>3. agent' \in Agents
    BY <2>1, <2>2 DEF WorkOK, Agents
  <2>4. ThreadMoves
    BY <2>1, <2>2, ThreadStays DEF ThreadMoves, Next
  <2>5. WorkOK'
    BY <1>2, <1>8, <2>3 DEF ReactorAnswers, WorkOK
  <2> QED BY <2>4, <2>5
<1> QED BY <1>1, <1>3, <1>4, <1>5, <1>6, <1>7, <1>8

-----------------------------------------------------------------------------
(* The ingestion and the server.                                            *)

(* What the ingestion does.                                                 *)
LEMMA IngestSteps ==
  ASSUME WorkOK, TypeOK, Ingestion
  PROVE  WorkOK' /\ ThreadMoves
<1>1. feed \in Seq(AgentEvents) /\ ingest \in {Idle} \cup Writes /\ Idle \notin Writes
  BY DEF WorkOK, Idle, Writes
<1>2. feed # <<>> => Head(feed) \in AgentEvents /\ Tail(feed) \in Seq(AgentEvents)
  BY <1>1, HeadTailProperties
<1>3. CASE IngestReads
  <2>1. feed # <<>> /\ ingest' = Verdict(Head(feed)) /\ feed' = Tail(feed)
    BY <1>3 DEF IngestReads
  <2>2. ASSUME NEW event \in AgentEvents
        PROVE  Verdict(event) \in {Idle} \cup Writes
    <3>1. NoTurn \in TurnIds /\ rows.turn \in TurnIds
      BY DEF TypeOK, Rows, TurnIds
    <3>2. event.type \in {"turn.started", "turn.completed"} => event.turn \in TurnIds
      BY <2>2 DEF AgentEvents
    <3>3. \A status \in {"stopped", "starting", "ready", "running"} : \A turn \in TurnIds :
             [pc |-> "write", status |-> status, turn |-> turn] \in Writes
      BY DEF Writes, SessionStatuses, Live
    <3> QED BY <3>1, <3>2, <3>3 DEF Verdict
  <2>3. ingest' \in {Idle} \cup Writes
    BY <1>2, <2>1, <2>2
  <2> QED BY <1>2, <1>3, <2>1, <2>3, ThreadStays DEF IngestReads, WorkOK
<1>4. CASE IngestWrites
  <2>1. ingest \in Writes
    BY <1>1, <1>4 DEF IngestWrites, Idle
  <2>2. ingest.status \in SessionStatuses \ {"none"} /\ ingest.turn \in TurnIds
    BY <2>1 DEF Writes
  <2>3. PICK newer \in BOOLEAN : SetSession(ingest.status, ingest.turn, newer)
    BY <1>4 DEF IngestWrites
  <2>4. ThreadMoves
    BY <2>2, <2>3, SetsSession
  <2>5. WorkOK'
    BY <1>4 DEF IngestWrites, WorkOK
  <2> QED BY <2>4, <2>5
<1>5. CASE IngestAppends
  <2>1. feed # <<>>
    BY <1>5 DEF IngestAppends
  <2>2. WorkOK'
    BY <1>2, <1>5, <2>1 DEF IngestAppends, WorkOK
  <2>3. CASE /\ Head(feed).type \in {"opened", "resolved"}
             /\ AppendRequested(Head(feed).request) \/ AppendResolved(Head(feed).request)
    <3>1. ASSUME NEW event \in AgentEvents, event.type \in {"opened", "resolved"}
          PROVE  event.request \in Requests
      BY <3>1 DEF AgentEvents
    <3>2. Head(feed).request \in Requests
      BY <1>2, <2>1, <2>3, <3>1
    <3> QED BY <2>2, <2>3, <3>2 DEF ThreadMoves, Next
  <2>4. CASE /\ Head(feed).type = "message"
             /\ MessageSent(Head(feed).turn, Head(feed).streaming)
    <3>1. ASSUME NEW event \in AgentEvents, event.type = "message"
          PROVE  event.turn \in Turns /\ event.streaming \in BOOLEAN
      BY <3>1 DEF AgentEvents
    <3>2. Head(feed).turn \in Turns /\ Head(feed).streaming \in BOOLEAN
      BY <1>2, <2>1, <2>4, <3>1
    <3> QED BY <2>2, <2>4, <3>2 DEF ThreadMoves, Next
  <2> QED BY <1>5, <2>3, <2>4 DEF IngestAppends
<1> QED BY <1>3, <1>4, <1>5 DEF Ingestion

(* What the checkpoint reactor does.                                        *)
LEMMA CheckpointSteps ==
  ASSUME WorkOK, OutputOK, Checkpoints
  PROVE  WorkOK' /\ ThreadMoves
<1>1. CASE CaptureReads
  BY <1>1, ThreadStays DEF CaptureReads, WorkOK
<1>2. CASE CaptureRecords
  <2>1. capture \in Capturing
    BY <1>2 DEF CaptureRecords, OutputOK, Idle
  <2>2. capture.turn \in Turns /\ capture.status \in CheckpointStatuses \ {"none"}
    BY <2>1 DEF Capturing, CheckpointStatuses
  <2>3. asked' \in Asked
    BY <1>2, AskedTypes DEF CaptureRecords, Kinds
  <2>4. WorkOK'
    BY <1>2, <2>3 DEF CaptureRecords, WorkOK
  <2>5. ThreadMoves
    BY <1>2, <2>2, ThreadStays DEF CaptureRecords, ThreadMoves, Next
  <2> QED BY <2>4, <2>5
<1> QED BY <1>1, <1>2 DEF Checkpoints

(* Time, a restart and the reconciliation after it.                         *)
LEMMA ServerSteps ==
  ASSUME WorkOK, TimePasses \/ ServerRestarts \/ Reconcile
  PROVE  WorkOK' /\ ThreadMoves
<1>1. CASE TimePasses
  <2>1. WorkOK'
    BY <1>1 DEF TimePasses, WorkOK
  <2>2. ThreadMoves
    BY <1>1 DEF TimePasses, ThreadMoves, Next
  <2> QED BY <2>1, <2>2
<1>2. CASE ServerRestarts
  <2>1. agent' \in Agents
    <3>1. agent' = [agent EXCEPT !.alive = FALSE, !.turn = NoTurn,
                                 !.asks = [r \in Requests |->
                                     IF agent.asks[r] = "none" THEN "none" ELSE "done"]]
      BY <1>2 DEF ServerRestarts
    <3> QED BY <3>1 DEF WorkOK, Agents, TurnIds
  <2>2. sends' \in [Starts -> SendStates]
    BY <1>2 DEF ServerRestarts, NoSend, SendStates, Stages, TurnIds
  <2>3. asked' \in Asked
    <3>1. asked' = [asked EXCEPT !.restarts = @ + 1]
      BY <1>2 DEF ServerRestarts
    <3>2. ASSUME NEW a \in Asked PROVE [a EXCEPT !.restarts = @ + 1] \in Asked
      BY DEF Asked
    <3> QED BY <3>1, <3>2 DEF WorkOK
  <2>4. reactor' \in ReactorStates /\ reactor'.pc # "answer" /\ ingest' = Idle
    BY <1>2 DEF ServerRestarts, ReactorStates
  <2>5. intents' \in Seq(Intents) /\ feed' \in Seq(AgentEvents)
    BY <1>2, EmptySeq DEF ServerRestarts
  <2>6. ThreadMoves
    BY <1>2 DEF ServerRestarts, ThreadMoves, Next
  <2> QED BY <2>1, <2>2, <2>3, <2>4, <2>5, <2>6 DEF WorkOK
<1>3. CASE Reconcile
  <2>1. reactor' \in ReactorStates /\ reactor'.pc # "answer"
    BY <1>3 DEF Reconcile, Idle, ReactorStates
  <2>2. WorkOK'
    BY <1>3, <2>1 DEF Reconcile, WorkOK
  <2>3. ThreadMoves
    BY <1>3, ThreadStays, ReactorSetsSession DEF Reconcile, SessionStatuses
  <2> QED BY <2>2, <2>3
<1> QED BY <1>1, <1>2, <1>3

-----------------------------------------------------------------------------
(* The theorems.                                                            *)

(* Nothing is on its way at first.                                          *)
LEMMA WorkInit == TurnsInit => WorkOK /\ OutputOK
<1> SUFFICES ASSUME TurnsInit PROVE WorkOK /\ OutputOK
  OBVIOUS
<1>1. intents \in Seq(Intents) /\ feed \in Seq(AgentEvents)
  BY EmptySeq DEF TurnsInit
<1>2. reactor \in ReactorStates /\ reactor.pc # "answer"
  BY DEF TurnsInit, Idle, ReactorStates
<1>3. sends \in [Starts -> SendStates]
  BY DEF TurnsInit, NoSend, SendStates, Stages, TurnIds
<1>4. agent \in Agents
  BY DEF TurnsInit, Agents, TurnIds
<1>5. asked \in Asked
  BY DEF TurnsInit, Asked
<1>6. OutputOK
  BY EmptySeq DEF TurnsInit, OutputOK, NoSend
<1> QED BY <1>1, <1>2, <1>3, <1>4, <1>5, <1>6 DEF TurnsInit, WorkOK

(* What is captured is a turn that was prompted.                            *)
LEMMA CapturesType ==
  ASSUME OutputOK, NEW item \in Captures, ToCapture(item)
  PROVE  captures' \in Seq(Captures)
  BY AppendProperties DEF OutputOK, ToCapture

(* A prompt has a turn.                                                     *)
LEMMA PromptsHaveTurns ==
  ASSUME WorkOK, OutputOK, TurnsNext, NEW n \in Starts, sends'[n].stage \in {"begun", "prompted"}
  PROVE  sends'[n].turn \in Turns
<1>1. sends[n].stage \in {"begun", "prompted"} => sends[n].turn \in Turns
  BY DEF OutputOK
<1>2. sends \in [Starts -> SendStates]
  BY DEF WorkOK
<1>3. CASE UNCHANGED sends
  BY <1>1, <1>3
<1>4. ASSUME NEW m \in Starts, NEW stage \in Stages,
             sends' = [sends EXCEPT ![m].stage = stage],
             stage \in {"begun", "prompted"} => sends[m].stage = "begun"
      PROVE  sends'[n].turn \in Turns
  <2>1. m = n => sends'[n].stage = stage /\ sends'[n].turn = sends[n].turn
    BY <1>2, <1>4 DEF SendStates
  <2>2. m # n => sends'[n] = sends[n]
    BY <1>2, <1>4
  <2> QED BY <1>1, <1>4, <2>1, <2>2
<1>5. ASSUME NEW set, sends' = FailedWith(set)
      PROVE  sends'[n].turn \in Turns
  BY <1>1, <1>2, <1>5 DEF FailedWith, SendStates
<1>6. ASSUME NEW m \in Starts, Sends, SendRoutes(m)
      PROVE  sends'[n].turn \in Turns
  <2>1. CASE ~agent.alive
    BY <1>4, <1>6, <2>1 DEF SendRoutes, SendStep, Stages
  <2>2. CASE agent.alive
    <3>1. m \in Turns /\ agent.turn \in TurnIds
      BY StartsAreTurns DEF WorkOK, Agents
    <3> DEFINE steers == InFlight # {} /\ agent.turn # NoTurn
               state == [stage |-> "begun", steers |-> steers,
                         turn |-> IF steers THEN agent.turn ELSE m]
    <3>2. sends' = [sends EXCEPT ![m] = state]
      BY <1>6, <2>2, Zenon DEF SendRoutes
    <3>5. state.turn \in Turns
      BY <3>1 DEF TurnIds
    <3> HIDE DEF state
    <3>3. m = n => sends'[n] = state
      BY <1>2, <3>2
    <3>4. m # n => sends'[n] = sends[n]
      BY <1>2, <3>2
    <3> QED BY <1>1, <3>3, <3>4, <3>5
  <2> QED BY <2>1, <2>2
<1>7. ASSUME NEW m \in Starts, SendRecovers(m)
      PROVE  sends'[n].turn \in Turns
  <2>1. CASE SendStep(m, "failed")
    BY <1>4, <2>1 DEF SendStep, Stages
  <2>2. CASE sends' = [FailedWith(InFlight) EXCEPT ![m].stage = "forked"]
    <3>1. m = n => sends'[n].stage = "forked"
      BY <1>2, <2>2, FailedType DEF SendStates
    <3>2. m # n => sends'[n] = FailedWith(InFlight)[n]
      BY <1>2, <2>2, FailedType
    <3>3. FailedWith(InFlight)[n].stage \in {"begun", "prompted"} => FailedWith(InFlight)[n] = sends[n]
      BY <1>2 DEF FailedWith, SendStates
    <3> QED BY <1>1, <3>1, <3>2, <3>3
  <2> QED BY <1>7, <2>1, <2>2 DEF SendRecovers
<1>8. ASSUME NEW m \in Starts,
             SendOpens(m) \/ SendEnds(m) \/ SendFailureReads(m) \/ SendFailureSets(m)
      PROVE  sends'[n].turn \in Turns
  <2>1. \E stage \in Stages :
            /\ SendStep(m, stage)
            /\ stage \in {"begun", "prompted"} => sends[m].stage = "begun"
    BY <1>8 DEF SendOpens, SendEnds, SendFailureReads, SendFailureSets, Stages
  <2> QED BY <1>4, <2>1 DEF SendStep
<1>9. CASE Sends
  BY <1>6, <1>7, <1>8, <1>9 DEF Sends
<1>10. CASE ReactorKeepsSession \/ ReactorBinds
  <2>1. sends' = [sends EXCEPT ![reactor.intent.start].stage = "forked"]
    BY <1>10 DEF ReactorKeepsSession, ReactorBinds, Fork
  <2>2. CASE reactor.intent.start \in Starts
    BY <1>4, <2>1, <2>2 DEF Stages
  <2>3. CASE reactor.intent.start \notin Starts
    BY <1>1, <1>2, <2>1, <2>3
  <2> QED BY <2>2, <2>3
<1>11. CASE Reactor
  <2>1. UNCHANGED sends \/ sends' = FailedWith(InFlight) \/ ReactorKeepsSession \/ ReactorBinds
    BY <1>11 DEF Reactor, ReactorTakes, ReactorMarks, ReactorStartsSession, ReactorStartFails,
       ReactorRecordsFailure, ReactorStops, ReactorRecordsStop, ReactorRecovers,
       ReactorInterrupts, ReactorInterruptFails, ReactorGivesUp, ReactorAnswers, AgentStops
  <2> QED BY <1>3, <1>5, <1>10, <2>1
<1>12. CASE ServerRestarts
  BY <1>12 DEF ServerRestarts, NoSend
<1>13. CASE \/ Users \/ Ingestion \/ Checkpoints \/ AgentAsks \/ AgentReports \/ AgentSpeaks
            \/ TimePasses \/ Reconcile
  BY <1>3, <1>13 DEF Users, UserStarts, UserInterrupts, UserAnswers, UserStops, UserTidies, Calls,
     ParkReads, ParkCommand, ParkStops, Ingestion, IngestReads, IngestWrites, IngestAppends,
     Checkpoints, CaptureReads, CaptureRecords, AgentAsks, AgentReports, AgentSpeaks,
     TimePasses, Reconcile
<1> QED BY <1>9, <1>11, <1>12, <1>13 DEF TurnsNext

(* What the agent puts out keeps its kinds.                                 *)
LEMMA OutputStep ==
  ASSUME WorkOK, OutputOK, [TurnsNext]_vars
  PROVE  OutputOK'
<1>1. CASE UNCHANGED vars
  BY <1>1 DEF vars, OutputOK
<1>2. ASSUME TurnsNext, spoken' \in Nat, captures' \in Seq(Captures),
             capture' \in {Idle} \cup Capturing
      PROVE  OutputOK'
  BY <1>2, PromptsHaveTurns DEF OutputOK
<1>3. ASSUME TurnsNext, UNCHANGED records
      PROVE  OutputOK'
  BY <1>2, <1>3 DEF OutputOK, records
<1>4. ASSUME NEW n \in Starts, TurnsNext, SendEnds(n)
      PROVE  OutputOK'
  <2>1. sends[n].turn \in Turns
    BY <1>4 DEF SendEnds, OutputOK
  <2>2. \A status \in {"ready", "missing"} :
            [turn |-> sends[n].turn, status |-> status, replaces |-> FALSE] \in Captures
    BY <2>1 DEF Captures
  <2>3. captures' \in Seq(Captures)
    BY <1>4, <2>2, CapturesType DEF SendEnds, OutputOK
  <2> QED BY <1>2, <1>4, <2>3 DEF SendEnds, OutputOK
<1>5. ASSUME TurnsNext, AgentSpeaks PROVE OutputOK'
  BY <1>2, <1>5 DEF AgentSpeaks, OutputOK
<1>6. ASSUME TurnsNext, CaptureReads PROVE OutputOK'
  <2>1. Head(captures) \in Captures /\ Tail(captures) \in Seq(Captures)
    BY <1>6, HeadTailProperties DEF CaptureReads, OutputOK
  <2>2. \A item \in Captures :
            [pc |-> "record", turn |-> item.turn, status |-> item.status] \in Capturing
    BY DEF Captures, Capturing
  <2> QED BY <1>2, <1>6, <2>1, <2>2 DEF CaptureReads, OutputOK
<1>7. ASSUME TurnsNext, CaptureRecords PROVE OutputOK'
  <2>1. capture \in Capturing
    BY <1>7 DEF CaptureRecords, OutputOK, Idle
  <2>2. [turn |-> capture.turn, status |-> "ready", replaces |-> TRUE] \in Captures
    BY <2>1 DEF Captures, Capturing
  <2>3. captures' \in Seq(Captures)
    BY <1>7, <2>2, CapturesType DEF CaptureRecords, OutputOK
  <2> QED BY <1>2, <1>7, <2>3 DEF CaptureRecords, OutputOK
<1>8. ASSUME TurnsNext, ServerRestarts PROVE OutputOK'
  BY <1>2, <1>8, EmptySeq DEF ServerRestarts, OutputOK
<1>9. CASE TurnsNext
  <2>1. ASSUME NEW n \in Starts, Sends,
               \/ SendRoutes(n) \/ SendRecovers(n) \/ SendOpens(n)
               \/ SendFailureReads(n) \/ SendFailureSets(n)
        PROVE  UNCHANGED records
    BY <2>1 DEF SendRoutes, SendRecovers, SendOpens, SendFailureReads, SendFailureSets
  <2>2. Reactor => UNCHANGED records
    BY DEF Reactor, ReactorTakes, ReactorMarks, ReactorKeepsSession, ReactorStartsSession,
       ReactorBinds, ReactorStartFails,
       ReactorRecordsFailure, ReactorStops, ReactorRecordsStop, ReactorRecovers,
       ReactorInterrupts, ReactorInterruptFails, ReactorGivesUp, ReactorAnswers
  <2>3. \/ Users \/ Ingestion \/ AgentAsks \/ AgentReports \/ TimePasses \/ Reconcile
        => UNCHANGED records
    BY DEF Users, UserStarts, UserInterrupts, UserAnswers, UserStops, UserTidies, Calls,
       ParkReads, ParkCommand, ParkStops, Ingestion, IngestReads, IngestWrites, IngestAppends,
       AgentAsks, AgentReports, TimePasses, Reconcile
  <2> QED BY <1>3, <1>4, <1>5, <1>6, <1>7, <1>8, <1>9, <2>1, <2>2, <2>3
          DEF TurnsNext, Sends, Checkpoints
<1> QED BY <1>1, <1>9

(* Every step keeps the kinds and moves the thread by a command or not.     *)
LEMMA TurnsStep ==
  ASSUME WorkOK, OutputOK, TypeOK, [TurnsNext]_vars
  PROVE  WorkOK' /\ ThreadMoves
<1>1. CASE UNCHANGED vars
  <2>1. WorkOK'
    BY <1>1 DEF vars, WorkOK
  <2>2. ThreadMoves
    BY <1>1 DEF vars, ThreadMoves, aggregateVars
  <2> QED BY <2>1, <2>2
<1>2. CASE Users
  BY <1>2, UserSteps
<1>3. CASE Sends
  BY <1>3, SendSteps DEF Sends
<1>4. CASE Reactor
  BY <1>4, TakesStep, StartSteps, CallSteps DEF Reactor
<1>5. CASE Ingestion
  BY <1>5, IngestSteps
<1>6. CASE AgentAsks \/ AgentReports \/ AgentSpeaks
  BY <1>6, AgentSteps, SpeechSteps
<1>7. CASE TimePasses \/ ServerRestarts \/ Reconcile
  BY <1>7, ServerSteps
<1>8. CASE Checkpoints
  BY <1>8, CheckpointSteps
<1> QED BY <1>1, <1>2, <1>3, <1>4, <1>5, <1>6, <1>7, <1>8 DEF TurnsNext

TurnsInv == WorkOK /\ OutputOK /\ ThreadInv

(* The invariant of the thread holds over any number of messages, calls,     *)
(* mishaps and restarts.                                                    *)
LEMMA TurnsInvariant == TurnsSpec => []TurnsInv
<1>1. TurnsInit => TurnsInv
  BY WorkInit, ThreadInit DEF TurnsInit, TurnsInv
<1>2. TurnsInv /\ [TurnsNext]_vars => TurnsInv'
  <2> SUFFICES ASSUME TurnsInv, [TurnsNext]_vars PROVE TurnsInv'
    OBVIOUS
  <2>1. TypeOK /\ WorkOK /\ OutputOK /\ ThreadInv
    BY DEF TurnsInv, ThreadInv
  <2>2. WorkOK' /\ ThreadMoves
    BY <2>1, TurnsStep
  <2>3. [Next]_aggregateVars
    BY <2>2 DEF ThreadMoves
  <2> QED BY <2>1, <2>2, <2>3, ThreadStep, OutputStep DEF TurnsInv
<1> QED BY <1>1, <1>2, PTL DEF TurnsSpec

(* A turn's life, with all that reads the thread first and sets it later,    *)
(* implements a thread that is given commands in any order.                 *)
THEOREM TurnsImplementThread == TurnsSpec => Spec
<1>1. TurnsInit => Init
  BY DEF TurnsInit
<1>2. TurnsInv /\ [TurnsNext]_vars => [Next]_aggregateVars
  BY TurnsStep DEF TurnsInv, ThreadInv, ThreadMoves
<1> QED BY <1>1, <1>2, TurnsInvariant, PTL DEF TurnsSpec, Spec

(* The thread keeps its kinds.                                              *)
THEOREM TurnsTyped == TurnsSpec => []TypeOK
<1>1. TurnsInv => TypeOK
  BY DEF TurnsInv, ThreadInv
<1> QED BY <1>1, TurnsInvariant, PTL

(* A settled thread is at rest, whatever the reactor, the sends and the      *)
(* ingestion have read before.                                              *)
THEOREM TurnsSettled == TurnsSpec => []SettledIsAtRest
BY TurnsImplementThread, SettledCorrect, PTL

(* The decider and the rows differ on a request only if the user answered it *)
(* or a restart forgot it.                                                  *)
THEOREM TurnsFlags == TurnsSpec => []FlagsAgree
BY TurnsImplementThread, FlagsCorrect, PTL

-----------------------------------------------------------------------------
(* Which turn begins, and which turn is the latest.                         *)

(* The starts the user has asked for are queued, or held by the reactor, once; *)
(* none of them has been sent.                                               *)
Asks(n) == n \in Starts /\ n <= asked.starts /\ sends[n].stage = "none"
Held == {"start", "ensure", "bind", "failure"}
QueuedAt(n, i) == intents[i].kind = "start" /\ intents[i].start = n

QueueInv ==
    /\ \A i \in 1 .. Len(intents) : intents[i].kind = "start" => Asks(intents[i].start)
    /\ \A i, j \in 1 .. Len(intents) :
           intents[i].kind = "start" /\ intents[j].kind = "start"
           /\ intents[i].start = intents[j].start => i = j
    /\ reactor.pc \in Held =>
           /\ reactor.intent.kind = "start" /\ Asks(reactor.intent.start)
           /\ \A i \in 1 .. Len(intents) : ~QueuedAt(reactor.intent.start, i)
    /\ \A n \in Starts : n > asked.starts => sends[n].stage = "none"

(* A send that opens a turn opens its own, and a session is set with a turn   *)
(* only when it runs.                                                       *)
OpenedOwn == \A n \in Starts : sends[n].stage = "begun" /\ ~sends[n].steers => sends[n].turn = n
WriteRuns == ingest.pc = "write" /\ ingest.turn # NoTurn => ingest.status = "running"
TurnsBegin == OpenedOwn /\ WriteRuns

(* What the next event will find as the session's turn, if nobody clears it. *)
ShownTurn == IF ingest.pc = "write" THEN ingest.turn ELSE rows.turn

Exits(f, i, j) == \E k \in 1 .. Len(f) : i < k /\ k < j /\ f[k].type = "exited"
Closed(f, turn, j) ==
    /\ turn # NoTurn => Exits(f, 0, j)
    /\ \A i \in 1 .. Len(f) : i < j /\ f[i].type = "turn.started" => Exits(f, i, j)

(* A session that starts finds no turn of an earlier one.                   *)
FeedInv ==
    /\ \A n \in Starts : sends[n].stage \in {"begun", "prompted"} => agent.alive
    /\ \A j \in 1 .. Len(feed) : feed[j].type = "started" => Closed(feed, ShownTurn, j)
    /\ ~agent.alive /\ reactor.pc # "reconcile" => Closed(feed, ShownTurn, Len(feed) + 1)
    /\ reactor.pc = "reconcile" =>
           /\ \A n \in Starts : sends[n].stage = "none"
           /\ ingest.pc = "idle"
           /\ \A i \in 1 .. Len(feed) : feed[i].type \in {"opened", "resolved"}

-----------------------------------------------------------------------------
(* What the commands do to the turns.                                       *)

(* No turn has the id that stands for none.                                 *)
LEMMA NoTurnIsNone == NoTurn \notin Turns
  BY NoTurnAssumption

(* Nothing.                                                                 *)
Untouched ==
    /\ rows'.turns = rows.turns /\ rows'.latest = rows.latest /\ rows'.turn = rows.turn
    /\ rows'.status = rows.status /\ rows'.checkpoints = rows.checkpoints
    /\ model'.latest = model.latest /\ model'.checkpoints = model.checkpoints

SameModel(x, m) == x \in Model /\ x.latest = m.latest /\ x.checkpoints = m.checkpoints
SameRows(x, r) ==
    /\ x \in Rows /\ x.turns = r.turns /\ x.latest = r.latest
    /\ x.turn = r.turn /\ x.status = r.status /\ x.checkpoints = r.checkpoints

(* Stamps change none of it.                                                *)
LEMMA StampsUntouch ==
  ASSUME NEW m \in Model, NEW r \in Rows, NEW held \in BOOLEAN, NEW reason
  PROVE  /\ SameModel(Settled(m), m) /\ SameModel(Unsettled(m, reason), m)
         /\ SameModel(Woken(m), m) /\ SameModel(Snoozed(m, held), m)
         /\ SameModel(Archived(m, held), m)
         /\ SameRows(Settled(r), r) /\ SameRows(Unsettled(r, reason), r)
         /\ SameRows(Woken(r), r) /\ SameRows(Snoozed(r, held), r)
         /\ SameRows(Archived(r, held), r)
<1>1. /\ SameModel(Settled(m), m) /\ SameModel(Unsettled(m, reason), m)
      /\ SameModel(Snoozed(m, held), m) /\ SameModel(Archived(m, held), m)
  BY StampTypes DEF SameModel, Settled, Unsettled, Snoozed, Archived, Model
<1>2. /\ SameRows(Settled(r), r) /\ SameRows(Unsettled(r, reason), r)
      /\ SameRows(Snoozed(r, held), r) /\ SameRows(Archived(r, held), r)
  BY StampTypes DEF SameRows, Settled, Unsettled, Snoozed, Archived, Rows
<1>3. SameModel(Woken(m), m)
  BY StampTypes DEF SameModel, Woken, Unsettled, Model
<1>4. SameRows(Woken(r), r)
  BY StampTypes DEF SameRows, Woken, Unsettled, Rows
<1> QED BY <1>1, <1>2, <1>3, <1>4

(* Records that are the same in these columns.                              *)
LEMMA SameUntouched ==
  ASSUME SameModel(model', model), SameRows(rows', rows), UNCHANGED history
  PROVE  Untouched
  BY DEF SameModel, SameRows, Untouched

(* Settling, snoozing and archiving, and their opposites.                   *)
LEMMA StampsUntouched ==
  ASSUME TypeOK,
         Settle \/ Snooze \/ Unsnooze \/ Archive \/ Unarchive
         \/ (\E reason \in {"user", "activity"} : Unsettle(reason))
  PROVE  Untouched
<1>1. model \in Model /\ rows \in Rows
  BY DEF TypeOK
<1>2. CASE Settle
  <2>1. PICK m \in Model, r \in Rows : m = Settled(model) /\ r = Settled(rows)
    BY <1>1, StampTypes
  <2>2. SameModel(m, model) /\ SameRows(r, rows)
    BY <1>1, <2>1, StampsUntouch
  <2>3. SameModel(model', m) /\ SameRows(rows', r) /\ UNCHANGED history
    BY <1>2, <2>1, StampsUntouch DEF Settle
  <2>4. SameModel(model', model) /\ SameRows(rows', rows)
    BY <2>2, <2>3 DEF SameModel, SameRows
  <2> QED BY <2>3, <2>4, SameUntouched
<1>3. CASE Snooze \/ Unsnooze
  <2>1. SameModel(model', model) /\ SameRows(rows', rows) /\ UNCHANGED history
    BY <1>1, <1>3, StampsUntouch DEF Snooze, Unsnooze
  <2> QED BY <2>1, SameUntouched
<1>4. CASE Archive \/ Unarchive
  <2>1. SameModel(model', model) /\ SameRows(rows', rows) /\ UNCHANGED history
    BY <1>1, <1>4, StampsUntouch DEF Archive, Unarchive
  <2> QED BY <2>1, SameUntouched
<1>5. CASE \E reason \in {"user", "activity"} : Unsettle(reason)
  <2>1. SameModel(model', model) /\ SameRows(rows', rows) /\ UNCHANGED history
    BY <1>1, <1>5, StampsUntouch DEF Unsettle
  <2> QED BY <2>1, SameUntouched
<1> QED BY <1>2, <1>3, <1>4, <1>5

(* A start is only requested.                                               *)
LEMMA StartUntouched == ASSUME TypeOK, NEW ahead \in BOOLEAN, StartTurn(ahead) PROVE Untouched
<1>1. model \in Model /\ rows \in Rows
  BY DEF TypeOK
<1>2. PICK m \in Model, r \in Rows : m = Woken(model) /\ r = Woken(rows)
  BY <1>1, StampTypes
<1>3. PICK p \in Model, q \in Rows : p = Snoozed(m, FALSE) /\ q = Snoozed(r, FALSE)
  BY StampTypes
<1>4. /\ p.latest = model.latest /\ p.checkpoints = model.checkpoints
      /\ q.turns = rows.turns /\ q.latest = rows.latest /\ q.checkpoints = rows.checkpoints
      /\ q.turn = rows.turn /\ q.status = rows.status
  <2>1. SameModel(m, model) /\ SameRows(r, rows)
    BY <1>1, <1>2, StampsUntouch
  <2>2. SameModel(p, m) /\ SameRows(q, r)
    BY <1>3, StampsUntouch
  <2> QED BY <2>1, <2>2 DEF SameModel, SameRows
<1>5. model' = [p EXCEPT !.queued = @ \/ ahead] /\ rows' = [q EXCEPT !.pendingStart = TRUE]
      /\ history' = history
  BY <1>2, <1>3 DEF StartTurn
<1>6. model'.latest = p.latest /\ model'.checkpoints = p.checkpoints
  BY <1>5 DEF Model
<1>7. rows'.turns = q.turns /\ rows'.latest = q.latest /\ rows'.turn = q.turn
      /\ rows'.status = q.status /\ rows'.checkpoints = q.checkpoints
  BY <1>5 DEF Rows
<1> QED BY <1>4, <1>5, <1>6, <1>7 DEF Untouched

(* Requests and what becomes of them.                                       *)
LEMMA RequestsUntouched ==
  ASSUME TypeOK, NEW q \in Requests,
         Respond(q) \/ AppendRequested(q) \/ AppendResolved(q) \/ AppendStaleFailure(q)
  PROVE  Untouched
<1>1. model \in Model /\ rows \in Rows /\ history \in History
  BY DEF TypeOK
<1>2. PICK m \in Model, r \in Rows : m = Woken(model) /\ r = Woken(rows)
  BY <1>1, StampTypes
<1>3. /\ m.latest = model.latest /\ m.checkpoints = model.checkpoints
      /\ r.turns = rows.turns /\ r.latest = rows.latest /\ r.checkpoints = rows.checkpoints
      /\ r.turn = rows.turn /\ r.status = rows.status
  <2>1. SameModel(m, model) /\ SameRows(r, rows)
    BY <1>1, <1>2, StampsUntouch
  <2> QED BY <2>1 DEF SameModel, SameRows
<1>4. CASE Respond(q)
  BY <1>1, <1>4 DEF Respond, ResponseRequestedInRows, Untouched, Rows, History
<1>5. CASE AppendRequested(q)
  <2>1. model' = [m EXCEPT !.open = @ \cup {q}] /\ rows' = RequestedInRows(r, q)
        /\ history' = [history EXCEPT !.asked = @ \cup {q}]
    BY <1>2, <1>5 DEF AppendRequested
  <2> QED BY <1>1, <1>3, <2>1 DEF RequestedInRows, Untouched, Rows, Model, History
<1>6. CASE AppendResolved(q)
  BY <1>1, <1>6 DEF AppendResolved, ResolvedInRows, Untouched, Rows, Model, History
<1>7. CASE AppendStaleFailure(q)
  BY <1>1, <1>7 DEF AppendStaleFailure, StaleFailureInRows, Untouched, Rows, Model
<1> QED BY <1>4, <1>5, <1>6, <1>7

(* Time, and steps of the others.                                           *)
LEMMA GraceUntouched == ASSUME TypeOK, GraceExpires \/ UNCHANGED thread PROVE Untouched
  BY DEF TypeOK, GraceExpires, Untouched, Model, thread

(* The session is set.                                                      *)
LEMMA SessionShown ==
  ASSUME TypeOK, NEW status \in SessionStatuses, NEW turn \in Turns \cup {NoTurn},
         NEW newer \in BOOLEAN, SetSession(status, turn, newer)
  PROVE  /\ rows'.turn = turn /\ rows'.status = status
         /\ rows'.latest = IF turn = NoTurn THEN rows.latest ELSE turn
         /\ rows'.checkpoints = rows.checkpoints
         /\ \A t \in Turns : rows.turns[t] # "absent" \/ (t = turn /\ status = "running") =>
                rows'.turns[t] # "absent"
         /\ model'.latest = IF status = "running" /\ turn # NoTurn THEN turn ELSE model.latest
         /\ model'.checkpoints = model.checkpoints
<1>1. model \in Model /\ rows \in Rows
  BY DEF TypeOK
<1>2. PICK m \in Model, r \in Rows :
          /\ m = (IF status \in Live THEN Woken(model) ELSE model)
          /\ r = (IF status \in Live THEN Woken(rows) ELSE rows)
  BY <1>1, StampTypes
<1>3. /\ m.latest = model.latest /\ m.checkpoints = model.checkpoints
      /\ r.turns = rows.turns /\ r.latest = rows.latest /\ r.checkpoints = rows.checkpoints
  <2>1. status \in Live => SameModel(m, model) /\ SameRows(r, rows)
    BY <1>1, <1>2, StampsUntouch
  <2> QED BY <1>2, <2>1 DEF SameModel, SameRows
<1>4. model' = SessionSetInModel(m, status, turn, newer) /\ rows' = SessionSetInRows(r, status, turn)
  BY <1>2 DEF SetSession
<1>5. /\ model'.latest = IF status = "running" /\ turn # NoTurn THEN turn ELSE m.latest
      /\ model'.checkpoints = m.checkpoints
  BY <1>4 DEF SessionSetInModel, Model
<1>6. PICK begins \in BOOLEAN : begins = (status = "running" /\ turn # NoTurn)
  OBVIOUS
<1>7. /\ rows'.latest = IF turn = NoTurn THEN r.latest ELSE turn
      /\ rows'.turn = turn /\ rows'.status = status /\ rows'.checkpoints = r.checkpoints
      /\ \A t \in Turns : rows'.turns[t] = TurnAfter(r.turns[t], t, status, begins, turn)
  BY <1>4, <1>6 DEF SessionSetInRows, Rows
<1>8. ASSUME NEW t \in Turns, rows.turns[t] # "absent" \/ (t = turn /\ status = "running")
      PROVE  rows'.turns[t] # "absent"
  <2>1. SettledTurnState(status) # "absent"
    BY DEF SettledTurnState
  <2>2. t = turn /\ status = "running" => begins
    BY <1>6, NoTurnIsNone
  <2> QED BY <1>3, <1>7, <1>8, <2>1, <2>2 DEF TurnAfter
<1> QED BY <1>3, <1>5, <1>7, <1>8

-----------------------------------------------------------------------------
(* Feeds that grow and shrink.                                              *)

Extends(f, g) ==
    /\ Len(f) \in Nat /\ Len(g) \in Nat /\ Len(f) <= Len(g)
    /\ \A i \in 1 .. Len(f) : g[i] = f[i]

(* What is closed stays closed when events are added at the end.            *)
LEMMA ClosedExtends ==
  ASSUME NEW f, NEW g, Extends(f, g), NEW turn, NEW now \in {turn, NoTurn},
         NEW j \in 1 .. Len(f) + 1, Closed(f, turn, j)
  PROVE  Closed(g, now, j)
<1>1. ASSUME NEW i \in 0 .. Len(f), Exits(f, i, j) PROVE Exits(g, i, j)
  BY <1>1 DEF Exits, Extends
<1>2. now # NoTurn => Exits(g, 0, j)
  <2>1. now # NoTurn => Exits(f, 0, j)
    BY DEF Closed
  <2>2. 0 \in 0 .. Len(f)
    BY DEF Extends
  <2> QED BY <1>1, <2>1, <2>2
<1>3. ASSUME NEW i \in 1 .. Len(g), i < j, g[i].type = "turn.started" PROVE Exits(g, i, j)
  <2>1. i \in 1 .. Len(f) /\ i \in 0 .. Len(f)
    BY <1>3 DEF Extends
  <2>2. f[i].type = "turn.started"
    BY <1>3, <2>1 DEF Extends
  <2> QED BY <1>1, <1>3, <2>1, <2>2 DEF Closed
<1> QED BY <1>2, <1>3 DEF Closed

(* An exit closes everything before it.                                     *)
LEMMA ClosedByExit ==
  ASSUME NEW f, Len(f) \in Nat, NEW turn, NEW k \in 1 .. Len(f), f[k].type = "exited",
         NEW j \in Nat, k < j, \A i \in 1 .. Len(f) : k < i /\ i < j => f[i].type # "turn.started"
  PROVE  Closed(f, turn, j)
<1>1. 0 < k
  OBVIOUS
<1>2. Exits(f, 0, j)
  BY <1>1 DEF Exits
<1>3. ASSUME NEW i \in 1 .. Len(f), i < j, f[i].type = "turn.started" PROVE Exits(f, i, j)
  <2>1. i # k
    BY <1>3
  <2>2. i < k
    BY <1>3, <2>1
  <2> QED BY <2>2 DEF Exits
<1> QED BY <1>2, <1>3 DEF Closed

(* It stays closed as long as no turn is announced.                         *)
LEMMA ClosedFurther ==
  ASSUME NEW f, Len(f) \in Nat, NEW turn, NEW j \in Nat, NEW l \in Nat, j <= l, Closed(f, turn, j),
         \A i \in 1 .. Len(f) : j <= i /\ i < l => f[i].type # "turn.started"
  PROVE  Closed(f, turn, l)
<1>1. \A i \in 0 .. Len(f) : Exits(f, i, j) => Exits(f, i, l)
  BY DEF Exits
<1>2. ASSUME NEW i \in 1 .. Len(f), i < l, f[i].type = "turn.started" PROVE Exits(f, i, l)
  <2>1. i < j /\ i \in 0 .. Len(f)
    BY <1>2
  <2> QED BY <1>1, <1>2, <2>1 DEF Closed
<1>3. 0 \in 0 .. Len(f)
  OBVIOUS
<1> QED BY <1>1, <1>2, <1>3 DEF Closed

(* The head is read: what it shows from now on is what it began, or not.    *)
LEMMA ClosedTail ==
  ASSUME NEW f, NEW g, Len(f) \in Nat, Len(g) \in Nat, Len(f) = Len(g) + 1,
         \A i \in 1 .. Len(g) : g[i] = f[i + 1],
         NEW turn, NEW now, NEW j \in 1 .. Len(g) + 1, Closed(f, turn, j + 1),
         now # NoTurn => (now = turn /\ f[1].type # "exited") \/ f[1].type = "turn.started"
  PROVE  Closed(g, now, j)
<1>1. ASSUME NEW i \in 0 .. Len(g), Exits(f, i + 1, j + 1) PROVE Exits(g, i, j)
  <2>1. PICK k \in 1 .. Len(f) : i + 1 < k /\ k < j + 1 /\ f[k].type = "exited"
    BY <1>1 DEF Exits
  <2>2. k - 1 \in 1 .. Len(g) /\ i < k - 1 /\ k - 1 < j /\ (k - 1) + 1 = k
    BY <2>1
  <2>3. g[k - 1].type = "exited"
    BY <2>1, <2>2
  <2> QED BY <2>2, <2>3 DEF Exits
<1>2. ASSUME NEW i \in 1 .. Len(g), i < j, g[i].type = "turn.started" PROVE Exits(g, i, j)
  <2>1. i + 1 \in 1 .. Len(f) /\ i + 1 < j + 1 /\ f[i + 1].type = "turn.started" /\ i \in 0 .. Len(g)
    BY <1>2
  <2>2. Exits(f, i + 1, j + 1)
    BY <2>1 DEF Closed
  <2> QED BY <1>1, <2>1, <2>2
<1>3. ASSUME now # NoTurn PROVE Exits(g, 0, j)
  <2>1. 1 \in 1 .. Len(f) /\ 1 < j + 1 /\ 0 \in 0 .. Len(g) /\ 0 + 1 = 1
    OBVIOUS
  <2>2. CASE f[1].type = "turn.started"
    <3>1. Exits(f, 1, j + 1)
      BY <2>1, <2>2 DEF Closed
    <3> QED BY <1>1, <2>1, <3>1
  <2>3. CASE now = turn /\ f[1].type # "exited"
    <3>1. Exits(f, 0, j + 1)
      BY <1>3, <2>3 DEF Closed
    <3>2. Exits(f, 1, j + 1)
      <4>1. PICK k \in 1 .. Len(f) : 0 < k /\ k < j + 1 /\ f[k].type = "exited"
        BY <3>1 DEF Exits
      <4>2. k # 1
        BY <2>3, <4>1
      <4>3. 1 < k
        BY <4>1, <4>2
      <4> QED BY <4>1, <4>3 DEF Exits
    <3> QED BY <1>1, <2>1, <3>2
  <2> QED BY <1>3, <2>2, <2>3
<1> QED BY <1>2, <1>3 DEF Closed

(* One more event, or those of a session that ends, or begins.              *)
LEMMA AppendedFeed ==
  ASSUME NEW f \in Seq(AgentEvents), NEW e \in AgentEvents
  PROVE  /\ Extends(f, Append(f, e)) /\ Len(Append(f, e)) = Len(f) + 1
         /\ Append(f, e)[Len(f) + 1] = e
BY AppendProperties, LenProperties DEF Extends

(* Several events at the end.                                               *)
LEMMA ConcatFeed ==
  ASSUME NEW f \in Seq(AgentEvents), NEW g \in Seq(AgentEvents)
  PROVE  /\ Extends(f, f \o g) /\ Len(f \o g) = Len(f) + Len(g) /\ f \o g \in Seq(AgentEvents)
         /\ Len(g) \in Nat /\ \A i \in 1 .. Len(g) : (f \o g)[Len(f) + i] = g[i]
<1>1. f \o g \in Seq(AgentEvents) /\ Len(f \o g) = Len(f) + Len(g)
      /\ \A i \in 1 .. Len(f) + Len(g) : (f \o g)[i] = IF i <= Len(f) THEN f[i] ELSE g[i - Len(f)]
  BY ConcatProperties
<1>2. Len(f) \in Nat /\ Len(g) \in Nat
  BY LenProperties
<1>3. ASSUME NEW i \in 1 .. Len(g) PROVE (f \o g)[Len(f) + i] = g[i]
  <2>1. Len(f) + i \in 1 .. Len(f) + Len(g) /\ ~(Len(f) + i <= Len(f)) /\ (Len(f) + i) - Len(f) = i
    BY <1>2
  <2> QED BY <1>1, <2>1
<1>4. \A i \in 1 .. Len(f) : i \in 1 .. Len(f) + Len(g) /\ i <= Len(f)
  BY <1>2
<1> QED BY <1>1, <1>2, <1>3, <1>4 DEF Extends

(* What a session that ends leaves behind it.                               *)
LEMMA ExitShape ==
  ASSUME NEW reported \in SUBSET Requests
  PROVE  /\ Exit(reported) \in Seq(AgentEvents)
         /\ \A i \in 1 .. Len(Exit(reported)) : Exit(reported)[i].type \in {"resolved", "exited"}
         /\ agent.alive => /\ Len(Exit(reported)) \in Nat \ {0}
                           /\ Exit(reported)[Len(Exit(reported))].type = "exited"
         /\ ~agent.alive => Exit(reported) = <<>>
<1> DEFINE told == [type |-> "resolved", request |-> CHOOSE r \in reported : TRUE]
<1>1. Exit(reported) \in Seq(AgentEvents)
  BY ExitType
<1>2. Event("exited").type = "exited" /\ told.type = "resolved"
  BY DEF Event
<1>3. CASE ~agent.alive
  BY <1>1, <1>3 DEF Exit
<1>4. CASE agent.alive /\ reported # {}
  <2>1. Exit(reported) = <<told>> \o <<Event("exited")>>
    BY <1>4 DEF Exit
  <2>2. told \in AgentEvents /\ Event("exited") \in AgentEvents
    BY <1>4 DEF AgentEvents, Event
  <2> HIDE DEF told
  <2>3. \E p, q : /\ p = <<told>> /\ q = <<Event("exited")>>
                 /\ p \in Seq(AgentEvents) /\ q \in Seq(AgentEvents)
                 /\ Len(p) = 1 /\ Len(q) = 1 /\ p[1] = told /\ q[1] = Event("exited")
    <3>1. \A x \in AgentEvents : <<x>> \in Seq(AgentEvents) /\ Len(<<x>>) = 1 /\ <<x>>[1] = x
      OBVIOUS
    <3> QED BY <2>2, <3>1
  <2>6. PICK p, q : /\ p = <<told>> /\ q = <<Event("exited")>>
                   /\ p \in Seq(AgentEvents) /\ q \in Seq(AgentEvents)
                   /\ Len(p) = 1 /\ Len(q) = 1 /\ p[1] = told /\ q[1] = Event("exited")
    BY <2>3
  <2>4. /\ Len(p \o q) = 1 + 1
        /\ \A i \in 1 .. 1 + 1 : (p \o q)[i] = IF i <= 1 THEN p[i] ELSE q[i - 1]
    BY <2>6, ConcatProperties
  <2>5. Len(Exit(reported)) = 2 /\ Exit(reported)[1] = told /\ Exit(reported)[2] = Event("exited")
        /\ 1 .. 2 = {1, 2}
    BY <2>1, <2>6, <2>4
  <2> QED BY <1>1, <1>2, <1>4, <2>5
<1>5. CASE agent.alive /\ reported = {}
  <2>1. Exit(reported) = <<Event("exited")>>
    BY <1>5 DEF Exit
  <2>2. Len(Exit(reported)) = 1 /\ Exit(reported)[1] = Event("exited") /\ 1 .. 1 = {1}
    BY <2>1
  <2>3. Exit(reported)[1].type = "exited"
    BY <1>2, <2>2
  <2>4. \A i \in 1 .. Len(Exit(reported)) : i = 1
    BY <2>2
  <2>5. \A i \in 1 .. Len(Exit(reported)) : Exit(reported)[i].type \in {"resolved", "exited"}
    BY <2>3, <2>4
  <2> QED BY <1>1, <1>5, <2>2, <2>3, <2>5
<1> QED BY <1>3, <1>4, <1>5

-----------------------------------------------------------------------------
(* Steps that disturb none of it, or one part.                              *)

TurnsWell == QueueInv /\ TurnsBegin /\ FeedInv

(* The session keeps its turn or loses it.                                  *)
ThreadCalm == rows'.turn \in {rows.turn, NoTurn}

(* As it does by a command that touches no turn,                            *)
LEMMA UntouchedCalm == ASSUME Untouched PROVE ThreadCalm
  BY DEF Untouched, ThreadCalm

(* by one that is about a turn, not the session,                            *)
LEMMA TurnCalm ==
  ASSUME TypeOK, NEW t \in Turns,
         \/ InterruptTurn(t)
         \/ \E streaming \in BOOLEAN : MessageSent(t, streaming)
         \/ \E status \in CheckpointStatuses, newer \in BOOLEAN : TurnDiffCompleted(t, status, newer)
  PROVE  rows'.turn = rows.turn /\ rows'.status = rows.status /\ ThreadCalm
<1>1. rows \in Rows
  BY DEF TypeOK
<1>2. rows'.turn = rows.turn /\ rows'.status = rows.status
  BY <1>1 DEF InterruptTurn, MessageSent, MessageSentInRows, TurnDiffCompleted,
     TurnDiffCompletedInRows, Rows
<1> QED BY <1>2 DEF ThreadCalm

LEMMA InterruptsCalm ==
  ASSUME TypeOK, rows.turn # NoTurn, InterruptTurn(rows.turn)
  PROVE  ThreadCalm
<1>1. rows.turn \in Turns
  BY DEF TypeOK, Rows
<1> QED BY <1>1, TurnCalm

(* by a session that is set without one,                                    *)
LEMMA SessionCalm ==
  ASSUME TypeOK, NEW status \in SessionStatuses, NEW newer \in BOOLEAN,
         SetSession(status, NoTurn, newer)
  PROVE  ThreadCalm /\ rows'.turn = NoTurn
BY SessionShown DEF ThreadCalm

(* which is how the reactor sets it,                                        *)
LEMMA ReactorCalm ==
  ASSUME TypeOK, NEW status \in SessionStatuses, ReactorSets(status)
  PROVE  ThreadCalm /\ rows'.turn = NoTurn
BY SessionCalm DEF ReactorSets

(* and by a rebuilt read model.                                             *)
LEMMA RebuildCalm == ASSUME Rebuild PROVE ThreadCalm
  BY DEF Rebuild, ThreadCalm

(* Sends go on with what they have, and a send that begins a turn of its     *)
(* own has its number.                                                       *)
SendsCalm ==
    \A n \in Starts :
        /\ sends[n].stage = "none" => sends'[n].stage = "none"
        /\ sends'[n].stage \in {"forked", "recovering"} => sends[n].stage \in {"forked", "recovering"}
        /\ sends'[n].stage = "begun" /\ ~sends'[n].steers =>
               /\ sends'[n].turn = n
               /\ sends[n].stage = "forked" \/ (sends[n].stage = "begun" /\ ~sends[n].steers)

AsksThen(n) == n \in Starts /\ n <= asked'.starts /\ sends'[n].stage = "none"

(* The queue of starts, when none is added or taken.                        *)
LEMMA CalmQueue ==
  ASSUME QueueInv, SendsCalm, asked'.starts = asked.starts, intents' = intents,
         reactor'.pc \in Held => reactor.pc \in Held /\ reactor'.intent = reactor.intent
  PROVE  QueueInv'
<1>1. \A n : Asks(n) => Asks(n)'
  BY DEF Asks, SendsCalm
<1>2. \A i \in 1 .. Len(intents) : intents[i].kind = "start" => Asks(intents[i].start)'
  BY <1>1 DEF QueueInv
<1>3. reactor'.pc \in Held =>
         /\ reactor'.intent.kind = "start" /\ Asks(reactor.intent.start)'
         /\ \A i \in 1 .. Len(intents) : ~QueuedAt(reactor.intent.start, i)
  BY <1>1 DEF QueueInv
<1>4. \A n \in Starts : n > asked.starts => sends'[n].stage = "none"
  BY DEF QueueInv, SendsCalm
<1>5. \A i, j \in 1 .. Len(intents) :
         intents[i].kind = "start" /\ intents[j].kind = "start"
         /\ intents[i].start = intents[j].start => i = j
  BY DEF QueueInv
<1> QED BY <1>2, <1>3, <1>4, <1>5 DEF QueueInv, Asks, QueuedAt

(* The queue, when something else than a start is added.                    *)
LEMMA CallQueue ==
  ASSUME WorkOK, QueueInv, UNCHANGED <<sends, reactor>>, asked'.starts = asked.starts,
         NEW intent, intent.kind # "start", intents' = Append(intents, intent)
  PROVE  QueueInv'
<1>1. intents \in Seq(Intents) /\ Len(intents) \in Nat
  BY LenProperties DEF WorkOK
<1>2. /\ Len(intents') = Len(intents) + 1 /\ intents'[Len(intents) + 1] = intent
      /\ \A i \in 1 .. Len(intents) : intents'[i] = intents[i]
  <2>1. intents \in Seq(Intents \cup {intent})
    <3>1. \A i \in 1 .. Len(intents) : intents[i] \in Intents
      BY <1>1, ElementOfSeq
    <3> QED BY <1>1, <3>1
  <2>2. intent \in Intents \cup {intent}
    OBVIOUS
  <2> QED BY <2>1, <2>2, AppendProperties
<1>3. \A i \in 1 .. Len(intents') : intents'[i].kind = "start" => i \in 1 .. Len(intents)
  BY <1>1, <1>2
<1>4. \A n : Asks(n) => AsksThen(n)
  BY DEF Asks, AsksThen
<1>5. \A n, i : i \in 1 .. Len(intents') /\ QueuedAt(n, i)' => i \in 1 .. Len(intents) /\ QueuedAt(n, i)
  BY <1>2, <1>3 DEF QueuedAt
<1>6. \A i \in 1 .. Len(intents') : intents'[i].kind = "start" => AsksThen(intents'[i].start)
  BY <1>2, <1>3, <1>4 DEF QueueInv
<1>7. \A i, j \in 1 .. Len(intents') :
         intents'[i].kind = "start" /\ intents'[j].kind = "start"
         /\ intents'[i].start = intents'[j].start => i = j
  BY <1>2, <1>3 DEF QueueInv
<1>8. reactor.pc \in Held =>
         /\ reactor.intent.kind = "start" /\ AsksThen(reactor.intent.start)
         /\ \A i \in 1 .. Len(intents') : ~QueuedAt(reactor.intent.start, i)'
  BY <1>4, <1>5 DEF QueueInv
<1>9. \A n \in Starts : n > asked'.starts => sends'[n].stage = "none"
  BY DEF QueueInv
<1> QED BY <1>6, <1>7, <1>8, <1>9 DEF QueueInv, Asks, AsksThen, QueuedAt

(* No turn begins.                                                          *)
LEMMA BeginsFrame ==
  ASSUME TurnsBegin, OpenedOwn', ingest' \in {ingest, Idle}
  PROVE  TurnsBegin'
BY DEF TurnsBegin, WriteRuns, Idle

(* The events that are new in the feed.                                     *)
NewEvents(types) ==
    /\ Extends(feed, feed')
    /\ \A i \in 1 .. Len(feed') : i \notin 1 .. Len(feed) => feed'[i].type \in types

(* None.                                                                    *)
LEMMA FeedStays == ASSUME WorkOK, feed' = feed, NEW types PROVE NewEvents(types)
<1>1. Len(feed) \in Nat
  BY LenProperties DEF WorkOK
<1> QED BY <1>1 DEF Extends, NewEvents

(* One.                                                                     *)
LEMMA FeedAppended ==
  ASSUME WorkOK, NEW e \in AgentEvents, feed' = Append(feed, e), NEW types, e.type \in types
  PROVE  NewEvents(types)
<1>1. feed \in Seq(AgentEvents) /\ Len(feed) \in Nat
  BY LenProperties DEF WorkOK
<1>2. Extends(feed, feed') /\ Len(feed') = Len(feed) + 1 /\ feed'[Len(feed) + 1] = e
  BY <1>1, AppendedFeed
<1>3. \A i \in 1 .. Len(feed') : i \in 1 .. Len(feed) \/ i = Len(feed) + 1
  BY <1>1, <1>2
<1> QED BY <1>2, <1>3 DEF NewEvents

(* A turn's completion, and the end of its messages.                        *)
LEMMA FeedCompleted ==
  ASSUME WorkOK, NEW e \in AgentEvents, NEW rest \in Seq({x \in AgentEvents : x.type = "message"}),
         feed' = Append(feed, e) \o rest, NEW types, e.type \in types, "message" \in types
  PROVE  NewEvents(types)
<1>1. feed \in Seq(AgentEvents) /\ Len(feed) \in Nat
  BY LenProperties DEF WorkOK
<1>2. PICK f : f = Append(feed, e)
  OBVIOUS
<1>3. /\ f \in Seq(AgentEvents) /\ Extends(feed, f) /\ Len(f) = Len(feed) + 1
      /\ f[Len(feed) + 1] = e
  BY <1>1, <1>2, AppendedFeed, AppendProperties
<1>4. /\ rest \in Seq(AgentEvents) /\ Len(rest) \in Nat
      /\ \A i \in 1 .. Len(rest) : rest[i].type = "message"
  <2>1. \A i \in 1 .. Len(rest) : rest[i] \in {x \in AgentEvents : x.type = "message"}
    BY ElementOfSeq
  <2> QED BY <2>1, LenProperties
<1>5. /\ Extends(f, feed') /\ Len(feed') = Len(f) + Len(rest)
      /\ \A i \in 1 .. Len(rest) : feed'[Len(f) + i] = rest[i]
  BY <1>2, <1>3, <1>4, ConcatFeed
<1>6. Extends(feed, feed')
  BY <1>3, <1>5 DEF Extends
<1>7. ASSUME NEW i \in 1 .. Len(feed'), i \notin 1 .. Len(feed) PROVE feed'[i].type \in types
  <2>1. CASE i = Len(feed) + 1
    BY <1>1, <1>3, <1>5, <2>1 DEF Extends
  <2>2. CASE i # Len(feed) + 1
    <3>1. i - Len(f) \in 1 .. Len(rest) /\ Len(f) + (i - Len(f)) = i
      BY <1>1, <1>3, <1>4, <1>5, <1>7, <2>2
    <3> QED BY <1>4, <1>5, <3>1
  <2> QED BY <2>1, <2>2
<1> QED BY <1>6, <1>7 DEF NewEvents

(* Messages that follow are new.                                            *)
LEMMA MessagesFollow ==
  ASSUME NEW f \in Seq(AgentEvents), NEW rest \in Seq({x \in AgentEvents : x.type = "message"}),
         NEW g, g = f \o rest
  PROVE  Extends(f, g) /\ \A i \in 1 .. Len(g) : i \notin 1 .. Len(f) => g[i].type = "message"
<1>1. /\ rest \in Seq(AgentEvents) /\ Len(rest) \in Nat /\ Len(f) \in Nat
      /\ \A i \in 1 .. Len(rest) : rest[i].type = "message"
  <2>1. \A i \in 1 .. Len(rest) : rest[i] \in {x \in AgentEvents : x.type = "message"}
    BY ElementOfSeq
  <2> QED BY <2>1, LenProperties
<1>2. /\ Extends(f, g) /\ Len(g) = Len(f) + Len(rest)
      /\ \A i \in 1 .. Len(rest) : g[Len(f) + i] = rest[i]
  BY <1>1, ConcatFeed
<1>3. ASSUME NEW i \in 1 .. Len(g), i \notin 1 .. Len(f) PROVE g[i].type = "message"
  <2>1. i - Len(f) \in 1 .. Len(rest) /\ Len(f) + (i - Len(f)) = i
    BY <1>1, <1>2, <1>3
  <2> QED BY <1>1, <1>2, <2>1
<1> QED BY <1>2, <1>3

(* What the end of a prompt adds to the feed.                               *)
LEMMA EndsShape ==
  ASSUME WorkOK, OutputOK, NEW n \in Starts, SendEnds(n)
  PROVE  \/ /\ SendStep(n, "done") /\ LastPrompt(n)
            /\ \E e \in AgentEvents, rest \in Seq({x \in AgentEvents : x.type = "message"}) :
                   /\ e = [type |-> "turn.completed", turn |-> sends[n].turn]
                   /\ feed' = Append(feed, e) \o rest
         \/ SendStep(n, "done") /\ ~LastPrompt(n) /\ feed' = feed
         \/ SendStep(n, "failed") /\ feed' = feed
<1> DEFINE said == Message(sends[n].turn, FALSE)
           done == [type |-> "turn.completed", turn |-> sends[n].turn]
           Said == {x \in AgentEvents : x.type = "message"}
<1>1. sends[n].turn \in Turns /\ sends[n].turn \in TurnIds
  BY DEF SendEnds, OutputOK, WorkOK, SendStates
<1>2. said \in Said /\ done \in AgentEvents
  BY <1>1 DEF Message, AgentEvents
<1>3. \/ /\ SendStep(n, "done") /\ LastPrompt(n)
         /\ feed' = Append(feed, done) \o <<>> \/ feed' = Append(feed, done) \o <<said>>
      \/ SendStep(n, "done") /\ ~LastPrompt(n) /\ feed' = feed
      \/ SendStep(n, "failed") /\ feed' = feed
  BY Zenon DEF SendEnds
<1> HIDE DEF said
<1>4. <<>> \in Seq(Said) /\ <<said>> \in Seq(Said)
  BY <1>2
<1> QED BY <1>2, <1>3, <1>4

(* None of them starts a session.                                           *)
FeedGrows ==
    /\ Extends(feed, feed')
    /\ \A i \in 1 .. Len(feed') : i \notin 1 .. Len(feed) =>
           /\ feed'[i].type # "started"
           /\ feed'[i].type = "turn.started" => agent.alive
           /\ reactor.pc = "reconcile" => feed'[i].type \in {"opened", "resolved"}

(* What was closed in it stays closed.                                      *)
LEMMA CalmFeed ==
  ASSUME WorkOK, FeedInv, FeedGrows, ingest' = ingest, rows'.turn \in {rows.turn, NoTurn},
         agent'.alive = agent.alive,
         \A n \in Starts : sends'[n].stage \in {"begun", "prompted"} =>
             sends[n].stage \in {"begun", "prompted"} \/ agent.alive,
         reactor'.pc = "reconcile" <=> reactor.pc = "reconcile",
         reactor.pc = "reconcile" =>
             \A n \in Starts : sends[n].stage = "none" => sends'[n].stage = "none"
  PROVE  FeedInv'
<1>1. ShownTurn' \in {ShownTurn, NoTurn}
  BY DEF ShownTurn
<1>2. /\ Extends(feed, feed') /\ Len(feed) \in Nat /\ Len(feed') \in Nat
      /\ \A i \in 1 .. Len(feed') : i \in 1 .. Len(feed) \/
                /\ feed'[i].type # "started"
                /\ feed'[i].type = "turn.started" => agent.alive
                /\ reactor.pc = "reconcile" => feed'[i].type \in {"opened", "resolved"}
  BY DEF FeedGrows, Extends
<1>3. \A i \in 1 .. Len(feed) : feed'[i] = feed[i]
  BY <1>2 DEF Extends
<1>4. ASSUME NEW j \in 1 .. Len(feed'), feed'[j].type = "started" PROVE Closed(feed', ShownTurn', j)
  <2>1. j \in 1 .. Len(feed) /\ feed[j].type = "started" /\ j \in 1 .. Len(feed) + 1
    BY <1>2, <1>3, <1>4
  <2>2. Closed(feed, ShownTurn, j)
    BY <2>1 DEF FeedInv
  <2>3. PICK f, g, turn, now : f = feed /\ g = feed' /\ turn = ShownTurn /\ now = ShownTurn'
    OBVIOUS
  <2>4. Extends(f, g) /\ now \in {turn, NoTurn} /\ j \in 1 .. Len(f) + 1 /\ Closed(f, turn, j)
    BY <1>1, <1>2, <2>1, <2>2, <2>3
  <2>5. Closed(g, now, j)
    BY <2>4, ClosedExtends
  <2> QED BY <2>3, <2>5
<1>5. ASSUME ~agent'.alive, reactor'.pc # "reconcile" PROVE Closed(feed', ShownTurn', Len(feed') + 1)
  <2>1. Closed(feed, ShownTurn, Len(feed) + 1) /\ Len(feed) + 1 \in 1 .. Len(feed) + 1
    BY <1>2, <1>5 DEF FeedInv
  <2>2. Closed(feed', ShownTurn', Len(feed) + 1)
    BY <1>1, <1>2, <2>1, ClosedExtends
  <2>3. \A i \in 1 .. Len(feed') : Len(feed) + 1 <= i /\ i < Len(feed') + 1 => feed'[i].type # "turn.started"
    BY <1>2, <1>5
  <2>4. Len(feed) + 1 \in Nat /\ Len(feed') + 1 \in Nat /\ Len(feed) + 1 <= Len(feed') + 1
    BY <1>2 DEF Extends
  <2>5. PICK f, turn : f = feed' /\ turn = ShownTurn'
    OBVIOUS
  <2> QED BY <1>2, <2>2, <2>3, <2>4, <2>5, ClosedFurther
<1>6. reactor'.pc = "reconcile" =>
           /\ \A n \in Starts : sends'[n].stage = "none"
           /\ ingest'.pc = "idle"
           /\ \A i \in 1 .. Len(feed') : feed'[i].type \in {"opened", "resolved"}
  BY <1>2, <1>3 DEF FeedInv
<1>7. \A n \in Starts : sends'[n].stage \in {"begun", "prompted"} => agent'.alive
  BY DEF FeedInv
<1> QED BY <1>4, <1>5, <1>6, <1>7 DEF FeedInv, Closed, Exits, ShownTurn

(* Sends that stay as they are, or take a step.                             *)
SendsLive ==
    /\ OpenedOwn'
    /\ \A n \in Starts : sends'[n].stage \in {"begun", "prompted"} =>
           sends[n].stage \in {"begun", "prompted"} \/ agent.alive
    /\ reactor.pc = "reconcile" =>
           \A n \in Starts : sends[n].stage = "none" => sends'[n].stage = "none"

(* Sends that stay.                                                         *)
LEMMA SendsStay ==
  ASSUME TurnsBegin, UNCHANGED sends
  PROVE  SendsCalm /\ SendsLive
  BY DEF TurnsBegin, OpenedOwn, SendsCalm, SendsLive, OpenedOwn

(* A step of one send.                                                      *)
LEMMA SendStepped ==
  ASSUME WorkOK, NEW n \in Starts, NEW stage, SendStep(n, stage)
  PROVE  /\ sends'[n].stage = stage /\ sends'[n].turn = sends[n].turn
         /\ sends'[n].steers = sends[n].steers
         /\ \A m \in Starts : m # n => sends'[m] = sends[m]
  BY DEF WorkOK, SendStep, SendStates

(* A step to a later stage.                                                 *)
LEMMA SendStepCalm ==
  ASSUME WorkOK, TurnsBegin, NEW n \in Starts, NEW stage, SendStep(n, stage),
         sends[n].stage # "none", stage # "begun",
         stage \in {"forked", "recovering"} => sends[n].stage = "forked",
         stage = "prompted" => sends[n].stage = "begun"
  PROVE  SendsCalm /\ SendsLive
<1>1. /\ sends'[n].stage = stage /\ sends'[n].turn = sends[n].turn
      /\ sends'[n].steers = sends[n].steers
      /\ \A m \in Starts : m # n => sends'[m] = sends[m]
  BY SendStepped
<1>2. SendsCalm
  BY <1>1 DEF TurnsBegin, OpenedOwn, SendsCalm
<1>3. SendsLive
  BY <1>1 DEF TurnsBegin, SendsLive, OpenedOwn
<1> QED BY <1>2, <1>3

(* The prompts of a session that ends fail.                                 *)
LEMMA FailedCalm ==
  ASSUME WorkOK, TurnsBegin, sends' = FailedWith(InFlight)
  PROVE  SendsCalm /\ SendsLive /\ \A n \in Starts : sends'[n].stage \notin {"begun", "prompted"}
<1>1. \A n \in Starts : sends'[n] = IF n \in InFlight THEN [sends[n] EXCEPT !.stage = "failed"]
                                    ELSE sends[n]
  BY DEF FailedWith
<1>2. ASSUME NEW n \in Starts
      PROVE  /\ sends'[n].stage \notin {"begun", "prompted"}
             /\ sends[n].stage = "none" => sends'[n].stage = "none"
             /\ sends'[n].stage \in {"forked", "recovering"} => sends[n].stage \in {"forked", "recovering"}
  <2>1. CASE n \in InFlight
    <3>1. sends[n].stage \in {"begun", "prompted"}
      BY <2>1 DEF InFlight
    <3>2. sends[n] \in SendStates
      BY DEF WorkOK
    <3>3. sends'[n] = [sends[n] EXCEPT !.stage = "failed"]
      BY <1>1, <2>1
    <3> QED BY <3>1, <3>2, <3>3 DEF SendStates
  <2>2. CASE n \notin InFlight
    BY <1>1, <2>2 DEF InFlight
  <2> QED BY <2>1, <2>2
<1> QED BY <1>2 DEF SendsCalm, SendsLive, OpenedOwn

(* The feed stays or grows by events that start and end no session.         *)
QuietFeed ==
    /\ NewEvents({"opened", "resolved", "message", "turn.completed"})
    /\ reactor.pc = "reconcile" => NewEvents({"opened", "resolved"})

(* A feed that stays does.                                                  *)
LEMMA QuietStays == ASSUME WorkOK, feed' = feed PROVE QuietFeed
  BY FeedStays DEF QuietFeed

(* Such a feed starts no session.                                           *)
LEMMA QuietGrows == ASSUME QuietFeed PROVE FeedGrows
  BY DEF QuietFeed, NewEvents, FeedGrows

(* A step of somebody else.                                                 *)
LEMMA CalmStep ==
  ASSUME TurnsInv, TurnsWell, ThreadCalm, QueueInv', SendsLive, QuietFeed,
         ingest' = ingest, agent'.alive = agent.alive,
         reactor'.pc = "reconcile" <=> reactor.pc = "reconcile"
  PROVE  TurnsWell'
<1>1. WorkOK /\ TurnsBegin /\ FeedInv
  BY DEF TurnsInv, TurnsWell
<1>2. FeedGrows
  BY QuietGrows
<1>3. TurnsBegin'
  <2>1. OpenedOwn' /\ ingest' \in {ingest, Idle}
    BY DEF SendsLive
  <2> QED BY <1>1, <1>2, <2>1, BeginsFrame
<1>4. FeedInv'
  <2>1. rows'.turn \in {rows.turn, NoTurn}
    BY DEF ThreadCalm
  <2>2. /\ \A n \in Starts : sends'[n].stage \in {"begun", "prompted"} =>
               sends[n].stage \in {"begun", "prompted"} \/ agent.alive
        /\ reactor.pc = "reconcile" =>
               \A n \in Starts : sends[n].stage = "none" => sends'[n].stage = "none"
    BY DEF SendsLive
  <2> QED BY <1>1, <1>2, <2>1, <2>2, CalmFeed
<1>5. QueueInv'
  BY DEF ThreadCalm
<1> QED BY <1>3, <1>4, <1>5 DEF TurnsWell

(* The same for a step that neither queues nor takes a start.               *)
LEMMA PlainStep ==
  ASSUME TurnsInv, TurnsWell, ThreadCalm, SendsCalm, SendsLive, QuietFeed, ingest' = ingest,
         agent'.alive = agent.alive, asked'.starts = asked.starts, intents' = intents,
         reactor'.pc = "reconcile" <=> reactor.pc = "reconcile",
         reactor'.pc \in Held => reactor.pc \in Held /\ reactor'.intent = reactor.intent
  PROVE  TurnsWell'
<1>1. QueueInv'
  BY CalmQueue DEF TurnsWell
<1> QED BY <1>1, CalmStep

(* A thread left alone is calm.                                             *)
LEMMA ThreadStaysCalm == ASSUME UNCHANGED thread PROVE ThreadCalm
  BY DEF thread, ThreadCalm

(* Neither a call nor a mishap is a start.                                  *)
LEMMA MishapsStarts ==
  ASSUME WorkOK, NEW kinds, Acts \/ Mishaps(kinds) \/ UNCHANGED asked
  PROVE  asked'.starts = asked.starts
  BY DEF WorkOK, Asked, Acts, Mishaps

-----------------------------------------------------------------------------
(* Clients.                                                                 *)

(* Calls, and whatever queues no start.                                     *)
LEMMA CallStep ==
  ASSUME TurnsInv, TurnsWell, ThreadCalm, asked'.starts = asked.starts,
         UNCHANGED <<reactor, sends, agent, feed, ingest>>,
         \/ intents' = intents
         \/ \E intent : intent.kind # "start" /\ intents' = Append(intents, intent)
  PROVE  TurnsWell'
<1>1. WorkOK /\ QueueInv /\ TurnsBegin
  BY DEF TurnsInv, TurnsWell
<1>2. SendsCalm /\ SendsLive
  BY <1>1, SendsStay
<1>3. QuietFeed
  BY <1>1, QuietStays
<1>4. CASE intents' = intents
  BY <1>2, <1>3, <1>4, PlainStep
<1>5. CASE \E intent : intent.kind # "start" /\ intents' = Append(intents, intent)
  <2>1. QueueInv'
    BY <1>1, <1>5, CallQueue
  <2> QED BY <1>2, <1>3, <2>1, CalmStep
<1> QED BY <1>4, <1>5

(* Everything users and ws.ts do, but starts.                               *)
LEMMA ClientSteps ==
  ASSUME TurnsInv, TurnsWell,
         \/ UserInterrupts \/ UserAnswers \/ UserStops \/ UserTidies
         \/ ParkReads \/ ParkCommand \/ ParkStops
  PROVE  TurnsWell'
<1>1. WorkOK /\ TypeOK
  BY DEF TurnsInv, TurnsWell, ThreadInv
<1>2. CASE UserInterrupts
  <2>1. ThreadCalm
    BY <1>1, <1>2, InterruptsCalm DEF UserInterrupts
  <2>2. PICK intent : intent = [kind |-> "interrupt", turn |-> rows.turn]
    OBVIOUS
  <2>3. Calls(intent) /\ intent.kind # "start"
    BY <1>2, <2>2 DEF UserInterrupts
  <2> QED BY <1>1, <2>1, <2>3, CallStep, MishapsStarts DEF Calls
<1>3. CASE UserAnswers
  <2>1. PICK r \in Requests : Respond(r) /\ Calls([kind |-> "answer", request |-> r])
    BY <1>3 DEF UserAnswers
  <2>2. ThreadCalm
    BY <1>1, <2>1, RequestsUntouched, UntouchedCalm
  <2>3. [kind |-> "answer", request |-> r].kind # "start"
    OBVIOUS
  <2> QED BY <1>1, <2>1, <2>2, <2>3, CallStep, MishapsStarts DEF Calls
<1>4. CASE UserStops
  <2>1. Calls([kind |-> "stop"]) /\ UNCHANGED thread /\ [kind |-> "stop"].kind # "start"
    BY <1>4 DEF UserStops
  <2>2. ThreadCalm
    BY <1>1, <2>1, ThreadStaysCalm
  <2> QED BY <1>1, <2>1, <2>2, CallStep, MishapsStarts DEF Calls
<1>5. CASE UserTidies
  <2>1. Unsettle("user") \/ Snooze \/ Unarchive \/ Unsnooze
    BY <1>5 DEF UserTidies
  <2>2. ThreadCalm
    BY <1>1, <2>1, StampsUntouched, UntouchedCalm
  <2>3. asked'.starts = asked.starts
    BY <1>1, <1>5, MishapsStarts DEF UserTidies
  <2> QED BY <1>5, <2>2, <2>3, CallStep DEF UserTidies
<1>6. CASE ParkReads
  <2>1. ThreadCalm
    BY <1>1, <1>6, ThreadStaysCalm DEF ParkReads
  <2>2. asked'.starts = asked.starts
    BY <1>1, <1>6, MishapsStarts DEF ParkReads
  <2> QED BY <1>6, <2>1, <2>2, CallStep DEF ParkReads
<1>7. CASE ParkCommand
  <2>1. Settle \/ Archive \/ UNCHANGED thread
    BY <1>7 DEF ParkCommand
  <2>2. ThreadCalm
    BY <1>1, <2>1, StampsUntouched, UntouchedCalm, ThreadStaysCalm
  <2> QED BY <1>7, <2>2, CallStep DEF ParkCommand
<1>8. CASE ParkStops
  <2>1. ThreadCalm
    BY <1>1, <1>8, ThreadStaysCalm DEF ParkStops
  <2>2. [kind |-> "stop"].kind # "start"
    OBVIOUS
  <2> QED BY <1>8, <2>1, <2>2, CallStep DEF ParkStops
<1> QED BY <1>2, <1>3, <1>4, <1>5, <1>6, <1>7, <1>8

(* A start is queued under the next number.                                 *)
LEMMA StartQueue ==
  ASSUME WorkOK, QueueInv, UserStarts
  PROVE  QueueInv'
<1>1. intents \in Seq(Intents) /\ Len(intents) \in Nat /\ asked.starts \in Nat
  BY LenProperties DEF WorkOK, Asked
<1>2. PICK n \in Nat, intent \in Intents :
         /\ n = asked.starts + 1 /\ n > asked.starts
         /\ intent = [kind |-> "start", start |-> n] /\ intents' = Append(intents, intent)
         /\ asked'.starts = n
  <2>1. asked.starts + 1 \in Nat /\ asked.starts + 1 > asked.starts
    BY <1>1
  <2>2. asked'.starts = asked.starts + 1
    BY DEF UserStarts, WorkOK, Asked
  <2>3. [kind |-> "start", start |-> asked.starts + 1] \in Intents
    BY <2>1 DEF Intents
  <2> QED BY <2>1, <2>2, <2>3 DEF UserStarts
<1>3. /\ Len(intents') = Len(intents) + 1 /\ intents'[Len(intents) + 1] = intent
      /\ \A i \in 1 .. Len(intents) : intents'[i] = intents[i]
  BY <1>1, <1>2, AppendProperties
<1>4. intent.kind = "start" /\ intent.start = n
  BY <1>2
<1>5. UNCHANGED <<reactor, sends>>
  BY DEF UserStarts
<1>6. \A i \in 1 .. Len(intents) : intents[i].kind = "start" =>
          intents[i].start \in Nat /\ intents[i].start <= asked.starts
  <2>1. \A i \in 1 .. Len(intents) : intents[i] \in Intents
    BY <1>1, ElementOfSeq
  <2>2. \A x \in Intents : x.kind = "start" => x.start \in Nat
    BY DEF Intents
  <2> QED BY <2>1, <2>2 DEF QueueInv, Asks
<1>7. reactor.pc \in Held => reactor.intent.start \in Nat /\ reactor.intent.start <= asked.starts
  <2>1. reactor.pc \in Held => reactor.intent \in Intents
    BY DEF WorkOK, ReactorStates, Held
  <2>2. \A x \in Intents : x.kind = "start" => x.start \in Nat
    BY DEF Intents
  <2> QED BY <2>1, <2>2 DEF QueueInv, Asks
<1>8. \A m \in Nat : Asks(m) => AsksThen(m)
  BY <1>1, <1>2, <1>5 DEF Asks, AsksThen
<1>9. AsksThen(n)
  <2>1. n \in Starts
    BY <1>1, <1>2, TurnsAssumption DEF UserStarts, Starts
  <2>2. sends[n].stage = "none"
    BY <1>2, <2>1 DEF QueueInv
  <2> QED BY <1>2, <1>5, <2>1, <2>2 DEF AsksThen
<1>10. \A i \in 1 .. Len(intents') : i \in 1 .. Len(intents) \/ i = Len(intents) + 1
  BY <1>1, <1>3
<1>11. QueueInv'
  <2>1. \A i \in 1 .. Len(intents') : intents'[i].kind = "start" => AsksThen(intents'[i].start)
    BY <1>3, <1>4, <1>6, <1>8, <1>9, <1>10 DEF QueueInv
  <2>2. ASSUME NEW i \in 1 .. Len(intents'), NEW j \in 1 .. Len(intents'),
               intents'[i].kind = "start", intents'[j].kind = "start",
               intents'[i].start = intents'[j].start
        PROVE  i = j
    <3>1. \A k \in 1 .. Len(intents) : intents'[k].kind = "start" => intents'[k].start # n
      BY <1>1, <1>2, <1>3, <1>6
    <3>2. CASE i \in 1 .. Len(intents) /\ j \in 1 .. Len(intents)
      BY <1>3, <2>2, <3>2 DEF QueueInv
    <3>3. CASE i = Len(intents) + 1
      BY <1>3, <1>4, <1>10, <2>2, <3>1, <3>3
    <3>4. CASE j = Len(intents) + 1
      BY <1>3, <1>4, <1>10, <2>2, <3>1, <3>4
    <3> QED BY <1>10, <3>2, <3>3, <3>4
  <2>3. reactor.pc \in Held =>
           /\ reactor.intent.kind = "start" /\ AsksThen(reactor.intent.start)
           /\ \A i \in 1 .. Len(intents') : ~QueuedAt(reactor.intent.start, i)'
    <3> SUFFICES ASSUME reactor.pc \in Held
                 PROVE  /\ reactor.intent.kind = "start" /\ AsksThen(reactor.intent.start)
                        /\ \A i \in 1 .. Len(intents') : ~QueuedAt(reactor.intent.start, i)'
      OBVIOUS
    <3>1. reactor.intent.kind = "start" /\ AsksThen(reactor.intent.start)
      BY <1>7, <1>8 DEF QueueInv
    <3>2. reactor.intent.start # n
      BY <1>1, <1>2, <1>7
    <3>3. \A i \in 1 .. Len(intents') :
              ~(intents'[i].kind = "start" /\ intents'[i].start = reactor.intent.start)
      BY <1>3, <1>4, <1>10, <3>2 DEF QueueInv, QueuedAt
    <3> QED BY <1>5, <3>1, <3>3 DEF QueuedAt
  <2>4. \A m \in Starts : m > asked'.starts => sends'[m].stage = "none"
    <3>1. \A m \in Starts : m > n => m > asked.starts
      BY <1>1, <1>2 DEF Starts
    <3> QED BY <1>2, <1>5, <3>1 DEF QueueInv
  <2> QED BY <1>5, <2>1, <2>2, <2>3, <2>4 DEF QueueInv, Asks, AsksThen, QueuedAt
<1> QED BY <1>11

(* A user starts a turn.                                                    *)
LEMMA StartStep == ASSUME TurnsInv, TurnsWell, UserStarts PROVE TurnsWell'
<1>1. WorkOK /\ TypeOK /\ QueueInv /\ TurnsBegin
  BY DEF TurnsInv, TurnsWell, ThreadInv
<1>2. PICK ahead \in BOOLEAN : StartTurn(ahead)
  BY DEF UserStarts
<1>3. ThreadCalm
  BY <1>1, <1>2, StartUntouched, UntouchedCalm
<1>4. SendsLive /\ QuietFeed /\ ingest' = ingest /\ agent' = agent /\ reactor' = reactor
  BY <1>1, SendsStay, QuietStays DEF UserStarts
<1> QED BY <1>1, <1>3, <1>4, StartQueue, CalmStep

-----------------------------------------------------------------------------
(* The reactor.                                                             *)

(* A reactor that holds a start has reconciled the sessions.                *)
LEMMA ReactorPlace == reactor.pc \in Held => reactor.pc # "reconcile"
  BY DEF Held

(* It takes an intent.                                                      *)
LEMMA TakesQueue ==
  ASSUME WorkOK, QueueInv, ReactorTakes
  PROVE  QueueInv'
<1>1. /\ intents # <<>> /\ intents \in Seq(Intents) /\ intents' = Tail(intents)
      /\ reactor' = [pc |-> Head(intents).kind, intent |-> Head(intents),
                     status |-> rows.status, alive |-> agent.alive]
      /\ reactor.pc = "idle"
  BY DEF WorkOK, ReactorTakes
<1>2. /\ Len(intents) \in Nat \ {0} /\ Len(intents') = Len(intents) - 1
      /\ Head(intents) = intents[1] /\ intents[1] \in Intents
      /\ \A i \in 1 .. Len(intents') : intents'[i] = intents[i + 1]
  <2>1. Len(intents) \in Nat /\ Len(intents) # 0
    BY <1>1, LenProperties, EmptySeq
  <2>2. intents[1] \in Intents
    BY <1>1, <2>1, ElementOfSeq
  <2> QED BY <1>1, <2>1, <2>2, HeadTailProperties
<1>3. PICK head \in Intents : head = intents[1]
  BY <1>2
<1>4. reactor'.pc = head.kind /\ reactor'.intent = head
  BY <1>1, <1>2, <1>3
<1>5. head.kind \in Held <=> head.kind = "start"
  BY DEF Intents, Held
<1>6. UNCHANGED <<sends, asked>>
  BY DEF ReactorTakes
<1>7. \A m : Asks(m) <=> AsksThen(m)
  BY <1>6 DEF Asks, AsksThen
<1>8. \A i \in 1 .. Len(intents') : i + 1 \in 1 .. Len(intents) /\ i + 1 # 1
  BY <1>2
<1>9. 1 \in 1 .. Len(intents)
  BY <1>2
<1>10. QueueInv'
  <2>1. \A i \in 1 .. Len(intents') : intents'[i].kind = "start" => AsksThen(intents'[i].start)
    BY <1>2, <1>7, <1>8 DEF QueueInv
  <2>2. ASSUME NEW i \in 1 .. Len(intents'), NEW j \in 1 .. Len(intents'),
               intents'[i].kind = "start", intents'[j].kind = "start",
               intents'[i].start = intents'[j].start
        PROVE  i = j
    <3>1. i + 1 = j + 1
      BY <1>2, <1>8, <2>2 DEF QueueInv
    <3> QED BY <3>1
  <2>3. head.kind = "start" =>
           /\ AsksThen(head.start)
           /\ \A i \in 1 .. Len(intents') :
                 ~(intents'[i].kind = "start" /\ intents'[i].start = head.start)
    BY <1>2, <1>3, <1>7, <1>8, <1>9 DEF QueueInv
  <2>4. \A m \in Starts : m > asked'.starts => sends'[m].stage = "none"
    BY <1>6 DEF QueueInv
  <2> QED BY <1>4, <1>5, <2>1, <2>2, <2>3, <2>4 DEF QueueInv, Asks, AsksThen, QueuedAt
<1> QED BY <1>10

(* The reactor takes an intent: a start is no longer queued, but held.      *)
LEMMA TakeStep == ASSUME TurnsInv, TurnsWell, ReactorTakes PROVE TurnsWell'
<1>1. WorkOK /\ TypeOK /\ QueueInv /\ TurnsBegin
  BY DEF TurnsInv, TurnsWell, ThreadInv
<1>2. ThreadCalm
  BY <1>1, ThreadStaysCalm DEF ReactorTakes
<1>3. SendsLive /\ QuietFeed /\ ingest' = ingest /\ agent' = agent
  BY <1>1, SendsStay, QuietStays DEF ReactorTakes
<1>4. reactor'.pc # "reconcile" /\ reactor.pc # "reconcile"
  <2>1. intents # <<>> /\ intents \in Seq(Intents) /\ reactor.pc = "idle"
    BY <1>1 DEF WorkOK, ReactorTakes
  <2>2. Head(intents) \in Intents
    BY <2>1, HeadTailProperties
  <2>3. reactor'.pc = Head(intents).kind
    BY DEF ReactorTakes
  <2>4. \A x \in Intents : x.kind # "reconcile"
    BY DEF Intents
  <2> QED BY <2>1, <2>2, <2>3, <2>4
<1> QED BY <1>1, <1>2, <1>3, <1>4, TakesQueue, CalmStep

(* The start it holds is forked.                                            *)
LEMMA ForkQueue ==
  ASSUME WorkOK, QueueInv, TurnsBegin, reactor.pc \in Held, Fork, reactor' = Idle,
         UNCHANGED <<intents, asked>>
  PROVE  QueueInv' /\ SendsLive
<1>1. PICK n : n = reactor.intent.start
  OBVIOUS
<1>2. Asks(n) /\ (\A i \in 1 .. Len(intents) : ~QueuedAt(n, i))
  BY <1>1 DEF QueueInv
<1>3. \A m \in Starts : /\ m # n => sends'[m] = sends[m]
                        /\ m = n => sends'[m].stage = "forked" /\ sends[m].stage = "none"
  BY <1>1, <1>2 DEF Fork, WorkOK, SendStates, Asks
<1>4. \A m : m # n /\ Asks(m) => AsksThen(m)
  BY <1>3 DEF Asks, AsksThen
<1>5. reactor'.pc \notin Held
  BY DEF Idle, Held
<1>6. QueueInv'
  <2>1. \A i \in 1 .. Len(intents) : intents[i].kind = "start" => AsksThen(intents[i].start)
    BY <1>2, <1>4 DEF QueueInv, QueuedAt
  <2>2. \A i, j \in 1 .. Len(intents) :
           intents[i].kind = "start" /\ intents[j].kind = "start"
           /\ intents[i].start = intents[j].start => i = j
    BY DEF QueueInv
  <2>3. ASSUME NEW m \in Starts, m > asked.starts PROVE sends'[m].stage = "none"
    <3>1. n \in Starts => ~(n > asked.starts)
      BY <1>2 DEF Asks, WorkOK, Asked, Starts
    <3>2. m # n
      BY <2>3, <3>1
    <3> QED BY <1>3, <2>3, <3>2 DEF QueueInv
  <2> QED BY <1>5, <2>1, <2>2, <2>3 DEF QueueInv, Asks, AsksThen
<1>7. SendsLive
  <2>1. reactor.pc # "reconcile"
    BY ReactorPlace
  <2> QED BY <1>3, <2>1 DEF SendsLive, OpenedOwn, TurnsBegin
<1> QED BY <1>6, <1>7

(* The send of a start begins.                                              *)
LEMMA ForkSteps ==
  ASSUME TurnsInv, TurnsWell, ReactorKeepsSession \/ ReactorBinds
  PROVE  TurnsWell'
<1>1. WorkOK /\ TypeOK /\ ThreadInv /\ QueueInv /\ TurnsBegin
  BY DEF TurnsInv, TurnsWell, ThreadInv
<1>2. /\ reactor.pc \in Held /\ Fork /\ reactor' = Idle
      /\ UNCHANGED <<intents, agent, feed, ingest, asked>>
  BY DEF ReactorKeepsSession, ReactorBinds, Held
<1>3. ThreadCalm
  <2>1. CASE UNCHANGED thread
    BY <1>1, <2>1, ThreadStaysCalm
  <2>2. CASE ReactorSets("starting")
    BY <1>1, <2>2, ReactorCalm DEF SessionStatuses, Live
  <2> QED BY <2>1, <2>2 DEF ReactorKeepsSession, ReactorBinds
<1>4. QueueInv' /\ SendsLive
  BY <1>1, <1>2, ForkQueue
<1>5. QuietFeed /\ reactor'.pc # "reconcile" /\ reactor.pc # "reconcile"
  BY <1>1, <1>2, ReactorPlace, QuietStays DEF Idle
<1> QED BY <1>2, <1>3, <1>4, <1>5, CalmStep

(* Steps that touch neither the sends nor the feed.                         *)
LEMMA ReactorSteps ==
  ASSUME TurnsInv, TurnsWell,
         \/ ReactorMarks \/ ReactorRecordsFailure \/ ReactorRecordsStop
         \/ ReactorInterrupts \/ ReactorInterruptFails \/ ReactorAnswers
  PROVE  TurnsWell'
<1>1. WorkOK /\ TypeOK /\ ThreadInv /\ TurnsBegin
  BY DEF TurnsInv, TurnsWell, ThreadInv
<1>2. UNCHANGED <<intents, sends, feed, ingest>>
  BY DEF ReactorMarks, ReactorRecordsFailure, ReactorRecordsStop, ReactorInterrupts,
     ReactorInterruptFails, ReactorAnswers
<1>3. asked'.starts = asked.starts
  BY <1>1, MishapsStarts DEF ReactorMarks, ReactorRecordsFailure, ReactorRecordsStop,
     ReactorInterrupts, ReactorInterruptFails, ReactorAnswers, RecordMishaps
<1>4. agent'.alive = agent.alive
  BY <1>1 DEF ReactorMarks, ReactorRecordsFailure, ReactorRecordsStop, ReactorInterrupts,
     ReactorInterruptFails, ReactorAnswers, WorkOK, Agents
<1>5. /\ reactor.pc # "reconcile" /\ reactor'.pc # "reconcile"
      /\ reactor'.pc \in Held => reactor.pc \in Held /\ reactor'.intent = reactor.intent
  <2>1. /\ reactor.pc \notin {"idle", "reconcile"}
        /\ \/ reactor' = Idle
           \/ reactor' = [reactor EXCEPT !.pc = "give up"]
           \/ reactor.pc = "start" /\ reactor' = [reactor EXCEPT !.pc = "ensure"]
    BY DEF ReactorMarks, ReactorRecordsFailure, ReactorRecordsStop, ReactorInterrupts,
       ReactorInterruptFails, ReactorAnswers, ReactorGoes
  <2>2. reactor \in [pc : {"start", "ensure", "bind", "failure", "stop", "record stop",
                          "interrupt", "give up", "answer"},
                    intent : Intents, status : SessionStatuses, alive : BOOLEAN]
    BY <1>1, <2>1 DEF WorkOK, ReactorStates
  <2>3. CASE reactor' = Idle
    BY <2>1, <2>3 DEF Idle, Held
  <2>4. CASE reactor' = [reactor EXCEPT !.pc = "give up"]
    BY <2>1, <2>2, <2>4 DEF Held
  <2>5. CASE reactor.pc = "start" /\ reactor' = [reactor EXCEPT !.pc = "ensure"]
    BY <2>1, <2>2, <2>5 DEF Held
  <2> QED BY <2>1, <2>3, <2>4, <2>5
<1>6. ThreadCalm
  <2>1. CASE UNCHANGED thread
    BY <1>1, <2>1, ThreadStaysCalm
  <2>2. CASE \E status \in SessionStatuses : ReactorSets(status)
    BY <1>1, <2>2, ReactorCalm
  <2>3. CASE \E r \in Requests : AppendStaleFailure(r)
    BY <1>1, <2>3, RequestsUntouched, UntouchedCalm
  <2>4. \A status \in {"starting", "stopped", "error"} : status \in SessionStatuses
    BY DEF SessionStatuses, Live
  <2>5. \/ UNCHANGED thread \/ ReactorSets("starting") \/ ReactorSets("stopped") \/ ReactorSets("error")
        \/ ReactorAnswers
    BY DEF ReactorMarks, ReactorRecordsFailure, ReactorRecordsStop, ReactorInterrupts,
       ReactorInterruptFails
  <2>6. CASE ReactorAnswers
    <3>1. PICK r \in Requests : r = reactor.intent.request
      BY <1>1, <2>6 DEF ReactorAnswers, WorkOK
    <3>2. UNCHANGED thread \/ AppendStaleFailure(r)
      BY <2>6, <3>1 DEF ReactorAnswers
    <3> QED BY <2>1, <2>3, <3>2
  <2> QED BY <2>1, <2>2, <2>4, <2>5, <2>6
<1>7. SendsCalm /\ SendsLive /\ QuietFeed
  BY <1>1, <1>2, SendsStay, QuietStays
<1> QED BY <1>2, <1>3, <1>4, <1>5, <1>6, <1>7, PlainStep

-----------------------------------------------------------------------------
(* Sessions that end and start.                                             *)

(* The events of a session that ends close all that came before.            *)
LEMMA ExitCloses ==
  ASSUME WorkOK, FeedInv, reactor.pc # "reconcile", NEW reported \in SUBSET Requests,
         NEW g, g = feed \o Exit(reported)
  PROVE  /\ g \in Seq(AgentEvents) /\ Extends(feed, g) /\ Closed(g, ShownTurn, Len(g) + 1)
         /\ \A i \in 1 .. Len(g) : i \in 1 .. Len(feed) \/ g[i].type \in {"resolved", "exited"}
<1>1. feed \in Seq(AgentEvents) /\ Len(feed) \in Nat
  BY LenProperties DEF WorkOK
<1>2. PICK e : e = Exit(reported)
  OBVIOUS
<1>3. /\ e \in Seq(AgentEvents)
      /\ \A i \in 1 .. Len(e) : e[i].type \in {"resolved", "exited"}
      /\ agent.alive => Len(e) \in Nat \ {0} /\ e[Len(e)].type = "exited"
      /\ ~agent.alive => e = <<>>
  BY <1>2, ExitShape
<1>4. /\ Extends(feed, g) /\ Len(g) = Len(feed) + Len(e) /\ g \in Seq(AgentEvents)
      /\ Len(e) \in Nat /\ \A i \in 1 .. Len(e) : g[Len(feed) + i] = e[i]
  BY <1>1, <1>2, <1>3, ConcatFeed
<1>5. ASSUME NEW i \in 1 .. Len(g), i \notin 1 .. Len(feed)
      PROVE  g[i].type \in {"resolved", "exited"}
  <2>1. i - Len(feed) \in 1 .. Len(e) /\ Len(feed) + (i - Len(feed)) = i
    BY <1>1, <1>4, <1>5
  <2> QED BY <1>3, <1>4, <2>1
<1>6. Closed(g, ShownTurn, Len(g) + 1)
  <2>1. PICK turn : turn = ShownTurn
    OBVIOUS
  <2>2. CASE agent.alive
    <3>1. Len(g) \in Nat /\ Len(g) \in 1 .. Len(g) /\ Len(e) \in 1 .. Len(e) /\ Len(g) + 1 \in Nat
      BY <1>1, <1>3, <1>4, <2>2
    <3>2. g[Len(g)].type = "exited"
      BY <1>3, <1>4, <2>2, <3>1
    <3>3. PICK k \in 1 .. Len(g), j \in Nat : k = Len(g) /\ j = Len(g) + 1
      BY <3>1
    <3>4. k < j /\ (\A i \in 1 .. Len(g) : k < i /\ i < j => g[i].type # "turn.started")
      BY <3>1, <3>3
    <3>5. g[k].type = "exited"
      BY <3>2, <3>3
    <3>6. Closed(g, turn, j)
      BY <3>1, <3>4, <3>5, ClosedByExit
    <3> QED BY <2>1, <3>3, <3>6
  <2>3. CASE ~agent.alive
    <3>1. Len(e) = 0 /\ Len(g) = Len(feed)
      BY <1>1, <1>3, <1>4, <2>3
    <3>2. Closed(feed, turn, Len(feed) + 1) /\ Len(feed) + 1 \in 1 .. Len(feed) + 1
      BY <1>1, <2>1, <2>3 DEF FeedInv
    <3>3. PICK f : f = feed
      OBVIOUS
    <3>4. Extends(f, g) /\ Closed(f, turn, Len(f) + 1) /\ Len(f) + 1 \in 1 .. Len(f) + 1
      BY <1>4, <3>2, <3>3
    <3>5. Closed(g, turn, Len(f) + 1)
      BY <3>4, ClosedExtends
    <3> QED BY <2>1, <3>1, <3>3, <3>5
  <2> QED BY <2>2, <2>3
<1> QED BY <1>4, <1>5, <1>6

(* Frames of such a step.                                                   *)
SessionFrame ==
    /\ UNCHANGED <<thread, intents, ingest>>
    /\ asked'.starts = asked.starts
    /\ reactor.pc # "reconcile" /\ reactor'.pc # "reconcile"
    /\ reactor'.pc \in Held => reactor.pc \in Held /\ reactor'.intent = reactor.intent

(* A session is stopped.                                                    *)
LEMMA StopStep ==
  ASSUME TurnsInv, TurnsWell, AgentStops, SessionFrame
  PROVE  TurnsWell'
<1>1. WorkOK /\ TypeOK /\ QueueInv /\ TurnsBegin /\ FeedInv
  BY DEF TurnsInv, TurnsWell, ThreadInv
<1>2. PICK reported \in {{}} \cup {{r} : r \in OpenAsks} :
        /\ feed' = feed \o Exit(reported) /\ sends' = FailedWith(InFlight)
        /\ agent' = [agent EXCEPT !.alive = FALSE, !.turn = NoTurn, !.asks = AsksCancelled]
  BY DEF AgentStops
<1>3. reported \in SUBSET Requests /\ ~agent'.alive
  BY <1>1, <1>2, ReportedType DEF WorkOK, Agents
<1>4. /\ SendsCalm /\ SendsLive
      /\ \A n \in Starts : sends'[n].stage \notin {"begun", "prompted"}
  BY <1>1, <1>2, FailedCalm
<1>5. PICK f, g, turn : f = feed /\ g = feed' /\ turn = ShownTurn
  OBVIOUS
<1>6. /\ g \in Seq(AgentEvents) /\ Extends(f, g) /\ Closed(g, turn, Len(g) + 1)
      /\ \A i \in 1 .. Len(g) : i \in 1 .. Len(f) \/ g[i].type \in {"resolved", "exited"}
  <2>1. reactor.pc # "reconcile" /\ g = feed \o Exit(reported)
    BY <1>2, <1>5 DEF SessionFrame
  <2> QED BY <1>1, <1>3, <1>5, <2>1, ExitCloses
<1>7. \A i \in 1 .. Len(f) : g[i] = f[i]
  BY <1>6 DEF Extends
<1>8. ThreadCalm
  BY <1>1, ThreadStaysCalm DEF SessionFrame
<1>9. QueueInv'
  BY <1>1, <1>4, CalmQueue DEF SessionFrame
<1>10. TurnsBegin'
  BY <1>1, <1>4, BeginsFrame DEF SendsLive, SessionFrame
<1>11. ShownTurn' = turn
  BY <1>5 DEF ShownTurn, SessionFrame, thread
<1>12. ASSUME NEW j \in 1 .. Len(g), g[j].type = "started" PROVE Closed(g, turn, j)
  <2>1. j \in 1 .. Len(f) /\ f[j].type = "started" /\ j \in 1 .. Len(f) + 1
    BY <1>6, <1>7, <1>12 DEF Extends
  <2>2. Closed(f, turn, j)
    BY <1>1, <1>5, <2>1 DEF FeedInv
  <2> QED BY <1>6, <2>1, <2>2, ClosedExtends
<1>13. FeedInv'
  <2>1. \A j \in 1 .. Len(feed') : feed'[j].type = "started" => Closed(feed', ShownTurn', j)
    BY <1>5, <1>11, <1>12
  <2>2. Closed(feed', ShownTurn', Len(feed') + 1)
    BY <1>5, <1>6, <1>11
  <2> QED BY <1>4, <2>1, <2>2 DEF FeedInv, SessionFrame, Closed, Exits, ShownTurn
<1> QED BY <1>8, <1>9, <1>10, <1>13 DEF TurnsWell, ThreadCalm

(* A session is started.                                                    *)
LEMMA NewSessionStep ==
  ASSUME TurnsInv, TurnsWell, AgentStarts, SessionFrame, SendsCalm, SendsLive
  PROVE  TurnsWell'
<1>1. WorkOK /\ TypeOK /\ QueueInv /\ TurnsBegin /\ FeedInv
  BY DEF TurnsInv, TurnsWell, ThreadInv
<1>2. PICK reported \in {{}} \cup {{r} : r \in OpenAsks} :
        /\ feed' = feed \o Exit(reported) \o <<Event("started"), Event("ready")>>
        /\ agent' = [alive |-> TRUE, bound |-> TRUE, turn |-> NoTurn, asks |-> AsksCancelled]
  BY DEF AgentStarts
<1>3. reported \in SUBSET Requests /\ agent'.alive
  BY <1>2, ReportedType
<1>4. PICK f, g, h, turn : f = feed /\ g = feed \o Exit(reported) /\ h = feed' /\ turn = ShownTurn
  OBVIOUS
<1>5. /\ g \in Seq(AgentEvents) /\ Extends(f, g) /\ Closed(g, turn, Len(g) + 1)
      /\ \A i \in 1 .. Len(g) : i \in 1 .. Len(f) \/ g[i].type \in {"resolved", "exited"}
  <2>1. reactor.pc # "reconcile"
    BY DEF SessionFrame
  <2> QED BY <1>1, <1>3, <1>4, <2>1, ExitCloses
<1>6. /\ Extends(g, h) /\ Len(h) = Len(g) + 2 /\ Len(g) \in Nat
      /\ h[Len(g) + 1].type = "started" /\ h[Len(g) + 2].type = "ready"
  <2>1. PICK s, r : s = Event("started") /\ r = Event("ready")
    OBVIOUS
  <2>2. s \in AgentEvents /\ r \in AgentEvents /\ s.type = "started" /\ r.type = "ready"
    BY <2>1 DEF Event, AgentEvents
  <2>3. PICK p : p = <<s, r>>
    OBVIOUS
  <2>4. p \in Seq(AgentEvents) /\ Len(p) = 2 /\ p[1] = s /\ p[2] = r
    BY <2>2, <2>3
  <2>5. h = g \o p
    BY <1>2, <1>4, <2>1, <2>3
  <2>6. /\ Extends(g, h) /\ Len(h) = Len(g) + Len(p)
        /\ \A i \in 1 .. Len(p) : h[Len(g) + i] = p[i]
    BY <1>5, <2>4, <2>5, ConcatFeed
  <2>7. 1 \in 1 .. Len(p) /\ 2 \in 1 .. Len(p) /\ Len(g) \in Nat
    BY <1>5, <2>4, LenProperties
  <2>8. h[Len(g) + 1] = p[1] /\ h[Len(g) + 2] = p[2]
    BY <2>6, <2>7
  <2> QED BY <2>2, <2>4, <2>6, <2>7, <2>8
<1>7. /\ \A i \in 1 .. Len(f) : g[i] = f[i] /\ i \in 1 .. Len(g)
      /\ \A i \in 1 .. Len(g) : h[i] = g[i]
  BY <1>5, <1>6 DEF Extends
<1>8. \A i \in 1 .. Len(h) : i \in 1 .. Len(g) \/ i = Len(g) + 1 \/ i = Len(g) + 2
  BY <1>6
<1>9. ThreadCalm
  BY <1>1, ThreadStaysCalm DEF SessionFrame
<1>10. QueueInv'
  BY <1>1, CalmQueue DEF SessionFrame
<1>11. TurnsBegin'
  BY <1>1, BeginsFrame DEF SendsLive, SessionFrame
<1>12. ShownTurn' = turn
  BY <1>4 DEF ShownTurn, SessionFrame, thread
<1>13. ASSUME NEW j \in 1 .. Len(h), h[j].type = "started" PROVE Closed(h, turn, j)
  <2>1. CASE j \in 1 .. Len(g)
    <3>1. j \in 1 .. Len(f) /\ f[j].type = "started" /\ j \in 1 .. Len(f) + 1
      BY <1>5, <1>7, <1>13, <2>1 DEF Extends
    <3>2. Closed(f, turn, j)
      BY <1>1, <1>4, <3>1 DEF FeedInv
    <3>3. Closed(g, turn, j) /\ j \in 1 .. Len(g) + 1
      BY <1>5, <1>6, <2>1, <3>1, <3>2, ClosedExtends
    <3> QED BY <1>6, <3>3, ClosedExtends
  <2>2. CASE j = Len(g) + 1
    <3>1. Len(g) + 1 \in 1 .. Len(g) + 1
      BY <1>6
    <3> QED BY <1>5, <1>6, <2>2, <3>1, ClosedExtends
  <2>3. CASE j = Len(g) + 2
    BY <1>6, <1>13, <2>3
  <2> QED BY <1>8, <2>1, <2>2, <2>3
<1>14. FeedInv'
  <2>1. \A j \in 1 .. Len(feed') : feed'[j].type = "started" => Closed(feed', ShownTurn', j)
    BY <1>4, <1>12, <1>13
  <2> QED BY <1>3, <2>1 DEF FeedInv, SessionFrame, Closed, Exits, ShownTurn
<1> QED BY <1>9, <1>10, <1>11, <1>14 DEF TurnsWell, ThreadCalm

(* A stop, an interrupt that fails, and a start that cannot be made.        *)
LEMMA ReactorStopSteps ==
  ASSUME TurnsInv, TurnsWell, ReactorStops \/ ReactorGivesUp \/ ReactorStartFails
  PROVE  TurnsWell'
<1>1. WorkOK /\ TypeOK /\ TurnsBegin
  BY DEF TurnsInv, TurnsWell, ThreadInv
<1>2. /\ UNCHANGED <<thread, intents, ingest>>
      /\ reactor.pc \in {"stop", "give up", "ensure"}
      /\ AgentStops \/ UNCHANGED <<sends, agent, feed>>
  BY DEF ReactorStops, ReactorGivesUp, ReactorStartFails
<1>3. asked'.starts = asked.starts
  <2>1. CASE ReactorStops
    BY <1>1, <2>1, MishapsStarts DEF ReactorStops
  <2>2. CASE ReactorGivesUp
    BY <2>2 DEF ReactorGivesUp
  <2>3. CASE ReactorStartFails
    BY <1>1, <2>3, MishapsStarts DEF ReactorStartFails, FailureMishaps
  <2> QED BY <2>1, <2>2, <2>3
<1>4. /\ reactor.pc # "reconcile" /\ reactor'.pc # "reconcile"
      /\ reactor'.pc \in Held => reactor.pc \in Held /\ reactor'.intent = reactor.intent
  <2>1. \/ reactor' = Idle
        \/ reactor' = [reactor EXCEPT !.pc = "record stop"]
        \/ /\ reactor.pc = "ensure"
           /\ reactor' = [reactor EXCEPT !.pc = "failure", !.status = rows.status]
    BY DEF ReactorStops, ReactorGivesUp, ReactorStartFails, ReactorGoes
  <2>2. reactor \in [pc : {"start", "ensure", "bind", "failure", "stop", "record stop",
                          "interrupt", "give up", "answer"},
                    intent : Intents, status : SessionStatuses, alive : BOOLEAN]
    BY <1>1, <1>2 DEF WorkOK, ReactorStates
  <2>3. CASE reactor' = Idle
    BY <1>2, <2>3 DEF Idle, Held
  <2>4. CASE reactor' = [reactor EXCEPT !.pc = "record stop"]
    BY <1>2, <2>2, <2>4 DEF Held
  <2>5. CASE /\ reactor.pc = "ensure"
             /\ reactor' = [reactor EXCEPT !.pc = "failure", !.status = rows.status]
    BY <1>2, <2>2, <2>5 DEF Held
  <2> QED BY <2>1, <2>3, <2>4, <2>5
<1>5. CASE AgentStops
  BY <1>2, <1>3, <1>4, <1>5, StopStep DEF SessionFrame
<1>6. CASE UNCHANGED <<sends, agent, feed>>
  <2>1. ThreadCalm
    BY <1>1, <1>2, ThreadStaysCalm
  <2>2. SendsCalm /\ SendsLive /\ QuietFeed
    BY <1>1, <1>6, SendsStay, QuietStays
  <2> QED BY <1>2, <1>3, <1>4, <1>6, <2>1, <2>2, PlainStep
<1> QED BY <1>2, <1>5, <1>6

(* A start, or a call that finds its session gone, makes a new one.         *)
LEMMA ReactorStartSteps ==
  ASSUME TurnsInv, TurnsWell, ReactorStartsSession \/ ReactorRecovers
  PROVE  TurnsWell'
<1>1. WorkOK /\ TurnsBegin
  BY DEF TurnsInv, TurnsWell
<1>2. /\ UNCHANGED <<thread, intents, ingest>> /\ AgentStarts
      /\ sends' = FailedWith(InFlight)
      /\ reactor.pc \in {"interrupt", "answer", "ensure"}
  BY DEF ReactorStartsSession, ReactorRecovers
<1>3. asked'.starts = asked.starts
  <2>1. CASE ReactorStartsSession
    BY <2>1 DEF ReactorStartsSession
  <2>2. CASE ReactorRecovers
    BY <1>1, <2>2, MishapsStarts DEF ReactorRecovers
  <2> QED BY <2>1, <2>2
<1>4. /\ reactor.pc # "reconcile" /\ reactor'.pc # "reconcile"
      /\ reactor'.pc \in Held => reactor.pc \in Held /\ reactor'.intent = reactor.intent
  <2>1. CASE ReactorStartsSession
    <3>1. reactor.pc = "ensure" /\ reactor' = [reactor EXCEPT !.pc = "bind"]
      BY <2>1 DEF ReactorStartsSession, ReactorGoes
    <3>2. reactor \in [pc : {"start", "ensure", "bind", "failure", "stop", "record stop",
                            "interrupt", "give up", "answer"},
                      intent : Intents, status : SessionStatuses, alive : BOOLEAN]
      BY <1>1, <3>1 DEF WorkOK, ReactorStates
    <3> QED BY <3>1, <3>2 DEF Held
  <2>2. CASE ReactorRecovers
    BY <1>2, <2>2 DEF ReactorRecovers
  <2> QED BY <2>1, <2>2
<1>5. SendsCalm /\ SendsLive
  BY <1>1, <1>2, FailedCalm
<1> QED BY <1>2, <1>3, <1>4, <1>5, NewSessionStep DEF SessionFrame

-----------------------------------------------------------------------------
(* Sends.                                                                   *)

(* A send that has begun to do something is not one from before a restart.  *)
LEMMA SendsAfter ==
  ASSUME FeedInv, NEW n \in Starts, sends[n].stage # "none"
  PROVE  reactor.pc # "reconcile"
  BY DEF FeedInv

(* A send finds the session, or recovers one, or fails.                     *)
LEMMA RoutesStep ==
  ASSUME TurnsInv, TurnsWell, NEW n \in Starts, SendRoutes(n)
  PROVE  TurnsWell'
<1>1. WorkOK /\ TypeOK /\ TurnsBegin /\ FeedInv
  BY DEF TurnsInv, TurnsWell, ThreadInv
<1>2. /\ sends[n].stage = "forked"
      /\ UNCHANGED <<thread, intents, reactor, agent, feed, ingest>>
  BY DEF SendRoutes
<1>3. ThreadCalm
  BY <1>1, <1>2, ThreadStaysCalm
<1>4. QuietFeed
  BY <1>1, <1>2, QuietStays
<1>5. asked'.starts = asked.starts
  BY <1>1, MishapsStarts DEF SendRoutes
<1>6. SendsCalm /\ SendsLive
  <2>1. CASE agent.alive
    <3>1. PICK steers, turn :
            /\ sends' = [sends EXCEPT ![n] = [stage |-> "begun", steers |-> steers, turn |-> turn]]
            /\ ~steers => turn = n
      BY <2>1 DEF SendRoutes
    <3>2. /\ sends'[n].stage = "begun" /\ sends'[n].steers = steers /\ sends'[n].turn = turn
          /\ \A m \in Starts : m # n => sends'[m] = sends[m]
      BY <1>1, <3>1 DEF WorkOK
    <3>3. SendsCalm
      BY <1>1, <1>2, <3>1, <3>2 DEF SendsCalm, TurnsBegin, OpenedOwn
    <3>4. SendsLive
      <4>1. reactor.pc # "reconcile"
        BY <1>1, <1>2, SendsAfter
      <4> QED BY <1>1, <2>1, <3>1, <3>2, <4>1 DEF SendsLive, OpenedOwn, TurnsBegin
    <3> QED BY <3>3, <3>4
  <2>2. CASE ~agent.alive
    <3>1. PICK stage \in {"recovering", "failed"} : SendStep(n, stage)
      BY <2>2 DEF SendRoutes
    <3> QED BY <1>1, <1>2, <3>1, SendStepCalm
  <2> QED BY <2>1, <2>2
<1> QED BY <1>2, <1>3, <1>4, <1>5, <1>6, PlainStep

(* A send has a session started for it.                                     *)
LEMMA RecoversStep ==
  ASSUME TurnsInv, TurnsWell, NEW n \in Starts, SendRecovers(n)
  PROVE  TurnsWell'
<1>1. WorkOK /\ TypeOK /\ TurnsBegin /\ FeedInv
  BY DEF TurnsInv, TurnsWell, ThreadInv
<1>2. sends[n].stage = "recovering" /\ UNCHANGED <<thread, intents, reactor, ingest>>
  BY DEF SendRecovers
<1>3. reactor.pc # "reconcile"
  BY <1>1, <1>2, SendsAfter
<1>4. asked'.starts = asked.starts
  BY <1>1, MishapsStarts DEF SendRecovers
<1>5. CASE AgentStarts /\ sends' = [FailedWith(InFlight) EXCEPT ![n].stage = "forked"]
  <2>1. PICK s \in [Starts -> SendStates] : s = FailedWith(InFlight)
    BY <1>1, FailedType
  <2>2. \A m \in Starts : /\ s[m].stage \notin {"begun", "prompted"}
                          /\ sends[m].stage = "none" => s[m].stage = "none"
                          /\ s[m].stage \in {"forked", "recovering"} =>
                                 sends[m].stage \in {"forked", "recovering"}
    <3>1. ASSUME NEW m \in Starts
          PROVE  s[m].stage = IF sends[m].stage \in {"begun", "prompted"} THEN "failed"
                              ELSE sends[m].stage
      BY <1>1, <2>1 DEF FailedWith, InFlight, WorkOK, SendStates
    <3> QED BY <3>1
  <2>3. /\ sends'[n].stage = "forked"
        /\ \A m \in Starts : m # n => sends'[m] = s[m]
    BY <1>5, <2>1 DEF SendStates
  <2>4. SendsCalm
    BY <1>2, <2>2, <2>3 DEF SendsCalm
  <2>5. SendsLive
    BY <1>3, <2>2, <2>3 DEF SendsLive, OpenedOwn
  <2>6. SessionFrame
    BY <1>2, <1>3, <1>4 DEF SessionFrame
  <2> QED BY <1>5, <2>4, <2>5, <2>6, NewSessionStep
<1>6. CASE SendStep(n, "failed") /\ UNCHANGED <<agent, feed>>
  <2>1. SendsCalm /\ SendsLive
    BY <1>1, <1>2, <1>6, SendStepCalm
  <2>2. ThreadCalm /\ QuietFeed
    BY <1>1, <1>2, <1>6, ThreadStaysCalm, QuietStays
  <2> QED BY <1>2, <1>4, <1>6, <2>1, <2>2, PlainStep
<1> QED BY <1>5, <1>6 DEF SendRecovers

(* Prompts that end, and failures that are read and recorded.               *)
LEMMA SendEndSteps ==
  ASSUME TurnsInv, TurnsWell, NEW n \in Starts,
         SendEnds(n) \/ SendFailureReads(n) \/ SendFailureSets(n)
  PROVE  TurnsWell'
<1>1. WorkOK /\ OutputOK /\ TypeOK /\ ThreadInv /\ TurnsBegin /\ FeedInv
  BY DEF TurnsInv, TurnsWell, ThreadInv
<1>2. /\ sends[n].stage \in {"prompted", "failed", "set stopped", "set error"}
      /\ UNCHANGED <<intents, reactor, agent, ingest>>
  BY DEF SendEnds, SendFailureReads, SendFailureSets
<1>3. reactor.pc # "reconcile"
  BY <1>1, <1>2, SendsAfter
<1>4. SendsCalm /\ SendsLive
  <2>1. PICK stage \in {"done", "failed", "set stopped", "set error"} : SendStep(n, stage)
    BY DEF SendEnds, SendFailureReads, SendFailureSets
  <2> QED BY <1>1, <1>2, <2>1, SendStepCalm
<1>5. asked'.starts = asked.starts
  BY <1>1, MishapsStarts DEF SendEnds, SendFailureReads, SendFailureSets, FailureMishaps, RecordMishaps
<1>6. ThreadCalm
  <2>1. CASE UNCHANGED thread
    BY <1>1, <2>1, ThreadStaysCalm
  <2>2. CASE SendFailureSets(n)
    <3>1. PICK status \in SessionStatuses, newer \in BOOLEAN : SetSession(status, NoTurn, newer)
      BY <2>2 DEF SendFailureSets, SessionStatuses
    <3> QED BY <1>1, <3>1, SessionCalm
  <2> QED BY <2>1, <2>2 DEF SendEnds, SendFailureReads
<1>7. QuietFeed
  <2>1. CASE feed' = feed
    BY <1>1, <2>1, QuietStays
  <2>2. CASE SendEnds(n) /\ feed' # feed
    <3>1. PICK e \in AgentEvents, rest \in Seq({x \in AgentEvents : x.type = "message"}) :
             /\ e = [type |-> "turn.completed", turn |-> sends[n].turn]
             /\ feed' = Append(feed, e) \o rest
      BY <1>1, <2>2, EndsShape
    <3>2. NewEvents({"opened", "resolved", "message", "turn.completed"})
      BY <1>1, <3>1, FeedCompleted
    <3> QED BY <1>3, <3>2 DEF QuietFeed
  <2> QED BY <2>1, <2>2 DEF SendFailureReads, SendFailureSets
<1> QED BY <1>2, <1>4, <1>5, <1>6, <1>7, PlainStep

(* What the agent asks and reports.                                         *)
LEMMA AgentWell ==
  ASSUME TurnsInv, TurnsWell, AgentAsks \/ AgentReports
  PROVE  TurnsWell'
<1>1. WorkOK /\ TypeOK /\ TurnsBegin
  BY DEF TurnsInv, TurnsWell, ThreadInv
<1>2. PICK r \in Requests :
        /\ \E stage \in {"open", "done"} : agent' = [agent EXCEPT !.asks[r] = stage]
        /\ \E type \in {"opened", "resolved"} : feed' = Append(feed, [type |-> type, request |-> r])
        /\ UNCHANGED <<thread, intents, reactor, sends, ingest, asked>>
  BY DEF AgentAsks, AgentReports
<1>3. agent'.alive = agent.alive
  BY <1>1, <1>2 DEF WorkOK, Agents
<1>4. QuietFeed
  <2>1. PICK type \in {"opened", "resolved"} : feed' = Append(feed, [type |-> type, request |-> r])
    BY <1>2
  <2>2. PICK e \in AgentEvents : e.type = type /\ feed' = Append(feed, e)
    BY <2>1 DEF AgentEvents
  <2> QED BY <1>1, <2>2, FeedAppended DEF QuietFeed
<1>5. ThreadCalm /\ SendsCalm /\ SendsLive
  BY <1>1, <1>2, ThreadStaysCalm, SendsStay
<1> QED BY <1>2, <1>3, <1>4, <1>5, PlainStep

(* What it says.                                                            *)
LEMMA SpeaksWell ==
  ASSUME TurnsInv, TurnsWell, AgentSpeaks
  PROVE  TurnsWell'
<1>1. WorkOK /\ TurnsBegin /\ FeedInv
  BY DEF TurnsInv, TurnsWell
<1>2. PICK streaming \in BOOLEAN, n \in Starts :
        /\ sends[n].stage = "prompted" /\ agent.turn # NoTurn
        /\ feed' = Append(feed, Message(agent.turn, streaming))
        /\ UNCHANGED <<thread, intents, reactor, sends, agent, ingest, asked>>
  BY DEF AgentSpeaks
<1>3. reactor.pc # "reconcile"
  BY <1>1, <1>2, SendsAfter
<1>4. PICK e \in AgentEvents : e.type = "message" /\ feed' = Append(feed, e)
  <2>1. agent.turn \in Turns
    BY <1>1, <1>2 DEF WorkOK, Agents, TurnIds
  <2> QED BY <1>2, <2>1 DEF Message, AgentEvents
<1>5. QuietFeed
  BY <1>1, <1>3, <1>4, FeedAppended DEF QuietFeed
<1>6. ThreadCalm /\ SendsCalm /\ SendsLive
  BY <1>1, <1>2, ThreadStaysCalm, SendsStay
<1> QED BY <1>2, <1>5, <1>6, PlainStep

(* A checkpoint leaves the session.                                          *)
LEMMA RecordsCalm ==
  ASSUME WorkOK, OutputOK, TypeOK, CaptureRecords
  PROVE  rows'.turn = rows.turn /\ rows'.status = rows.status /\ ThreadCalm
<1>1. capture \in Capturing
  BY DEF OutputOK, CaptureRecords, Idle
<1>2. capture.turn \in Turns /\ capture.status \in CheckpointStatuses
  BY <1>1 DEF Capturing, CheckpointStatuses
<1>3. CASE \E newer \in BOOLEAN : TurnDiffCompleted(capture.turn, capture.status, newer)
  BY <1>2, <1>3, TurnCalm
<1>4. CASE UNCHANGED thread
  BY <1>4 DEF thread, ThreadCalm
<1> QED BY <1>3, <1>4 DEF CaptureRecords

(* What is checkpointed.                                                    *)
LEMMA CheckpointsWell ==
  ASSUME TurnsInv, TurnsWell, Checkpoints
  PROVE  TurnsWell'
<1>1. WorkOK /\ OutputOK /\ TypeOK /\ TurnsBegin
  BY DEF TurnsInv, TurnsWell, ThreadInv
<1>2. UNCHANGED <<intents, reactor, sends, agent, feed, ingest>>
  BY DEF Checkpoints, CaptureReads, CaptureRecords
<1>3. asked'.starts = asked.starts
  BY <1>1, MishapsStarts DEF Checkpoints, CaptureReads, CaptureRecords
<1>4. ThreadCalm
  <2>1. CASE UNCHANGED thread
    BY <2>1, ThreadStaysCalm
  <2>2. CASE CaptureRecords /\ ~UNCHANGED thread
    BY <1>1, <2>2, RecordsCalm
  <2> QED BY <2>1, <2>2 DEF Checkpoints, CaptureReads
<1>5. SendsCalm /\ SendsLive /\ QuietFeed
  BY <1>1, <1>2, SendsStay, QuietStays
<1> QED BY <1>2, <1>3, <1>4, <1>5, PlainStep

(* A prompt is sent: the turn it opens is announced, for the first time.    *)
LEMMA OpensStep ==
  ASSUME TurnsInv, TurnsWell, NEW n \in Starts, SendOpens(n)
  PROVE  TurnsWell'
<1>1. WorkOK /\ TypeOK /\ QueueInv /\ TurnsBegin /\ FeedInv
  BY DEF TurnsInv, TurnsWell, ThreadInv
<1>2. sends[n].stage = "begun" /\ UNCHANGED <<thread, intents, reactor, ingest, asked>>
  BY DEF SendOpens
<1>3. reactor.pc # "reconcile" /\ agent.alive
  BY <1>1, <1>2, SendsAfter DEF FeedInv
<1>4. ThreadCalm
  BY <1>1, <1>2, ThreadStaysCalm
<1>5. PICK stage \in {"prompted", "failed"} : SendStep(n, stage)
  BY DEF SendOpens
<1>6. SendsCalm /\ SendsLive
  BY <1>1, <1>2, <1>5, SendStepCalm
<1>7. agent'.alive = agent.alive
  BY <1>1 DEF SendOpens, WorkOK, Agents
<1>8. CASE feed' = feed
  <2>1. QuietFeed
    BY <1>1, <1>8, QuietStays
  <2> QED BY <1>2, <1>4, <1>6, <1>7, <2>1, PlainStep
<1>9. CASE feed' # feed
  <2>1. /\ SendStep(n, "prompted") /\ ~sends[n].steers
        /\ feed' = Append(feed, [type |-> "turn.started", turn |-> sends[n].turn])
    BY <1>9 DEF SendOpens
  <2>2. sends[n].turn = n /\ n \in Turns /\ n \in TurnIds
    BY <1>1, <1>2, <2>1, StartsAreTurns DEF TurnsBegin, OpenedOwn
  <2>3. PICK e \in AgentEvents : e.type = "turn.started" /\ e.turn = n /\ feed' = Append(feed, e)
    BY <2>1, <2>2 DEF AgentEvents
  <2>4. QueueInv'
    BY <1>1, <1>2, <1>6, CalmQueue
  <2>5. TurnsBegin'
    BY <1>1, <1>2, <1>6, BeginsFrame DEF SendsLive
  <2>6. FeedInv'
    <3>1. FeedGrows
      <4>1. NewEvents({"turn.started"})
        BY <1>1, <2>3, FeedAppended
      <4> QED BY <1>3, <4>1 DEF NewEvents, FeedGrows
    <3>2. rows'.turn \in {rows.turn, NoTurn} /\ ingest' = ingest /\ reactor' = reactor
      BY <1>2 DEF thread
    <3>3. \A k \in Starts : sends'[k].stage \in {"begun", "prompted"} =>
               sends[k].stage \in {"begun", "prompted"} \/ agent.alive
      BY <1>3
    <3> QED BY <1>1, <1>3, <1>7, <3>1, <3>2, <3>3, CalmFeed
  <2> QED BY <2>4, <2>5, <2>6 DEF TurnsWell
<1> QED BY <1>8, <1>9

-----------------------------------------------------------------------------
(* The ingestion.                                                           *)

(* The first event is taken off the feed.                                   *)
LEMMA FeedTail ==
  ASSUME WorkOK, feed # <<>>, feed' = Tail(feed)
  PROVE  /\ Len(feed) \in Nat /\ Len(feed') \in Nat /\ Len(feed) = Len(feed') + 1
         /\ 1 \in 1 .. Len(feed) /\ Head(feed) = feed[1] /\ feed[1] \in AgentEvents
         /\ \A i \in 1 .. Len(feed') : feed'[i] = feed[i + 1] /\ i + 1 \in 1 .. Len(feed)
<1>1. feed \in Seq(AgentEvents)
  BY DEF WorkOK
<1>2. Len(feed) \in Nat /\ Len(feed) # 0
  BY <1>1, LenProperties, EmptySeq
<1>3. /\ Len(feed') = Len(feed) - 1 /\ Head(feed) = feed[1]
      /\ \A i \in 1 .. Len(feed') : feed'[i] = feed[i + 1]
  BY <1>1, <1>2, HeadTailProperties
<1>4. 1 \in 1 .. Len(feed) /\ feed[1] \in AgentEvents
  BY <1>1, <1>2, ElementOfSeq
<1> QED BY <1>2, <1>3, <1>4

(* Frames of the ingestion.                                                 *)
IngestFrame == UNCHANGED <<intents, reactor, sends, agent, asked>>

(* The ingestion has nothing to do with starts.                             *)
LEMMA IngestQueue ==
  ASSUME TurnsBegin, QueueInv, IngestFrame
  PROVE  QueueInv' /\ OpenedOwn'
<1>1. SendsCalm /\ SendsLive
  BY SendsStay DEF IngestFrame
<1> QED BY <1>1, CalmQueue DEF IngestFrame, SendsLive

(* What was closed in the feed still is when its head has been read.        *)
LEMMA TailFeed ==
  ASSUME WorkOK, FeedInv, IngestFrame, feed # <<>>, feed' = Tail(feed),
         reactor.pc = "reconcile" => ingest'.pc = "idle",
         ShownTurn' # NoTurn => (ShownTurn' = ShownTurn /\ Head(feed).type # "exited")
                                \/ Head(feed).type = "turn.started"
  PROVE  FeedInv'
<1>1. PICK f, g, turn, now : f = feed /\ g = feed' /\ turn = ShownTurn /\ now = ShownTurn'
  OBVIOUS
<1>2. /\ Len(f) \in Nat /\ Len(g) \in Nat /\ Len(f) = Len(g) + 1 /\ Head(feed) = f[1]
      /\ \A i \in 1 .. Len(g) : g[i] = f[i + 1] /\ i + 1 \in 1 .. Len(f)
  BY <1>1, FeedTail
<1>3. now # NoTurn => (now = turn /\ f[1].type # "exited") \/ f[1].type = "turn.started"
  BY <1>1, <1>2
<1>4. ASSUME NEW j \in 1 .. Len(g) + 1, Closed(f, turn, j + 1) PROVE Closed(g, now, j)
  BY <1>2, <1>3, <1>4, ClosedTail
<1>5. ASSUME NEW j \in 1 .. Len(g), g[j].type = "started" PROVE Closed(g, now, j)
  <2>1. j + 1 \in 1 .. Len(f) /\ f[j + 1].type = "started" /\ j \in 1 .. Len(g) + 1
    BY <1>2, <1>5
  <2>2. PICK l \in 1 .. Len(f) : l = j + 1
    BY <2>1
  <2>3. Closed(f, turn, l)
    BY <1>1, <2>1, <2>2 DEF FeedInv
  <2> QED BY <1>4, <2>1, <2>2, <2>3
<1>6. ASSUME ~agent.alive, reactor.pc # "reconcile" PROVE Closed(g, now, Len(g) + 1)
  <2>1. Closed(f, turn, Len(f) + 1)
    BY <1>1, <1>6 DEF FeedInv
  <2>2. PICK j \in 1 .. Len(g) + 1 : j = Len(g) + 1 /\ j + 1 = Len(f) + 1
    BY <1>2
  <2> QED BY <1>4, <2>1, <2>2
<1>7. \A j \in 1 .. Len(feed') : feed'[j].type = "started" => Closed(feed', ShownTurn', j)
  BY <1>1, <1>5
<1>8. ~agent'.alive /\ reactor'.pc # "reconcile" => Closed(feed', ShownTurn', Len(feed') + 1)
  BY <1>1, <1>6 DEF IngestFrame
<1>9. reactor'.pc = "reconcile" =>
           /\ \A n \in Starts : sends'[n].stage = "none"
           /\ ingest'.pc = "idle"
           /\ \A i \in 1 .. Len(feed') : feed'[i].type \in {"opened", "resolved"}
  BY <1>1, <1>2 DEF FeedInv, IngestFrame
<1> QED BY <1>7, <1>8, <1>9 DEF FeedInv, IngestFrame, Closed, Exits, ShownTurn

(* What is recorded on the thread leaves its session.                        *)
LEMMA AppendsShow ==
  ASSUME WorkOK, TypeOK, IngestAppends
  PROVE  rows'.turn = rows.turn /\ rows'.status = rows.status
<1>1. feed # <<>> /\ feed' = Tail(feed)
  BY DEF IngestAppends
<1>2. Head(feed) = feed[1] /\ feed[1] \in AgentEvents
  BY <1>1, FeedTail
<1>3. \A e \in AgentEvents : /\ e.type \in {"opened", "resolved"} => e.request \in Requests
                             /\ e.type = "message" => e.turn \in Turns /\ e.streaming \in BOOLEAN
  BY DEF AgentEvents
<1>4. CASE Head(feed).type \in {"opened", "resolved"}
           /\ (AppendRequested(Head(feed).request) \/ AppendResolved(Head(feed).request))
  <2>1. PICK r \in Requests : r = Head(feed).request
    BY <1>2, <1>3, <1>4
  <2>2. AppendRequested(r) \/ AppendResolved(r)
    BY <1>4, <2>1
  <2>3. Untouched
    BY <2>2, RequestsUntouched
  <2> QED BY <2>3 DEF Untouched
<1>5. CASE MessageSent(Head(feed).turn, Head(feed).streaming) /\ Head(feed).type = "message"
  <2>1. PICK t \in Turns, streaming \in BOOLEAN :
          t = Head(feed).turn /\ streaming = Head(feed).streaming
    BY <1>2, <1>3, <1>5
  <2>2. MessageSent(t, streaming)
    BY <1>5, <2>1
  <2> QED BY <2>2, TurnCalm
<1> QED BY <1>4, <1>5 DEF IngestAppends

(* An event that is recorded on the thread starts nothing.                  *)
LEMMA AppendsStep ==
  ASSUME TurnsInv, TurnsWell, IngestAppends
  PROVE  TurnsWell'
<1>1. WorkOK /\ OutputOK /\ TypeOK /\ QueueInv /\ TurnsBegin /\ FeedInv
  BY DEF TurnsInv, TurnsWell, ThreadInv
<1>2. /\ feed # <<>> /\ feed' = Tail(feed) /\ Head(feed).type # "exited"
      /\ ingest' = ingest /\ IngestFrame
  BY DEF IngestAppends, IngestFrame
<1>3. rows'.turn = rows.turn
  BY <1>1, AppendsShow
<1>4. QueueInv' /\ OpenedOwn'
  BY <1>1, <1>2, IngestQueue
<1>5. FeedInv'
  <2>1. reactor.pc = "reconcile" => ingest'.pc = "idle"
    BY <1>1, <1>2 DEF FeedInv
  <2>2. ShownTurn' = ShownTurn
    BY <1>2, <1>3 DEF ShownTurn
  <2> QED BY <1>1, <1>2, <2>1, <2>2, TailFeed
<1>6. TurnsBegin'
  BY <1>1, <1>2, <1>4, BeginsFrame
<1> QED BY <1>4, <1>5, <1>6 DEF TurnsWell

(* What is made of an event: a turn begins that it announces, or that a       *)
(* session that starts is shown with; a session that ends leaves none.       *)
LEMMA VerdictShape ==
  ASSUME NEW e \in AgentEvents, NEW v, v = Verdict(e)
  PROVE  /\ v.pc = "write" \/ (v.pc = "idle" /\ e.type # "exited")
         /\ v.pc = "write" /\ v.turn # NoTurn =>
                /\ v.status = "running"
                /\ \/ e.type = "turn.started" /\ v.turn = e.turn
                   \/ e.type = "started" /\ v.turn = rows.turn
  BY DEF Verdict, Idle

(* An event is read, and what it makes of the session decided.              *)
LEMMA ReadsStep ==
  ASSUME TurnsInv, TurnsWell, IngestReads
  PROVE  TurnsWell'
<1>1. WorkOK /\ TypeOK /\ QueueInv /\ TurnsBegin /\ FeedInv
  BY DEF TurnsInv, TurnsWell, ThreadInv
<1>2. /\ feed # <<>> /\ feed' = Tail(feed) /\ Head(feed).type \notin {"opened", "resolved", "message"}
      /\ ingest.pc = "idle" /\ ingest' = Verdict(Head(feed))
      /\ UNCHANGED thread /\ IngestFrame
  BY DEF IngestReads, IngestFrame
<1>3. PICK e \in AgentEvents : e = Head(feed) /\ e = feed[1] /\ 1 \in 1 .. Len(feed)
  BY <1>1, <1>2, FeedTail
<1>4. PICK v : v = Verdict(e)
  OBVIOUS
<1>5. /\ v.pc = "write" \/ (v.pc = "idle" /\ e.type # "exited")
      /\ v.pc = "write" /\ v.turn # NoTurn =>
             /\ v.status = "running"
             /\ \/ e.type = "turn.started" /\ v.turn = e.turn
                \/ e.type = "started" /\ v.turn = rows.turn
  BY <1>4, VerdictShape
<1>6. ingest' = v
  BY <1>2, <1>3, <1>4
<1>7. reactor.pc # "reconcile"
  BY <1>1, <1>2, <1>3 DEF FeedInv
<1>8. ThreadCalm
  BY <1>1, <1>2, ThreadStaysCalm
<1>9. QueueInv' /\ OpenedOwn'
  BY <1>1, <1>2, IngestQueue
<1>10. e.type = "started" => rows.turn = NoTurn
  <2>1. e.type = "started" => Closed(feed, ShownTurn, 1)
    BY <1>1, <1>3 DEF FeedInv
  <2>2. ~Exits(feed, 0, 1)
    BY DEF Exits
  <2> QED BY <1>2, <2>1, <2>2 DEF Closed, ShownTurn
<1>11. FeedInv'
  <2>1. ShownTurn = rows.turn /\ ShownTurn' = IF v.pc = "write" THEN v.turn ELSE rows.turn
    BY <1>2, <1>6 DEF ShownTurn, thread
  <2>2. ShownTurn' # NoTurn => (ShownTurn' = ShownTurn /\ Head(feed).type # "exited")
                               \/ Head(feed).type = "turn.started"
    BY <1>3, <1>5, <1>10, <2>1
  <2> QED BY <1>1, <1>2, <1>7, <2>2, TailFeed
<1>12. TurnsBegin'
  BY <1>5, <1>6, <1>9 DEF TurnsBegin, WriteRuns
<1> QED BY <1>8, <1>9, <1>11, <1>12 DEF TurnsWell, ThreadCalm

(* A turn that was announced begins, or the session is left without one.     *)
LEMMA WritesStep ==
  ASSUME TurnsInv, TurnsWell, IngestWrites
  PROVE  TurnsWell'
<1>1. WorkOK /\ TypeOK /\ QueueInv /\ TurnsBegin /\ FeedInv
  BY DEF TurnsInv, TurnsWell, ThreadInv
<1>2. ingest.pc = "write" /\ ingest' = Idle /\ feed' = feed /\ IngestFrame
  BY DEF IngestWrites, IngestFrame
<1>3. PICK status \in SessionStatuses, turn \in Turns \cup {NoTurn}, newer \in BOOLEAN :
        status = ingest.status /\ turn = ingest.turn /\ SetSession(status, turn, newer)
  <2>1. ingest \in Writes
    BY <1>1, <1>2 DEF WorkOK, Idle
  <2> QED BY <2>1 DEF IngestWrites, Writes, TurnIds
<1>4. rows'.turn = turn
  BY <1>1, <1>3, SessionShown
<1>5. QueueInv' /\ OpenedOwn'
  BY <1>1, <1>2, IngestQueue
<1>6. TurnsBegin'
  BY <1>1, <1>2, <1>5, BeginsFrame
<1>7. FeedInv'
  <2>1. ShownTurn' = ShownTurn
    BY <1>2, <1>3, <1>4 DEF ShownTurn, Idle
  <2>2. reactor.pc # "reconcile"
    BY <1>1, <1>2 DEF FeedInv
  <2>3. PICK turns : turns = ShownTurn
    OBVIOUS
  <2>4. /\ \A j \in 1 .. Len(feed) : feed[j].type = "started" => Closed(feed, turns, j)
        /\ ~agent.alive => Closed(feed, turns, Len(feed) + 1)
    BY <1>1, <2>2, <2>3 DEF FeedInv
  <2>5. \A j \in 1 .. Len(feed') : feed'[j].type = "started" => Closed(feed', ShownTurn', j)
    BY <1>2, <2>1, <2>3, <2>4
  <2>6. ~agent'.alive => Closed(feed', ShownTurn', Len(feed') + 1)
    BY <1>2, <2>1, <2>3, <2>4 DEF IngestFrame
  <2> QED BY <1>1, <1>2, <2>2, <2>5, <2>6 DEF FeedInv, IngestFrame, Closed, Exits, ShownTurn
<1> QED BY <1>5, <1>6, <1>7 DEF TurnsWell

-----------------------------------------------------------------------------
(* Time, and the server.                                                    *)

(* Time passes.                                                             *)
LEMMA TimeStep == ASSUME TurnsInv, TurnsWell, TimePasses PROVE TurnsWell'
<1>1. WorkOK /\ TypeOK /\ TurnsBegin
  BY DEF TurnsInv, TurnsWell, ThreadInv
<1>2. ThreadCalm
  BY <1>1, GraceUntouched, UntouchedCalm DEF TimePasses
<1>3. SendsCalm /\ SendsLive /\ QuietFeed
  BY <1>1, SendsStay, QuietStays DEF TimePasses
<1> QED BY <1>2, <1>3, PlainStep DEF TimePasses

(* The server restarts with nothing on its way, and all turns opened so far.  *)
LEMMA RestartStep == ASSUME TurnsInv, TurnsWell, ServerRestarts PROVE TurnsWell'
<1>1. WorkOK /\ TypeOK /\ TurnsBegin
  BY DEF TurnsInv, TurnsWell, ThreadInv
<1>2. /\ intents' = <<>> /\ feed' = <<>> /\ reactor' = [pc |-> "reconcile"] /\ ingest' = Idle
      /\ sends' = [n \in Starts |-> NoSend] /\ Rebuild
  BY DEF ServerRestarts
<1>3. asked'.starts = asked.starts
  BY <1>1 DEF ServerRestarts, WorkOK, Asked
<1>4. Len(intents') = 0 /\ Len(feed') = 0
  BY <1>2
<1>5. \A i : i \notin 1 .. 0
  OBVIOUS
<1>6. reactor'.pc = "reconcile" /\ reactor'.pc \notin Held /\ ingest'.pc = "idle"
  BY <1>2 DEF Held, Idle
<1>7. \A n \in Starts : sends'[n].stage = "none"
  BY <1>2 DEF NoSend
<1>9. QueueInv'
  BY <1>4, <1>5, <1>6, <1>7 DEF QueueInv
<1>10. TurnsBegin'
  BY <1>6, <1>7 DEF TurnsBegin, OpenedOwn, WriteRuns
<1>11. FeedInv'
  BY <1>4, <1>5, <1>6, <1>7 DEF FeedInv
<1> QED BY <1>9, <1>10, <1>11 DEF TurnsWell

(* Then a session that was alive is set to "error": it is shown with no turn. *)
LEMMA ReconcileStep == ASSUME TurnsInv, TurnsWell, Reconcile PROVE TurnsWell'
<1>1. WorkOK /\ TypeOK /\ ThreadInv /\ QueueInv /\ TurnsBegin /\ FeedInv
  BY DEF TurnsInv, TurnsWell, ThreadInv
<1>2. /\ reactor.pc = "reconcile" /\ reactor' = Idle
      /\ UNCHANGED <<intents, sends, agent, feed, ingest, asked>>
  BY DEF Reconcile
<1>3. ThreadCalm /\ rows'.turn = NoTurn
  <2>1. CASE Orphaned
    <3>1. ReactorSets("error") /\ "error" \in SessionStatuses
      BY <2>1 DEF Reconcile, SessionStatuses
    <3> QED BY <1>1, <3>1, ReactorCalm
  <2>2. CASE ~Orphaned
    <3>1. UNCHANGED thread
      BY <2>2 DEF Reconcile
    <3> QED BY <1>1, <2>2, <3>1, ThreadStaysCalm DEF Orphaned, thread
  <2> QED BY <2>1, <2>2
<1>4. SendsCalm /\ SendsLive
  BY <1>1, <1>2, SendsStay
<1>5. reactor'.pc \notin Held
  BY <1>2 DEF Held, Idle
<1>6. QueueInv'
  BY <1>1, <1>2, <1>4, <1>5, CalmQueue
<1>7. TurnsBegin'
  BY <1>1, <1>2, <1>4, BeginsFrame DEF SendsLive
<1>8. FeedInv'
  <2>1. /\ \A n \in Starts : sends[n].stage = "none"
        /\ ingest.pc = "idle"
        /\ \A i \in 1 .. Len(feed) : feed[i].type \in {"opened", "resolved"}
    BY <1>1, <1>2 DEF FeedInv
  <2>2. ShownTurn' = NoTurn
    BY <1>2, <1>3, <2>1 DEF ShownTurn
  <2>3. \A j : Closed(feed, NoTurn, j)
    BY <2>1 DEF Closed
  <2>4. Closed(feed', ShownTurn', Len(feed') + 1)
    BY <1>2, <2>2, <2>3
  <2>5. reactor'.pc # "reconcile"
    BY <1>2 DEF Idle
  <2> QED BY <1>2, <2>1, <2>4, <2>5 DEF FeedInv, Closed, Exits, ShownTurn
<1> QED BY <1>3, <1>6, <1>7, <1>8 DEF TurnsWell, ThreadCalm

-----------------------------------------------------------------------------
(* The theorem about the turns.                                             *)

(* No turn has begun at first.                                              *)
LEMMA WellInit == TurnsInit => TurnsWell
<1> SUFFICES ASSUME TurnsInit PROVE TurnsWell
  OBVIOUS
<1>1. /\ Init /\ Len(intents) = 0 /\ Len(feed) = 0 /\ reactor.pc = "idle" /\ ingest.pc = "idle"
      /\ \A n \in Starts : sends[n].stage = "none"
  BY DEF TurnsInit, Idle, NoSend
<1>2. \A i : i \notin 1 .. 0
  OBVIOUS
<1>3. rows.turn = NoTurn
  BY <1>1 DEF Init
<1>5. QueueInv
  BY <1>1, <1>2 DEF QueueInv, Held
<1>6. TurnsBegin
  BY <1>1 DEF TurnsBegin, OpenedOwn, WriteRuns
<1>7. FeedInv
  <2>1. ShownTurn = NoTurn /\ \A n \in Starts : sends[n].stage = "none"
    BY <1>1, <1>3 DEF ShownTurn
  <2> QED BY <1>1, <1>2, <2>1 DEF FeedInv, Closed
<1> QED BY <1>5, <1>6, <1>7 DEF TurnsWell

(* Every step keeps it.                                                     *)
LEMMA WellStep == TurnsInv /\ TurnsWell /\ [TurnsNext]_vars => TurnsWell'
<1> SUFFICES ASSUME TurnsInv, TurnsWell, [TurnsNext]_vars PROVE TurnsWell'
  OBVIOUS
<1>1. CASE UNCHANGED vars
  <2>1. ThreadCalm
    BY <1>1, ThreadStaysCalm DEF vars, thread, TurnsInv, ThreadInv, TurnsWell
  <2> QED BY <1>1, <2>1, CallStep DEF vars
<1>2. CASE Users
  BY <1>2, StartStep, ClientSteps DEF Users
<1>3. CASE Sends
  BY <1>3, RoutesStep, RecoversStep, OpensStep, SendEndSteps DEF Sends
<1>4. CASE Reactor
  BY <1>4, TakeStep, ForkSteps, ReactorSteps, ReactorStopSteps, ReactorStartSteps DEF Reactor
<1>5. CASE Ingestion
  BY <1>5, ReadsStep, WritesStep, AppendsStep DEF Ingestion
<1>6. CASE AgentAsks \/ AgentReports
  BY <1>6, AgentWell
<1>7. CASE AgentSpeaks \/ Checkpoints
  BY <1>7, SpeaksWell, CheckpointsWell
<1>8. CASE TimePasses \/ ServerRestarts \/ Reconcile
  BY <1>8, TimeStep, RestartStep, ReconcileStep
<1> QED BY <1>1, <1>2, <1>3, <1>4, <1>5, <1>6, <1>7, <1>8 DEF TurnsNext

(* The invariant: together with the kinds, it is inductive.                 *)
LEMMA WellInvariant == TurnsSpec => []TurnsWell
BY WellInit, WellStep, TurnsInvariant, PTL DEF TurnsSpec

-----------------------------------------------------------------------------
(* Work that is shown and work that is done.                                *)

ShownStatus == IF ingest.pc = "write" THEN ingest.status ELSE rows.status

(* A session has a turn only while it runs.                                 *)
TurnRuns == rows.turn # NoTurn => rows.status = "running"

(* Starts that are not dealt with, prompts in flight and failures to record. *)
Working ==
    \/ \E i \in 1 .. Len(intents) : intents[i].kind = "start"
    \/ reactor.pc \in Held
    \/ \E n \in Starts : sends[n].stage \notin {"none", "done"}

Failing(n) == sends[n].stage \in {"failed", "set stopped", "set error"}
Opens(n) == sends[n].stage = "begun" /\ ~sends[n].steers
Joined(n) == sends[n].stage = "prompted" \/ (sends[n].stage = "begun" /\ sends[n].steers)
Running == {t \in Turns : \E n \in Starts : Joined(n) /\ sends[n].turn = t}

(* Prompts in flight are of one turn, or the only one is about to open it.   *)
FlightInv ==
    /\ \A n \in Starts : Joined(n) => sends[n].turn = agent.turn /\ agent.turn # NoTurn
    /\ \A n, m \in Starts : Opens(n) /\ m \in InFlight => m = n

(* An event that ends what is shown, if that is the turn or no turn.         *)
Ends(e, turn) ==
    \/ e.type = "exited"
    \/ e.type = "turn.completed" /\ (turn # NoTurn => e.turn = turn)
Ended(f, turn, i) == \E k \in 1 .. Len(f) : i < k /\ Ends(f[k], turn)

(* A turn that is shown, or that the feed announces, is ended by the feed    *)
(* or runs.                                                                 *)
Accounted(f, status, turn, running) ==
    /\ status \in Live /\ turn # NoTurn => Ended(f, turn, 0) \/ turn \in running
    /\ \A i \in 1 .. Len(f) : f[i].type = "turn.started" =>
           Ended(f, f[i].turn, i) \/ f[i].turn \in running

(* Unless a failure is still to be recorded; and once no work is left, what  *)
(* is shown as live is ended.                                               *)
NoFailure == \A n \in Starts : ~Failing(n)
AllAccounted == Accounted(feed, ShownStatus, ShownTurn, Running)
AllEnded == ShownStatus \in Live => Ended(feed, ShownTurn, 0)

StuckInv ==
    Except({"overtaking", "outrun"}) /\ reactor.pc # "reconcile" =>
        /\ FlightInv
        /\ NoFailure => AllAccounted
        /\ ~Working => AllEnded

(* While prompts are in flight the session is shown as live, or will be.     *)
Lowers(e) == e.type \in {"exited", "started", "ready", "turn.completed"}
Raised(f, status) ==
    \/ status \in Live /\ \A k \in 1 .. Len(f) : ~Lowers(f[k])
    \/ \E i \in 1 .. Len(f) :
          f[i].type = "turn.started" /\ \A k \in 1 .. Len(f) : i < k => ~Lowers(f[k])

StaysLive == Raised(feed, ShownStatus)

BusyInv ==
    Except({"collateral", "resurrected", "missed"}) =>
        \/ InFlight = {}
        \/ StaysLive
        \/ \E n \in Starts : Opens(n) \/ Failing(n)

(* A session that is alive is not shown as stopped, or will not be.          *)
Revived(f, status) ==
    \/ status # "stopped" /\ \A k \in 1 .. Len(f) : f[k].type # "exited"
    \/ \E i \in 1 .. Len(f) :
          f[i].type = "ready" /\ \A k \in 1 .. Len(f) : i < k => f[k].type # "exited"

StaysUp == Revived(feed, ShownStatus)

AliveInv ==
    Except({"collateral", "resurrected", "missed"}) /\ agent.alive => StaysUp

(* A stop that is about to be recorded has left no session.                  *)
StopInv ==
    Except({"collateral", "resurrected", "missed"}) =>
        (reactor.pc = "record stop" => ~agent.alive)

WorkInv == TurnRuns /\ StuckInv /\ BusyInv /\ AliveInv /\ StopInv

-----------------------------------------------------------------------------
(* Feeds that grow keep what they end, raise and revive.                    *)

(* What has ended stays so.                                                 *)
LEMMA EndedExtends ==
  ASSUME NEW f, NEW g, Extends(f, g), NEW turn, NEW i, Ended(f, turn, i)
  PROVE  Ended(g, turn, i)
<1>1. PICK k \in 1 .. Len(f) : i < k /\ Ends(f[k], turn)
  BY DEF Ended
<1>2. k \in 1 .. Len(g) /\ g[k] = f[k]
  BY DEF Extends
<1> QED BY <1>1, <1>2 DEF Ended

(* Events that announce no turn, or one that runs.                          *)
LEMMA AccountedExtends ==
  ASSUME NEW f, NEW g, Extends(f, g), NEW status, NEW turn, NEW running, NEW more,
         running \subseteq more, Accounted(f, status, turn, running),
         \A i \in 1 .. Len(g) : i \notin 1 .. Len(f) /\ g[i].type = "turn.started" =>
             g[i].turn \in more
  PROVE  Accounted(g, status, turn, more)
<1>1. ASSUME status \in Live, turn # NoTurn PROVE Ended(g, turn, 0) \/ turn \in more
  BY <1>1, EndedExtends DEF Accounted
<1>2. ASSUME NEW i \in 1 .. Len(g), g[i].type = "turn.started"
      PROVE  Ended(g, g[i].turn, i) \/ g[i].turn \in more
  <2>1. CASE i \notin 1 .. Len(f)
    BY <1>2, <2>1
  <2>2. CASE i \in 1 .. Len(f)
    <3>1. f[i] = g[i]
      BY <2>2 DEF Extends
    <3>2. Ended(f, g[i].turn, i) \/ g[i].turn \in running
      BY <1>2, <2>2, <3>1 DEF Accounted
    <3> QED BY <3>2, EndedExtends
  <2> QED BY <2>1, <2>2
<1> QED BY <1>1, <1>2 DEF Accounted

(* A session shown with another status and no turn.                         *)
LEMMA AccountedAnew ==
  ASSUME NEW f, NEW status, NEW turn, NEW running, NEW next, Accounted(f, status, turn, running)
  PROVE  Accounted(f, next, NoTurn, running)
  BY DEF Accounted

(* The last prompt of the turn ends: so does all that is shown.              *)
LEMMA AccountedEnds ==
  ASSUME NEW f, NEW g, Extends(f, g), NEW status, NEW turn, NEW running, NEW last,
         Len(g) = Len(f) + 1, g[Len(f) + 1].type = "turn.completed", g[Len(f) + 1].turn = last,
         running \subseteq {last}, Accounted(f, status, turn, running)
  PROVE  /\ \A more : Accounted(g, status, turn, more)
         /\ status \in Live => Ended(g, turn, 0)
<1>1. PICK k \in 1 .. Len(g) : /\ k = Len(f) + 1 /\ g[k].type = "turn.completed" /\ g[k].turn = last
                              /\ 0 < k /\ (\A i \in 1 .. Len(f) : i < k)
  BY DEF Extends
<1>2. \A i \in 1 .. Len(f) : Ended(g, last, i)
  BY <1>1 DEF Ended, Ends
<1>3. Ended(g, last, 0) /\ Ended(g, NoTurn, 0)
  BY <1>1 DEF Ended, Ends
<1>4. ASSUME status \in Live PROVE Ended(g, turn, 0)
  <2>1. CASE turn = NoTurn
    BY <1>3, <2>1
  <2>2. CASE turn # NoTurn
    <3>1. Ended(f, turn, 0) \/ turn = last
      BY <1>4, <2>2 DEF Accounted
    <3> QED BY <1>3, <3>1, EndedExtends
  <2> QED BY <2>1, <2>2
<1>5. ASSUME NEW i \in 1 .. Len(g), g[i].type = "turn.started"
      PROVE  Ended(g, g[i].turn, i)
  <2>1. i # k
    BY <1>1, <1>5
  <2>2. i \in 1 .. Len(f)
    BY <1>1, <2>1 DEF Extends
  <2>3. f[i] = g[i]
    BY <2>2 DEF Extends
  <2>4. Ended(f, g[i].turn, i) \/ g[i].turn = last
    BY <1>5, <2>2, <2>3 DEF Accounted
  <2> QED BY <1>2, <2>2, <2>4, EndedExtends
<1> QED BY <1>4, <1>5 DEF Accounted

(* Events that lower nothing, and a status that is live.                    *)
LEMMA RaisedExtends ==
  ASSUME NEW f, NEW g, Extends(f, g), NEW status, NEW next, Raised(f, status),
         next = status \/ next \in Live,
         \A i \in 1 .. Len(g) : i \notin 1 .. Len(f) => ~Lowers(g[i])
  PROVE  Raised(g, next)
<1>1. \A k \in 1 .. Len(f) : k \in 1 .. Len(g) /\ g[k] = f[k]
  BY DEF Extends
<1>2. CASE status \in Live /\ \A k \in 1 .. Len(f) : ~Lowers(f[k])
  BY <1>1, <1>2 DEF Raised
<1>3. CASE \E i \in 1 .. Len(f) :
             f[i].type = "turn.started" /\ \A k \in 1 .. Len(f) : i < k => ~Lowers(f[k])
  <2>1. PICK i \in 1 .. Len(f) :
             f[i].type = "turn.started" /\ \A k \in 1 .. Len(f) : i < k => ~Lowers(f[k])
    BY <1>3
  <2>2. \A k \in 1 .. Len(g) : i < k => ~Lowers(g[k])
    BY <1>1, <2>1
  <2> QED BY <1>1, <2>1, <2>2 DEF Raised
<1> QED BY <1>2, <1>3 DEF Raised

(* Events that end no session, and a status that is not "stopped".           *)
LEMMA RevivedExtends ==
  ASSUME NEW f, NEW g, Extends(f, g), NEW status, NEW next, Revived(f, status),
         next = status \/ next # "stopped",
         \A i \in 1 .. Len(g) : i \notin 1 .. Len(f) => g[i].type # "exited"
  PROVE  Revived(g, next)
<1>1. \A k \in 1 .. Len(f) : k \in 1 .. Len(g) /\ g[k] = f[k]
  BY DEF Extends
<1>2. CASE status # "stopped" /\ \A k \in 1 .. Len(f) : f[k].type # "exited"
  BY <1>1, <1>2 DEF Revived
<1>3. CASE \E i \in 1 .. Len(f) :
             f[i].type = "ready" /\ \A k \in 1 .. Len(f) : i < k => f[k].type # "exited"
  <2>1. PICK i \in 1 .. Len(f) :
             f[i].type = "ready" /\ \A k \in 1 .. Len(f) : i < k => f[k].type # "exited"
    BY <1>3
  <2>2. \A k \in 1 .. Len(g) : i < k => g[k].type # "exited"
    BY <1>1, <2>1
  <2> QED BY <1>1, <2>1, <2>2 DEF Revived
<1> QED BY <1>2, <1>3 DEF Revived

(* The head is read.                                                        *)
TailOf(f, g) ==
    /\ Len(f) \in Nat /\ Len(g) \in Nat /\ Len(f) = Len(g) + 1 /\ 1 \in 1 .. Len(f)
    /\ \A i \in 1 .. Len(g) : g[i] = f[i + 1] /\ i + 1 \in 1 .. Len(f)

(* What a later event ends is still ended.                                 *)
LEMMA EndedTail ==
  ASSUME NEW f, NEW g, TailOf(f, g), NEW turn, NEW i \in 0 .. Len(g), Ended(f, turn, i + 1)
  PROVE  Ended(g, turn, i)
<1>1. PICK k \in 1 .. Len(f) : i + 1 < k /\ Ends(f[k], turn)
  BY DEF Ended
<1>2. PICK l \in 1 .. Len(g) : l + 1 = k /\ i < l
  <2>1. k - 1 \in 1 .. Len(g) /\ (k - 1) + 1 = k /\ i < k - 1
    BY <1>1 DEF TailOf
  <2> QED BY <2>1
<1>3. g[l] = f[k]
  BY <1>2 DEF TailOf
<1> QED BY <1>1, <1>2, <1>3 DEF Ended

(* What was ended by a later event is; what the head does not end is ended by *)
(* a later one.                                                              *)
LEMMA EndedPast ==
  ASSUME NEW f, NEW g, TailOf(f, g), NEW turn, Ended(f, turn, 0), ~Ends(f[1], turn)
  PROVE  Ended(g, turn, 0)
<1>1. PICK k \in 1 .. Len(f) : 0 < k /\ Ends(f[k], turn)
  BY DEF Ended
<1>2. k # 1
  BY <1>1
<1>3. 0 + 1 < k /\ 0 \in 0 .. Len(g)
  BY <1>1, <1>2 DEF TailOf
<1>4. Ended(f, turn, 0 + 1)
  BY <1>1, <1>3 DEF Ended
<1> QED BY <1>3, <1>4, EndedTail

(* What is shown next is what the head announces, or is not live, or has no   *)
(* turn, or is what was shown, which the head does not end.                  *)
LEMMA AccountedTail ==
  ASSUME NEW f, NEW g, TailOf(f, g), NEW status, NEW turn, NEW running,
         Accounted(f, status, turn, running), NEW next, NEW now,
         \/ next \notin Live \/ now = NoTurn
         \/ f[1].type = "turn.started" /\ f[1].turn = now
         \/ now = turn /\ status \in Live /\ ~Ends(f[1], turn)
  PROVE  Accounted(g, next, now, running)
<1>1. ASSUME NEW i \in 1 .. Len(g), g[i].type = "turn.started"
      PROVE  Ended(g, g[i].turn, i) \/ g[i].turn \in running
  <2>1. PICK l \in 1 .. Len(f) : l = i + 1 /\ f[l] = g[i] /\ i \in 0 .. Len(g)
    BY DEF TailOf
  <2>2. Ended(f, g[i].turn, l) \/ g[i].turn \in running
    BY <1>1, <2>1 DEF Accounted
  <2> QED BY <2>1, <2>2, EndedTail
<1>2. ASSUME next \in Live, now # NoTurn PROVE Ended(g, now, 0) \/ now \in running
  <2>1. 1 \in 1 .. Len(f) /\ 0 \in 0 .. Len(g) /\ 0 + 1 = 1
    BY DEF TailOf
  <2>2. CASE f[1].type = "turn.started" /\ f[1].turn = now
    <3>1. Ended(f, now, 1) \/ now \in running
      BY <2>1, <2>2 DEF Accounted
    <3> QED BY <2>1, <3>1, EndedTail
  <2>3. CASE now = turn /\ status \in Live /\ ~Ends(f[1], turn)
    <3>1. Ended(f, now, 0) \/ now \in running
      BY <1>2, <2>3 DEF Accounted
    <3> QED BY <2>3, <3>1, EndedPast
  <2> QED BY <1>2, <2>2, <2>3
<1> QED BY <1>1, <1>2 DEF Accounted

(* A head that lowers nothing, or a turn that is shown as live, keeps the    *)
(* session live.                                                            *)
LEMMA RaisedTail ==
  ASSUME NEW f, NEW g, TailOf(f, g), NEW status, NEW next, Raised(f, status),
         f[1].type = "turn.started" => next \in Live,
         ~Lowers(f[1]) => next \in Live \/ next = status
  PROVE  Raised(g, next)
<1>1. \A i \in 1 .. Len(g) : g[i] = f[i + 1] /\ i + 1 \in 1 .. Len(f)
  BY DEF TailOf
<1>2. 1 \in 1 .. Len(f)
  BY DEF TailOf
<1>3. CASE status \in Live /\ \A k \in 1 .. Len(f) : ~Lowers(f[k])
  BY <1>1, <1>2, <1>3 DEF Raised
<1>4. CASE \E i \in 1 .. Len(f) :
             f[i].type = "turn.started" /\ \A k \in 1 .. Len(f) : i < k => ~Lowers(f[k])
  <2>1. PICK i \in 1 .. Len(f) :
             f[i].type = "turn.started" /\ \A k \in 1 .. Len(f) : i < k => ~Lowers(f[k])
    BY <1>4
  <2>2. CASE i = 1
    <3>1. \A k \in 1 .. Len(g) : 1 < k + 1
      OBVIOUS
    <3>2. \A k \in 1 .. Len(g) : ~Lowers(g[k])
      BY <1>1, <2>1, <2>2, <3>1
    <3> QED BY <2>1, <2>2, <3>2 DEF Raised
  <2>3. CASE i # 1
    <3>1. PICK l \in 1 .. Len(g) : l + 1 = i
      <4>1. i - 1 \in 1 .. Len(g) /\ (i - 1) + 1 = i
        BY <2>3 DEF TailOf
      <4> QED BY <4>1
    <3>2. \A k \in 1 .. Len(g) : l < k => i < k + 1
      BY <3>1
    <3>3. \A k \in 1 .. Len(g) : l < k => ~Lowers(g[k])
      BY <1>1, <2>1, <3>2
    <3> QED BY <1>1, <2>1, <3>1, <3>3 DEF Raised
  <2> QED BY <2>2, <2>3
<1> QED BY <1>3, <1>4 DEF Raised

(* A head that ends no session keeps it up.                                 *)
LEMMA RevivedTail ==
  ASSUME NEW f, NEW g, TailOf(f, g), NEW status, NEW next, Revived(f, status),
         f[1].type # "exited" => next # "stopped" \/ (f[1].type # "ready" /\ next = status)
  PROVE  Revived(g, next)
<1>1. \A i \in 1 .. Len(g) : g[i] = f[i + 1] /\ i + 1 \in 1 .. Len(f)
  BY DEF TailOf
<1>2. 1 \in 1 .. Len(f)
  BY DEF TailOf
<1>3. CASE status # "stopped" /\ \A k \in 1 .. Len(f) : f[k].type # "exited"
  BY <1>1, <1>2, <1>3 DEF Revived
<1>4. CASE \E i \in 1 .. Len(f) :
             f[i].type = "ready" /\ \A k \in 1 .. Len(f) : i < k => f[k].type # "exited"
  <2>1. PICK i \in 1 .. Len(f) :
             f[i].type = "ready" /\ \A k \in 1 .. Len(f) : i < k => f[k].type # "exited"
    BY <1>4
  <2>2. CASE i = 1
    <3>1. \A k \in 1 .. Len(g) : 1 < k + 1
      OBVIOUS
    <3>2. \A k \in 1 .. Len(g) : g[k].type # "exited"
      BY <1>1, <2>1, <2>2, <3>1
    <3> QED BY <2>1, <2>2, <3>2 DEF Revived
  <2>3. CASE i # 1
    <3>1. PICK l \in 1 .. Len(g) : l + 1 = i
      <4>1. i - 1 \in 1 .. Len(g) /\ (i - 1) + 1 = i
        BY <2>3 DEF TailOf
      <4> QED BY <4>1
    <3>2. \A k \in 1 .. Len(g) : l < k => i < k + 1
      BY <3>1
    <3>3. \A k \in 1 .. Len(g) : l < k => g[k].type # "exited"
      BY <1>1, <2>1, <3>2
    <3> QED BY <1>1, <2>1, <3>1, <3>3 DEF Revived
  <2> QED BY <2>2, <2>3
<1> QED BY <1>3, <1>4 DEF Revived

-----------------------------------------------------------------------------
(* What the parts of the invariant depend on.                               *)

(* No event, no intent.                                                     *)
LEMMA NoneBelow == \A i : i \notin 1 .. 0
  OBVIOUS

(* The mishaps so far, and perhaps more.                                    *)
Grows == asked.mishaps \subseteq asked'.mishaps

(* No step takes a mishap back.                                             *)
LEMMA MishapsGrow ==
  ASSUME WorkOK, NEW kinds,
         \/ Acts \/ Mishaps(kinds) \/ UNCHANGED asked
         \/ asked' = [asked EXCEPT !.starts = @ + 1]
         \/ asked' = [asked EXCEPT !.restarts = @ + 1]
  PROVE  Grows
  BY DEF WorkOK, Asked, Acts, Mishaps, Grows

(* What excepts them does so before.                                        *)
LEMMA ExceptGrows == ASSUME Grows, NEW kinds, Except(kinds)' PROVE Except(kinds)
  BY DEF Grows, Except

(* Those of a step have happened.                                           *)
LEMMA ExceptMishaps ==
  ASSUME WorkOK, NEW kinds, NEW new, Mishaps(new), Except(kinds)' PROVE kinds \cap new = {}
<1>1. asked'.mishaps = asked.mishaps \cup new
  BY DEF WorkOK, Asked, Mishaps
<1> QED BY <1>1 DEF Except

(* The parts after a step, of what they are made of.                        *)
LEMMA PartsThen ==
  /\ Accounted(feed', ShownStatus', ShownTurn', Running') => AllAccounted'
  /\ (ShownStatus' \in Live => Ended(feed', ShownTurn', 0)) => AllEnded'
  /\ Raised(feed', ShownStatus') => StaysLive'
  /\ Revived(feed', ShownStatus') => StaysUp'
<1>1. Accounted(feed', ShownStatus', ShownTurn', Running') => AllAccounted'
  BY DEF AllAccounted, Accounted, Ended, Ends
<1>2. (ShownStatus' \in Live => Ended(feed', ShownTurn', 0)) => AllEnded'
  BY DEF AllEnded, Ended, Ends
<1>3. Raised(feed', ShownStatus') => StaysLive'
  BY DEF StaysLive, Raised, Lowers
<1>4. Revived(feed', ShownStatus') => StaysUp'
  BY DEF StaysUp, Revived
<1> QED BY <1>1, <1>2, <1>3, <1>4

(* What is shown stays, or is set with no turn: as live only while a start is *)
(* dealt with.                                                              *)
SameShown == ShownStatus' = ShownStatus /\ ShownTurn' = ShownTurn
SetShown(status) == SameShown \/ (ShownStatus' = status /\ ShownTurn' = NoTurn)

(* It stays when a command does not touch the session.                      *)
LEMMA UntouchedSame ==
  ASSUME TurnRuns, ingest' = ingest,
         Untouched \/ (rows'.turn = rows.turn /\ rows'.status = rows.status)
  PROVE  SameShown /\ TurnRuns'
  BY DEF TurnRuns, SameShown, ShownStatus, ShownTurn, Untouched

(* An interrupt only settles its turn.                                      *)
LEMMA InterruptSame ==
  ASSUME TypeOK, NEW t, InterruptTurn(t)
  PROVE  rows'.turn = rows.turn /\ rows'.status = rows.status
  BY DEF TypeOK, InterruptTurn, Rows

(* A command that sets the session without a turn.                          *)
LEMMA SessionSame ==
  ASSUME ThreadInv, NEW status \in SessionStatuses, NEW newer \in BOOLEAN,
         SetSession(status, NoTurn, newer), ingest' = ingest
  PROVE  /\ SetShown(status) /\ TurnRuns' /\ rows'.status = status /\ rows'.turn = NoTurn
         /\ ingest.pc # "write" => ShownStatus' = status /\ ShownTurn' = NoTurn
<1>1. rows'.turn = NoTurn /\ rows'.status = status
  BY SessionShown DEF ThreadInv
<1> QED BY <1>1 DEF SetShown, SameShown, ShownStatus, ShownTurn, TurnRuns

(* The reactor sets it so.                                                  *)
LEMMA ReactorSame ==
  ASSUME ThreadInv, NEW status \in SessionStatuses, ReactorSets(status), ingest' = ingest
  PROVE  /\ SetShown(status) /\ TurnRuns' /\ rows'.status = status /\ rows'.turn = NoTurn
         /\ ingest.pc # "write" => ShownStatus' = status /\ ShownTurn' = NoTurn
BY SessionSame DEF ReactorSets

(* A thread left alone shows the same.                                      *)
LEMMA ThreadSame == ASSUME TurnRuns, UNCHANGED <<thread, ingest>> PROVE SameShown /\ TurnRuns'
  BY DEF TurnRuns, SameShown, ShownStatus, ShownTurn, thread

(* Prompts in flight and failures stay as they are.                         *)
SameFlight ==
    /\ agent'.turn = agent.turn
    /\ \A n \in Starts :
          \/ sends'[n] = sends[n]
          \/ /\ sends[n].stage \notin {"begun", "prompted"}
             /\ sends'[n].stage \notin {"begun", "prompted"}
             /\ Failing(n) => Failing(n)'

(* Then turns go on, and what opens or fails still does.                    *)
LEMMA FlightStays ==
  ASSUME SameFlight
  PROVE  /\ FlightInv => FlightInv'
         /\ Running' = Running /\ InFlight' = InFlight
         /\ \A n \in Starts : (Opens(n) => Opens(n)') /\ (Failing(n) => Failing(n)')
<1>1. \A n \in Starts : /\ Joined(n)' <=> Joined(n)
                        /\ Opens(n)' <=> Opens(n)
                        /\ n \in InFlight' <=> n \in InFlight
                        /\ Joined(n) => sends'[n].turn = sends[n].turn
                        /\ Failing(n) => Failing(n)'
  BY DEF SameFlight, Joined, Opens, InFlight, Failing
<1>2. Running' = Running
  BY <1>1 DEF Running
<1>3. InFlight' = InFlight
  BY <1>1 DEF InFlight
<1>4. FlightInv => FlightInv'
  BY <1>1, <1>3 DEF FlightInv, SameFlight
<1> QED BY <1>1, <1>2, <1>3, <1>4

(* The feed stays, or one event about a request or a message is added.      *)
SameFeed ==
    \/ feed' = feed
    \/ \E e \in AgentEvents :
          e.type \in {"opened", "resolved", "message"} /\ feed' = Append(feed, e)

(* Such a feed has few new events.                                          *)
LEMMA SameFeedGrows ==
  ASSUME WorkOK, SameFeed
  PROVE  NewEvents({"opened", "resolved", "message"})
BY FeedStays, FeedAppended DEF SameFeed

(* No turn is announced, and every prompt goes on or fails.                 *)
LEMMA StuckFrame ==
  ASSUME StuckInv, Grows, NEW types, NewEvents(types), "turn.started" \notin types,
         reactor'.pc # "reconcile" => reactor.pc # "reconcile",
         FlightInv => FlightInv', Working => Working',
         NoFailure' => NoFailure /\ Running \subseteq Running',
         SameShown \/ (ShownTurn' = NoTurn /\ (ShownStatus' \notin Live \/ Working'))
  PROVE  StuckInv'
<1> SUFFICES ASSUME Except({"overtaking", "outrun"})', reactor'.pc # "reconcile"
             PROVE  FlightInv' /\ (NoFailure' => AllAccounted') /\ (~Working' => AllEnded')
  BY DEF StuckInv
<1>1. FlightInv /\ (NoFailure => AllAccounted) /\ (~Working => AllEnded)
  BY ExceptGrows DEF StuckInv
<1>2. PICK f, g, status, next, turn, now, running, more :
        /\ f = feed /\ g = feed' /\ status = ShownStatus /\ next = ShownStatus'
        /\ turn = ShownTurn /\ now = ShownTurn' /\ running = Running /\ more = Running'
  OBVIOUS
<1>3. /\ Extends(f, g)
      /\ \A i \in 1 .. Len(g) : i \notin 1 .. Len(f) => g[i].type # "turn.started"
  BY <1>2 DEF NewEvents
<1>4. \/ next = status /\ now = turn
      \/ now = NoTurn /\ (next \notin Live \/ Working')
  BY <1>2 DEF SameShown
<1>5. ASSUME NoFailure' PROVE AllAccounted'
  <2>1. Accounted(f, status, turn, running) /\ running \subseteq more
    BY <1>1, <1>2, <1>5 DEF AllAccounted
  <2>2. Accounted(g, status, turn, more)
    BY <1>3, <2>1, AccountedExtends
  <2>3. Accounted(g, next, now, more)
    BY <1>4, <2>2, AccountedAnew
  <2> QED BY <1>2, <2>3, PartsThen
<1>6. ASSUME ~Working' PROVE AllEnded'
  <2>1. status \in Live => Ended(f, turn, 0)
    BY <1>1, <1>2, <1>6 DEF AllEnded
  <2>2. next \in Live => Ended(g, now, 0)
    BY <1>3, <1>4, <1>6, <2>1, EndedExtends
  <2> QED BY <1>2, <2>2, PartsThen
<1> QED BY <1>1, <1>5, <1>6

(* Nothing lowers the session, and every prompt goes on or fails.           *)
LEMMA BusyFrame ==
  ASSUME BusyInv, Grows, NEW types, NewEvents(types),
         types \cap {"exited", "started", "ready", "turn.completed"} = {},
         ShownStatus' = ShownStatus \/ ShownStatus' \in Live,
         \/ InFlight' = {} \/ \E n \in Starts : Opens(n)' \/ Failing(n)'
         \/ /\ InFlight # {}
            /\ \A n \in Starts : Opens(n) \/ Failing(n) => Opens(n)' \/ Failing(n)'
  PROVE  BusyInv'
<1> SUFFICES ASSUME Except({"collateral", "resurrected", "missed"})', InFlight # {},
                    \A n \in Starts : Opens(n) \/ Failing(n) => Opens(n)' \/ Failing(n)'
             PROVE  StaysLive' \/ \E n \in Starts : Opens(n)' \/ Failing(n)'
  BY DEF BusyInv
<1>1. StaysLive \/ \E n \in Starts : Opens(n) \/ Failing(n)
  BY ExceptGrows DEF BusyInv
<1>2. CASE StaysLive
  <2>1. PICK f, g, status, next : f = feed /\ g = feed' /\ status = ShownStatus /\ next = ShownStatus'
    OBVIOUS
  <2>2. /\ Extends(f, g) /\ Raised(f, status) /\ (next = status \/ next \in Live)
        /\ \A i \in 1 .. Len(g) : i \notin 1 .. Len(f) => ~Lowers(g[i])
    BY <1>2, <2>1 DEF NewEvents, StaysLive, Lowers
  <2>3. Raised(g, next)
    BY <2>2, RaisedExtends
  <2> QED BY <2>1, <2>3, PartsThen
<1> QED BY <1>1, <1>2

(* No session ends.                                                         *)
LEMMA AliveFrame ==
  ASSUME AliveInv, Grows, NEW types, NewEvents(types), "exited" \notin types,
         agent'.alive => agent.alive, ShownStatus' = ShownStatus \/ ShownStatus' # "stopped"
  PROVE  AliveInv'
<1> SUFFICES ASSUME Except({"collateral", "resurrected", "missed"})', agent.alive
             PROVE  StaysUp'
  BY DEF AliveInv
<1>1. StaysUp
  BY ExceptGrows DEF AliveInv
<1>2. PICK f, g, status, next : f = feed /\ g = feed' /\ status = ShownStatus /\ next = ShownStatus'
  OBVIOUS
<1>3. /\ Extends(f, g) /\ Revived(f, status) /\ (next = status \/ next # "stopped")
      /\ \A i \in 1 .. Len(g) : i \notin 1 .. Len(f) => g[i].type # "exited"
  BY <1>1, <1>2 DEF NewEvents, StaysUp
<1>4. Revived(g, next)
  BY <1>3, RevivedExtends
<1> QED BY <1>2, <1>4, PartsThen

(* A stop is not about to be recorded, or is as it was.                      *)
LEMMA StopFrame ==
  ASSUME StopInv, Grows, agent'.alive => agent.alive,
         reactor'.pc = "record stop" => reactor.pc = "record stop" \/ ~agent'.alive
             \/ ~Except({"collateral", "resurrected", "missed"})'
  PROVE  StopInv'
  BY ExceptGrows DEF StopInv

(* A step that touches neither prompts nor agent, and shows nothing but a     *)
(* start that is dealt with.                                                *)
LEMMA WorkCalm ==
  ASSUME WorkOK, WorkInv, Grows, SameFeed, SameFlight, TurnRuns',
         agent'.alive = agent.alive, reactor'.pc # "reconcile" => reactor.pc # "reconcile",
         reactor'.pc = "record stop" => reactor.pc = "record stop" \/ ~agent'.alive
             \/ ~Except({"collateral", "resurrected", "missed"})',
         Working => Working', SameShown \/ (SetShown("starting") /\ Working')
  PROVE  WorkInv'
<1>1. NewEvents({"opened", "resolved", "message"})
  BY SameFeedGrows
<1>2. PICK types : types = {"opened", "resolved", "message"}
  OBVIOUS
<1>3. /\ NewEvents(types) /\ "turn.started" \notin types /\ "exited" \notin types
      /\ types \cap {"exited", "started", "ready", "turn.completed"} = {}
  BY <1>1, <1>2
<1>4. /\ FlightInv => FlightInv'
      /\ Running' = Running /\ InFlight' = InFlight
      /\ \A n \in Starts : (Opens(n) => Opens(n)') /\ (Failing(n) => Failing(n)')
  BY FlightStays
<1>5. NoFailure' => NoFailure /\ Running \subseteq Running'
  BY <1>4 DEF NoFailure
<1>6. /\ SameShown \/ (ShownTurn' = NoTurn /\ (ShownStatus' \notin Live \/ Working'))
      /\ ShownStatus' = ShownStatus \/ ShownStatus' \in Live
      /\ ShownStatus' = ShownStatus \/ ShownStatus' # "stopped"
  BY DEF SetShown, SameShown, Live
<1>7. StuckInv /\ BusyInv /\ AliveInv /\ StopInv
  BY DEF WorkInv
<1>8. StuckInv'
  BY <1>3, <1>4, <1>5, <1>6, <1>7, StuckFrame
<1>9. BusyInv'
  <2>1. InFlight' = {} \/ (InFlight # {}
            /\ \A n \in Starts : Opens(n) \/ Failing(n) => Opens(n)' \/ Failing(n)')
    BY <1>4
  <2> QED BY <1>3, <1>6, <1>7, <2>1, BusyFrame
<1>10. AliveInv'
  BY <1>3, <1>6, <1>7, AliveFrame
<1>11. StopInv'
  BY <1>7, StopFrame
<1> QED BY <1>8, <1>9, <1>10, <1>11 DEF WorkInv

-----------------------------------------------------------------------------
(* Steps that disturb none of it.                                           *)

(* Starts are still queued, held or sent.                                   *)
LEMMA WorkingStays ==
  ASSUME WorkOK, intents' = intents \/ \E x : intents' = Append(intents, x),
         reactor.pc \in Held => reactor'.pc \in Held,
         \A n \in Starts : sends'[n].stage \in {"none", "done"} => sends[n].stage \in {"none", "done"}
  PROVE  Working => Working'
<1>1. Len(intents) \in Nat /\ intents \in Seq(Intents)
  BY LenProperties DEF WorkOK
<1>2. \A i \in 1 .. Len(intents) : i \in 1 .. Len(intents') /\ intents'[i] = intents[i]
  <2>1. CASE intents' = intents
    BY <2>1
  <2>2. CASE \E x : intents' = Append(intents, x)
    <3>1. PICK x : intents' = Append(intents, x)
      BY <2>2
    <3>2. \A i \in 1 .. Len(intents) : intents[i] \in Intents
      BY <1>1, ElementOfSeq
    <3>3. intents \in Seq(Intents \cup {x})
      BY <1>1, <3>2
    <3>4. x \in Intents \cup {x}
      OBVIOUS
    <3>5. /\ Len(intents') = Len(intents) + 1
          /\ \A i \in 1 .. Len(intents) : intents'[i] = intents[i]
      BY <3>1, <3>3, <3>4, AppendProperties
    <3> QED BY <1>1, <3>5
  <2> QED BY <2>1, <2>2
<1> QED BY <1>2 DEF Working

(* Clients and ws.ts.                                                       *)
LEMMA UserWork == ASSUME TurnsInv, TurnsWell, WorkInv, Users PROVE WorkInv'
<1>1. WorkOK /\ TypeOK /\ TurnRuns
  BY DEF TurnsInv, ThreadInv, WorkInv
<1>2. /\ UNCHANGED <<reactor, sends, agent, feed, ingest>>
      /\ intents' = intents \/ \E x : intents' = Append(intents, x)
  BY DEF Users, UserStarts, UserInterrupts, UserAnswers, UserStops, UserTidies, ParkReads,
     ParkCommand, ParkStops, Calls
<1>3. Grows
  <2>1. Acts \/ UNCHANGED asked \/ asked' = [asked EXCEPT !.starts = @ + 1]
    BY DEF Users, UserStarts, UserInterrupts, UserAnswers, UserStops, UserTidies, ParkReads,
       ParkCommand, ParkStops, Calls
  <2> QED BY <1>1, <2>1, MishapsGrow
<1>4. SameShown /\ TurnRuns'
  <2>1. CASE UserStarts
    BY <1>1, <1>2, <2>1, StartUntouched, UntouchedSame DEF UserStarts
  <2>2. CASE UserInterrupts
    BY <1>1, <1>2, <2>2, InterruptSame, UntouchedSame DEF UserInterrupts
  <2>3. CASE UserAnswers
    BY <1>1, <1>2, <2>3, RequestsUntouched, UntouchedSame DEF UserAnswers
  <2>4. CASE UserStops \/ ParkReads \/ ParkStops
    BY <1>1, <1>2, <2>4, ThreadSame DEF UserStops, ParkReads, ParkStops
  <2>5. CASE UserTidies
    <3>1. Snooze \/ Unsnooze \/ Unarchive \/ \E reason \in {"user", "activity"} : Unsettle(reason)
      BY <2>5 DEF UserTidies
    <3> QED BY <1>1, <1>2, <3>1, StampsUntouched, UntouchedSame
  <2>6. CASE ParkCommand
    <3>1. Settle \/ Archive \/ UNCHANGED thread
      BY <2>6 DEF ParkCommand
    <3> QED BY <1>1, <1>2, <3>1, StampsUntouched, UntouchedSame, ThreadSame
  <2> QED BY <2>1, <2>2, <2>3, <2>4, <2>5, <2>6 DEF Users
<1>5. SameFeed /\ SameFlight /\ (Working => Working')
  BY <1>1, <1>2, WorkingStays DEF SameFeed, SameFlight
<1> QED BY <1>1, <1>2, <1>3, <1>4, <1>5, WorkCalm

(* The agent's requests and messages, and time.                             *)
LEMMA AgentWork ==
  ASSUME TurnsInv, TurnsWell, WorkInv,
         AgentAsks \/ AgentReports \/ AgentSpeaks \/ TimePasses \/ UNCHANGED vars
  PROVE  WorkInv'
<1>1. WorkOK /\ TypeOK /\ TurnRuns
  BY DEF TurnsInv, ThreadInv, WorkInv
<1>2. UNCHANGED <<intents, reactor, sends, ingest, asked>>
  BY DEF AgentAsks, AgentReports, AgentSpeaks, TimePasses, vars
<1>3. agent'.alive = agent.alive /\ agent'.turn = agent.turn
  BY <1>1 DEF AgentAsks, AgentReports, AgentSpeaks, TimePasses, vars, WorkOK, Agents
<1>4. SameFeed
  <2>1. CASE UNCHANGED feed
    BY <2>1 DEF SameFeed
  <2>2. CASE AgentAsks \/ AgentReports
    <3>1. PICK r \in Requests : \E type \in {"opened", "resolved"} :
              feed' = Append(feed, [type |-> type, request |-> r])
      BY <2>2 DEF AgentAsks, AgentReports
    <3>2. PICK type \in {"opened", "resolved"} : feed' = Append(feed, [type |-> type, request |-> r])
      BY <3>1
    <3>3. PICK e \in AgentEvents : e.type = type /\ feed' = Append(feed, e)
      BY <3>2 DEF AgentEvents
    <3> QED BY <3>3 DEF SameFeed
  <2>3. CASE AgentSpeaks
    <3>1. PICK streaming \in BOOLEAN :
            agent.turn # NoTurn /\ feed' = Append(feed, Message(agent.turn, streaming))
      BY <2>3 DEF AgentSpeaks
    <3>2. agent.turn \in Turns
      BY <1>1, <3>1 DEF WorkOK, Agents, TurnIds
    <3>3. PICK e \in AgentEvents : e.type = "message" /\ feed' = Append(feed, e)
      BY <3>1, <3>2 DEF Message, AgentEvents
    <3> QED BY <3>3 DEF SameFeed
  <2> QED BY <2>1, <2>2, <2>3 DEF TimePasses, vars
<1>5. SameShown /\ TurnRuns'
  <2>1. UNCHANGED thread \/ GraceExpires
    BY DEF AgentAsks, AgentReports, AgentSpeaks, TimePasses, vars, thread
  <2> QED BY <1>1, <1>2, <2>1, GraceUntouched, UntouchedSame
<1>6. SameFlight /\ Grows /\ (Working => Working')
  BY <1>1, <1>2, <1>3, WorkingStays, MishapsGrow DEF SameFlight
<1> QED BY <1>1, <1>2, <1>3, <1>4, <1>5, <1>6, WorkCalm

(* Checkpoints show no session.                                             *)
LEMMA CheckpointsWork == ASSUME TurnsInv, TurnsWell, WorkInv, Checkpoints PROVE WorkInv'
<1>1. WorkOK /\ OutputOK /\ TypeOK /\ TurnRuns
  BY DEF TurnsInv, ThreadInv, WorkInv
<1>2. UNCHANGED <<intents, reactor, sends, agent, feed, ingest>>
  BY DEF Checkpoints, CaptureReads, CaptureRecords
<1>3. Grows
  <2>1. (\E kinds : Mishaps(kinds)) \/ UNCHANGED asked
    BY DEF Checkpoints, CaptureReads, CaptureRecords
  <2> QED BY <1>1, <2>1, MishapsGrow
<1>4. SameShown /\ TurnRuns'
  <2>1. rows'.turn = rows.turn /\ rows'.status = rows.status
    BY <1>1, RecordsCalm DEF Checkpoints, CaptureReads, thread
  <2> QED BY <1>1, <1>2, <2>1, UntouchedSame
<1>5. SameFeed /\ SameFlight /\ (Working => Working')
  BY <1>1, <1>2, WorkingStays DEF SameFeed, SameFlight
<1> QED BY <1>1, <1>2, <1>3, <1>4, <1>5, WorkCalm

-----------------------------------------------------------------------------
(* The reactor.                                                             *)

(* A start that is taken is held.                                           *)
LEMMA TakeWork == ASSUME TurnsInv, TurnsWell, WorkInv, ReactorTakes PROVE WorkInv'
<1>1. WorkOK /\ TypeOK /\ TurnRuns
  BY DEF TurnsInv, ThreadInv, WorkInv
<1>2. /\ intents # <<>> /\ intents \in Seq(Intents) /\ intents' = Tail(intents)
      /\ reactor' = [pc |-> Head(intents).kind, intent |-> Head(intents),
                     status |-> rows.status, alive |-> agent.alive]
      /\ reactor.pc = "idle"
      /\ UNCHANGED <<thread, sends, agent, feed, ingest, asked>>
  BY <1>1 DEF WorkOK, ReactorTakes
<1>3. /\ Len(intents) \in Nat /\ Len(intents') \in Nat /\ Len(intents) = Len(intents') + 1
      /\ Head(intents) = intents[1] /\ intents[1] \in Intents
      /\ \A i \in 1 .. Len(intents') : intents'[i] = intents[i + 1]
  <2>1. Len(intents) \in Nat /\ Len(intents) # 0
    BY <1>2, LenProperties, EmptySeq
  <2>2. intents[1] \in Intents
    BY <1>2, <2>1, ElementOfSeq
  <2> QED BY <1>2, <2>1, <2>2, HeadTailProperties
<1>4. PICK head \in Intents : head = intents[1]
  BY <1>3
<1>5. reactor'.pc = head.kind /\ head.kind \notin {"reconcile", "record stop"}
  BY <1>2, <1>3, <1>4 DEF Intents
<1>6. Working => Working'
  <2>1. ASSUME NEW i \in 1 .. Len(intents), intents[i].kind = "start" PROVE Working'
    <3>1. CASE i = 1
      BY <1>4, <1>5, <2>1, <3>1 DEF Working, Held
    <3>2. CASE i # 1
      <4>1. PICK j \in 1 .. Len(intents') : j + 1 = i
        <5>1. i - 1 \in 1 .. Len(intents') /\ (i - 1) + 1 = i
          BY <1>3, <3>2
        <5> QED BY <5>1
      <4>2. intents'[j].kind = "start"
        BY <1>3, <2>1, <4>1
      <4> QED BY <4>2 DEF Working
    <3> QED BY <3>1, <3>2
  <2> QED BY <1>2, <2>1 DEF Working, Held
<1>7. SameShown /\ TurnRuns'
  BY <1>1, <1>2, ThreadSame
<1>8. SameFeed /\ SameFlight /\ Grows
  BY <1>2 DEF SameFeed, SameFlight, Grows
<1> QED BY <1>1, <1>2, <1>5, <1>6, <1>7, <1>8, WorkCalm

(* A start is marked, and sent.                                             *)
LEMMA HeldWork ==
  ASSUME TurnsInv, TurnsWell, WorkInv, ReactorMarks \/ ReactorKeepsSession \/ ReactorBinds
  PROVE  WorkInv'
<1>1. WorkOK /\ TypeOK /\ ThreadInv /\ TurnRuns /\ QueueInv
  BY DEF TurnsInv, ThreadInv, WorkInv, TurnsWell
<1>2. reactor.pc \in Held /\ reactor.pc # "reconcile" /\ UNCHANGED <<intents, agent, feed, ingest, asked>>
  BY DEF ReactorMarks, ReactorKeepsSession, ReactorBinds, Held
<1>3. /\ reactor'.pc \notin {"reconcile", "record stop"} /\ SameFlight /\ Working'
  <2>1. CASE ReactorMarks
    <3>1. reactor \in [pc : {"start", "ensure", "bind", "failure", "stop", "record stop",
                            "interrupt", "give up", "answer"},
                      intent : Intents, status : SessionStatuses, alive : BOOLEAN]
      BY <1>1, <1>2 DEF WorkOK, ReactorStates, Held
    <3>2. reactor' = [reactor EXCEPT !.pc = "ensure"] /\ sends' = sends
      BY <2>1 DEF ReactorMarks, ReactorGoes
    <3>3. reactor'.pc = "ensure"
      BY <3>1, <3>2
    <3> QED BY <1>2, <3>2, <3>3 DEF Held, SameFlight, Working
  <2>2. CASE ReactorKeepsSession \/ ReactorBinds
    <3>1. Fork /\ reactor' = Idle
      BY <2>2 DEF ReactorKeepsSession, ReactorBinds
    <3>2. PICK n : n = reactor.intent.start
      OBVIOUS
    <3>3. n \in Starts /\ sends[n].stage = "none"
      BY <1>1, <1>2, <3>2 DEF QueueInv, Asks
    <3>4. sends'[n].stage = "forked"
      BY <1>1, <3>1, <3>2, <3>3 DEF Fork, WorkOK, SendStates
    <3>5. \A m \in Starts : m # n => sends'[m] = sends[m]
      BY <1>1, <3>1, <3>2 DEF Fork, WorkOK
    <3>6. SameFlight
      BY <1>2, <3>3, <3>4, <3>5 DEF SameFlight, Failing
    <3> QED BY <3>1, <3>3, <3>4, <3>6 DEF Idle, Working
  <2> QED BY <2>1, <2>2
<1>4. TurnRuns' /\ (SameShown \/ SetShown("starting"))
  <2>1. CASE UNCHANGED thread
    BY <1>1, <1>2, <2>1, ThreadSame
  <2>2. CASE ReactorSets("starting")
    BY <1>1, <1>2, <2>2, ReactorSame DEF SessionStatuses, Live
  <2> QED BY <2>1, <2>2 DEF ReactorMarks, ReactorKeepsSession, ReactorBinds
<1>5. SameFeed /\ Grows
  BY <1>2 DEF SameFeed, Grows
<1> QED BY <1>1, <1>2, <1>3, <1>4, <1>5, WorkCalm

(* Calls that are answered, or fail; a stop that finds no session.           *)
LEMMA CallWork ==
  ASSUME TurnsInv, TurnsWell, WorkInv,
         \/ ReactorInterrupts \/ ReactorInterruptFails \/ ReactorAnswers
         \/ (ReactorStops \/ ReactorStartFails) /\ UNCHANGED <<sends, agent, feed>>
  PROVE  WorkInv'
<1>1. WorkOK /\ TypeOK /\ TurnRuns
  BY DEF TurnsInv, ThreadInv, WorkInv
<1>2. UNCHANGED <<intents, sends, feed, ingest>>
  BY DEF ReactorInterrupts, ReactorInterruptFails, ReactorAnswers, ReactorStops, ReactorStartFails
<1>3. agent'.alive = agent.alive /\ agent'.turn = agent.turn
  <2>1. CASE agent' = agent
    BY <2>1
  <2>2. CASE ReactorInterrupts
    BY <1>1, <2>2 DEF ReactorInterrupts, WorkOK, Agents
  <2>3. CASE ReactorAnswers
    BY <1>1, <2>3 DEF ReactorAnswers, WorkOK, Agents
  <2> QED BY <2>1, <2>2, <2>3 DEF ReactorInterruptFails
<1>4. Grows
  <2>1. UNCHANGED asked \/ \E kinds : Mishaps(kinds)
    BY DEF ReactorInterrupts, ReactorInterruptFails, ReactorAnswers, ReactorStops, ReactorStartFails,
       FailureMishaps
  <2> QED BY <1>1, <2>1, MishapsGrow
<1>5. SameShown /\ TurnRuns'
  <2>1. CASE UNCHANGED thread
    BY <1>1, <1>2, <2>1, ThreadSame
  <2>2. CASE ReactorAnswers /\ ~UNCHANGED thread
    <3>1. PICK r \in Requests : r = reactor.intent.request
      BY <1>1, <2>2 DEF ReactorAnswers, WorkOK
    <3>2. AppendStaleFailure(r)
      BY <2>2, <3>1 DEF ReactorAnswers
    <3> QED BY <1>1, <1>2, <3>2, RequestsUntouched, UntouchedSame
  <2> QED BY <2>1, <2>2 DEF ReactorInterrupts, ReactorInterruptFails, ReactorStops, ReactorStartFails
<1>6. /\ reactor.pc \notin {"idle", "reconcile"}
      /\ \/ reactor' = Idle /\ reactor.pc \notin Held
         \/ reactor' = [reactor EXCEPT !.pc = "give up"] /\ reactor.pc \notin Held
         \/ reactor' = [reactor EXCEPT !.pc = "record stop"] /\ reactor.pc \notin Held /\ ReactorStops
         \/ /\ reactor.pc = "ensure"
            /\ reactor' = [reactor EXCEPT !.pc = "failure", !.status = rows.status]
  BY DEF ReactorInterrupts, ReactorInterruptFails, ReactorAnswers, ReactorStops, ReactorStartFails,
     ReactorGoes, Held
<1>7. reactor \in [pc : {"start", "ensure", "bind", "failure", "stop", "record stop", "interrupt",
                        "give up", "answer"},
                  intent : Intents, status : SessionStatuses, alive : BOOLEAN]
  BY <1>1, <1>6 DEF WorkOK, ReactorStates
<1>8. /\ reactor'.pc # "reconcile" /\ (reactor.pc \in Held => reactor'.pc \in Held)
      /\ reactor'.pc = "record stop" => ReactorStops
  <2>1. CASE reactor' = Idle /\ reactor.pc \notin Held
    BY <2>1 DEF Idle
  <2>2. CASE reactor' = [reactor EXCEPT !.pc = "give up"] /\ reactor.pc \notin Held
    <3>1. reactor'.pc = "give up"
      BY <1>7, <2>2
    <3> QED BY <2>2, <3>1
  <2>3. CASE reactor' = [reactor EXCEPT !.pc = "record stop"] /\ reactor.pc \notin Held /\ ReactorStops
    <3>1. reactor'.pc = "record stop"
      BY <1>7, <2>3
    <3> QED BY <2>3, <3>1
  <2>4. CASE /\ reactor.pc = "ensure"
             /\ reactor' = [reactor EXCEPT !.pc = "failure", !.status = rows.status]
    <3>1. reactor'.pc = "failure"
      BY <1>7, <2>4
    <3> QED BY <2>4, <3>1 DEF Held
  <2> QED BY <1>6, <2>1, <2>2, <2>3, <2>4
<1>9. ASSUME ReactorStops, reactor'.pc = "record stop", sends' = sends, agent' = agent
      PROVE  ~agent'.alive \/ ~Except({"collateral", "resurrected", "missed"})'
  <2> SUFFICES ASSUME agent.alive PROVE ~Except({"collateral", "resurrected", "missed"})'
    BY <1>9
  <2>1. CASE ~HasSession
    <3>1. reactor.status \in {"none", "stopped"}
      BY <2>1 DEF HasSession
    <3>2. PICK kinds : Mishaps(kinds) /\ "missed" \in kinds
      BY <1>9, <3>1 DEF ReactorStops
    <3> QED BY <1>1, <3>2, ExceptMishaps
  <2>2. CASE HasSession /\ agent.bound /\ AgentStops
    BY <1>1, <1>9, <2>2 DEF AgentStops, WorkOK, Agents
  <2>3. CASE HasSession /\ ~agent.bound /\ reactor' = Idle
    BY <1>9, <2>3 DEF Idle
  <2> QED BY <1>9, <2>1, <2>2, <2>3 DEF ReactorStops
<1>10. SameFeed /\ SameFlight /\ (Working => Working')
  BY <1>1, <1>2, <1>3, <1>8, WorkingStays DEF SameFeed, SameFlight
<1>11. reactor'.pc = "record stop" => reactor.pc = "record stop" \/ ~agent'.alive
           \/ ~Except({"collateral", "resurrected", "missed"})'
  <2>1. ReactorStops => reactor.pc = "stop"
    BY DEF ReactorStops
  <2>2. ReactorStops => UNCHANGED <<sends, agent, feed>>
    BY <2>1 DEF ReactorInterrupts, ReactorInterruptFails, ReactorAnswers, ReactorStartFails
  <2> QED BY <1>8, <1>9, <2>2
<1> QED BY <1>1, <1>2, <1>3, <1>4, <1>5, <1>6, <1>8, <1>10, <1>11, WorkCalm

(* A stop is recorded, of a session that is gone.                           *)
LEMMA StopRecordWork ==
  ASSUME TurnsInv, TurnsWell, WorkInv, ReactorRecordsStop
  PROVE  WorkInv'
<1>1. WorkOK /\ ThreadInv /\ FeedInv /\ StuckInv /\ BusyInv /\ AliveInv /\ StopInv
  BY DEF TurnsInv, ThreadInv, WorkInv, TurnsWell
<1>2. /\ reactor.pc = "record stop" /\ ReactorSets("stopped") /\ reactor' = Idle
      /\ UNCHANGED <<intents, sends, agent, feed, ingest, asked>>
  BY DEF ReactorRecordsStop
<1>3. SetShown("stopped") /\ TurnRuns'
  BY <1>1, <1>2, ReactorSame DEF SessionStatuses
<1>4. SameFeed /\ SameFlight /\ Grows
  BY <1>2 DEF SameFeed, SameFlight, Grows
<1>5. /\ FlightInv => FlightInv'
      /\ Running' = Running /\ InFlight' = InFlight
      /\ \A n \in Starts : (Opens(n) => Opens(n)') /\ (Failing(n) => Failing(n)')
  BY <1>4, FlightStays
<1>6. StuckInv'
  <2>1. NewEvents({"opened", "resolved", "message"})
    BY <1>1, <1>4, SameFeedGrows
  <2>2. PICK types : types = {"opened", "resolved", "message"}
    OBVIOUS
  <2>3. NewEvents(types) /\ "turn.started" \notin types
    BY <2>1, <2>2
  <2>4. NoFailure' => NoFailure /\ Running \subseteq Running'
    BY <1>5 DEF NoFailure
  <2>5. Working => Working'
    BY <1>2 DEF Working, Held
  <2>6. SameShown \/ (ShownTurn' = NoTurn /\ (ShownStatus' \notin Live \/ Working'))
    BY <1>3 DEF SetShown, Live
  <2> QED BY <1>1, <1>2, <1>4, <1>5, <2>3, <2>4, <2>5, <2>6, StuckFrame
<1>7. Except({"collateral", "resurrected", "missed"})' => ~agent.alive
  BY <1>1, <1>2, <1>4, ExceptGrows DEF StopInv
<1>8. BusyInv'
  <2>1. ~agent.alive => InFlight' = {}
    BY <1>1, <1>5 DEF FeedInv, InFlight
  <2> QED BY <1>7, <2>1 DEF BusyInv
<1>9. AliveInv'
  BY <1>2, <1>7 DEF AliveInv
<1>10. StopInv'
  BY <1>2 DEF StopInv, Idle
<1> QED BY <1>3, <1>6, <1>8, <1>9, <1>10 DEF WorkInv

(* A failure is recorded: with nothing to be ingested, nothing is shown as   *)
(* live; with no other start under way, no prompt is in flight.              *)
LEMMA FailureRecordWork ==
  ASSUME TurnsInv, TurnsWell, WorkInv, NEW status \in {"stopped", "error"},
         NEW newer \in BOOLEAN, SetSession(status, NoTurn, newer),
         UNCHANGED <<intents, agent, feed, ingest>>,
         NEW k, NEW read, RecordMishaps(k, read), status = "stopped" => read = "stopped",
         reactor.pc # "reconcile", reactor'.pc = "record stop" => reactor.pc = "record stop",
         k \in Starts => sends[k].stage \notin {"begun", "prompted"},
         \A n \in Starts :
             sends'[n] = sends[n]
             \/ (sends[n].stage \notin {"begun", "prompted"}
                 /\ sends'[n].stage \notin {"begun", "prompted"})
  PROVE  WorkInv'
<1>1. WorkOK /\ ThreadInv /\ StuckInv /\ BusyInv /\ AliveInv /\ StopInv
  BY DEF TurnsInv, ThreadInv, WorkInv, TurnsWell
<1>2. PICK new : /\ Mishaps(new)
                 /\ "outrun" \notin new => feed = <<>> /\ ingest.pc = "idle"
                 /\ "collateral" \notin new => /\ UnderWay = {k}
                                               /\ read = "stopped" => rows.status = "stopped"
  <2>1. PICK new : new = {x \in {"outrun"} : feed # <<>> \/ ingest.pc # "idle"}
                         \cup {x \in {"collateral"} :
                                   UnderWay # {k} \/ (read = "stopped" /\ rows.status # "stopped")}
    OBVIOUS
  <2>2. Mishaps(new)
    BY <2>1 DEF RecordMishaps
  <2>3. "outrun" \in new <=> feed # <<>> \/ ingest.pc # "idle"
    BY <2>1
  <2>4. "collateral" \in new <=> UnderWay # {k} \/ (read = "stopped" /\ rows.status # "stopped")
    BY <2>1
  <2> QED BY <2>2, <2>3, <2>4
<1>3. Grows
  BY <1>1, <1>2, MishapsGrow
<1>4. /\ SetShown(status) /\ TurnRuns'
      /\ ingest.pc # "write" => ShownStatus' = status /\ ShownTurn' = NoTurn
  BY <1>1, SessionSame DEF SessionStatuses
<1>5. \A n \in Starts : /\ Joined(n)' => Joined(n) /\ sends'[n] = sends[n]
                        /\ Opens(n)' => Opens(n)
                        /\ n \in InFlight' <=> n \in InFlight
  BY DEF Joined, Opens, InFlight
<1>6. StuckInv'
  <2> SUFFICES ASSUME Except({"overtaking", "outrun"})', reactor.pc # "reconcile"
               PROVE  FlightInv' /\ AllAccounted' /\ AllEnded'
    BY DEF StuckInv
  <2>1. FlightInv
    BY <1>1, <1>3, ExceptGrows DEF StuckInv
  <2>2. FlightInv'
    BY <1>5, <2>1 DEF FlightInv
  <2>3. feed = <<>> /\ ingest.pc = "idle"
    BY <1>1, <1>2, ExceptMishaps
  <2>4. ShownStatus' = status /\ status \notin Live /\ ShownTurn' = NoTurn
    BY <1>4, <2>3 DEF Live
  <2>5. Len(feed') = 0
    BY <2>3
  <2>6. \A i : i \notin 1 .. 0
    BY NoneBelow
  <2>7. Accounted(feed', ShownStatus', ShownTurn', Running')
    BY <2>4, <2>5, <2>6 DEF Accounted
  <2> QED BY <2>2, <2>4, <2>7, PartsThen
<1>7. BusyInv'
  <2>1. ASSUME Except({"collateral", "resurrected", "missed"})' PROVE InFlight' = {}
    <3>1. UnderWay = {k}
      BY <1>1, <1>2, <2>1, ExceptMishaps
    <3>2. \A n \in Starts : n \in InFlight => n = k
      <4>1. \A n \in Starts : n \in InFlight => n \in UnderWay
        BY DEF UnderWay, InFlight
      <4> QED BY <3>1, <4>1
    <3>3. \A n \in Starts : n \notin InFlight
      BY <3>2 DEF InFlight
    <3> QED BY <1>5, <3>3 DEF InFlight
  <2> QED BY <2>1 DEF BusyInv
<1>8. AliveInv'
  <2>1. SameFeed
    BY DEF SameFeed
  <2>2. NewEvents({"opened", "resolved", "message"})
    BY <1>1, <2>1, SameFeedGrows
  <2>3. PICK types : types = {"opened", "resolved", "message"}
    OBVIOUS
  <2>4. NewEvents(types) /\ "exited" \notin types
    BY <2>2, <2>3
  <2>5. ASSUME Except({"collateral", "resurrected", "missed"})'
        PROVE  ShownStatus' = ShownStatus \/ ShownStatus' # "stopped"
    <3>1. read = "stopped" => rows.status = "stopped"
      BY <1>1, <1>2, <2>5, ExceptMishaps
    <3> QED BY <1>4, <3>1 DEF SetShown, SameShown, ShownStatus
  <2>6. ShownStatus' = ShownStatus \/ ShownStatus' # "stopped" => AliveInv'
    BY <1>1, <1>3, <2>4, AliveFrame
  <2> QED BY <2>5, <2>6 DEF AliveInv
<1>9. StopInv'
  BY <1>1, <1>3, StopFrame
<1> QED BY <1>4, <1>6, <1>7, <1>8, <1>9 DEF WorkInv

-----------------------------------------------------------------------------
(* Sessions that end and start.                                             *)

(* Every prompt in flight fails.                                            *)
PromptsFail ==
    \A n \in Starts :
        /\ sends'[n].stage \notin {"begun", "prompted"}
        /\ n \in InFlight \/ Failing(n) => Failing(n)'

(* As they do when their session ends.                                      *)
LEMMA FailedPrompts ==
  ASSUME WorkOK, sends' = FailedWith(InFlight)
  PROVE  /\ PromptsFail
         /\ \A n \in Starts : sends'[n].stage \in {"none", "done"} => sends[n].stage \in {"none", "done"}
<1>1. ASSUME NEW n \in Starts
      PROVE  /\ sends'[n].stage \notin {"begun", "prompted"}
             /\ n \in InFlight \/ Failing(n) => Failing(n)'
             /\ sends'[n].stage \in {"none", "done"} => sends[n].stage \in {"none", "done"}
  <2>1. sends[n] \in SendStates
    BY DEF WorkOK
  <2>2. CASE n \in InFlight
    <3>1. sends'[n] = [sends[n] EXCEPT !.stage = "failed"]
      BY <2>2 DEF FailedWith
    <3>2. sends'[n].stage = "failed"
      BY <2>1, <3>1 DEF SendStates
    <3> QED BY <3>2 DEF Failing
  <2>3. CASE n \notin InFlight
    <3>1. sends'[n] = sends[n]
      BY <2>3 DEF FailedWith
    <3> QED BY <2>3, <3>1 DEF Failing, InFlight
  <2> QED BY <2>2, <2>3
<1> QED BY <1>1 DEF PromptsFail

(* What such a step leaves to show.                                         *)
LEMMA SessionWork ==
  ASSUME WorkInv, Grows, SessionFrame, PromptsFail, NEW types, NewEvents(types),
         "turn.started" \notin types, Working => Working', AliveInv', StopInv'
  PROVE  WorkInv'
<1>1. TurnRuns /\ StuckInv
  BY DEF WorkInv
<1>2. SameShown /\ TurnRuns'
  BY <1>1, ThreadSame DEF SessionFrame
<1>3. \A n \in Starts : ~Joined(n)' /\ ~Opens(n)'
  BY DEF PromptsFail, Joined, Opens
<1>4. InFlight' = {}
  BY DEF PromptsFail, InFlight
<1>5. FlightInv'
  BY <1>3 DEF FlightInv
<1>6. ASSUME NoFailure' PROVE NoFailure /\ Running \subseteq Running'
  <2>1. \A n \in Starts : ~Failing(n) /\ n \notin InFlight
    BY <1>6 DEF PromptsFail, NoFailure
  <2>2. \A n \in Starts : ~Joined(n)
    BY <2>1 DEF Joined, InFlight
  <2>3. Running = {}
    BY <2>2 DEF Running
  <2> QED BY <2>1, <2>3 DEF NoFailure
<1>7. reactor'.pc # "reconcile" => reactor.pc # "reconcile"
  BY DEF SessionFrame
<1>8. StuckInv'
  BY <1>1, <1>2, <1>5, <1>6, <1>7, StuckFrame
<1>9. BusyInv'
  BY <1>4 DEF BusyInv
<1> QED BY <1>2, <1>8, <1>9 DEF WorkInv

(* A session is stopped.                                                    *)
LEMMA StopWork ==
  ASSUME TurnsInv, TurnsWell, WorkInv, Grows, AgentStops, SessionFrame,
         reactor.pc \in Held => reactor'.pc \in Held
  PROVE  WorkInv'
<1>1. WorkOK /\ FeedInv
  BY DEF TurnsInv, TurnsWell
<1>2. PICK reported \in {{}} \cup {{r} : r \in OpenAsks} :
        /\ feed' = feed \o Exit(reported) /\ sends' = FailedWith(InFlight)
        /\ agent' = [agent EXCEPT !.alive = FALSE, !.turn = NoTurn, !.asks = AsksCancelled]
  BY DEF AgentStops
<1>3. reported \in SUBSET Requests /\ ~agent'.alive
  BY <1>1, <1>2, ReportedType DEF WorkOK, Agents
<1>4. PICK types : types = {"resolved", "exited"}
  OBVIOUS
<1>5. NewEvents(types) /\ "turn.started" \notin types
  <2>1. reactor.pc # "reconcile"
    BY DEF SessionFrame
  <2>2. PICK g : g = feed'
    OBVIOUS
  <2>3. /\ Extends(feed, g)
        /\ \A i \in 1 .. Len(g) : i \in 1 .. Len(feed) \/ g[i].type \in {"resolved", "exited"}
    BY <1>1, <1>2, <1>3, <2>1, <2>2, ExitCloses
  <2> QED BY <1>4, <2>2, <2>3 DEF NewEvents
<1>6. /\ PromptsFail
      /\ \A n \in Starts : sends'[n].stage \in {"none", "done"} => sends[n].stage \in {"none", "done"}
  BY <1>1, <1>2, FailedPrompts
<1>7. Working => Working'
  BY <1>1, <1>6, WorkingStays DEF SessionFrame
<1>8. AliveInv' /\ StopInv'
  BY <1>3 DEF AliveInv, StopInv
<1> QED BY <1>5, <1>6, <1>7, <1>8, SessionWork

(* A session is started: it is the last that the feed speaks of.            *)
LEMMA NewSessionWork ==
  ASSUME TurnsInv, TurnsWell, WorkInv, Grows, AgentStarts, SessionFrame, PromptsFail,
         \A n \in Starts : sends'[n].stage \in {"none", "done"} => sends[n].stage \in {"none", "done"},
         reactor.pc \in Held => reactor'.pc \in Held, StopInv'
  PROVE  WorkInv'
<1>1. WorkOK /\ FeedInv
  BY DEF TurnsInv, TurnsWell
<1>2. PICK reported \in {{}} \cup {{r} : r \in OpenAsks} :
        feed' = feed \o Exit(reported) \o <<Event("started"), Event("ready")>>
  BY DEF AgentStarts
<1>3. reported \in SUBSET Requests
  BY <1>2, ReportedType
<1>4. PICK g, h : g = feed \o Exit(reported) /\ h = feed'
  OBVIOUS
<1>5. /\ g \in Seq(AgentEvents) /\ Extends(feed, g)
      /\ \A i \in 1 .. Len(g) : i \in 1 .. Len(feed) \/ g[i].type \in {"resolved", "exited"}
  <2>1. reactor.pc # "reconcile"
    BY DEF SessionFrame
  <2> QED BY <1>1, <1>3, <1>4, <2>1, ExitCloses
<1>6. /\ Extends(g, h) /\ Len(h) = Len(g) + 2 /\ Len(g) \in Nat
      /\ h[Len(g) + 1].type = "started" /\ h[Len(g) + 2].type = "ready"
  <2>1. PICK s, r : s = Event("started") /\ r = Event("ready")
    OBVIOUS
  <2>2. s \in AgentEvents /\ r \in AgentEvents /\ s.type = "started" /\ r.type = "ready"
    BY <2>1 DEF Event, AgentEvents
  <2>3. PICK p : p = <<s, r>>
    OBVIOUS
  <2>4. p \in Seq(AgentEvents) /\ Len(p) = 2 /\ p[1] = s /\ p[2] = r
    BY <2>2, <2>3
  <2>5. h = g \o p
    BY <1>2, <1>4, <2>1, <2>3
  <2>6. /\ Extends(g, h) /\ Len(h) = Len(g) + Len(p)
        /\ \A i \in 1 .. Len(p) : h[Len(g) + i] = p[i]
    BY <1>5, <2>4, <2>5, ConcatFeed
  <2>7. 1 \in 1 .. Len(p) /\ 2 \in 1 .. Len(p) /\ Len(g) \in Nat
    BY <1>5, <2>4, LenProperties
  <2>8. h[Len(g) + 1] = p[1] /\ h[Len(g) + 2] = p[2]
    BY <2>6, <2>7
  <2> QED BY <2>2, <2>4, <2>6, <2>7, <2>8
<1>7. /\ \A i \in 1 .. Len(feed) : g[i] = feed[i] /\ i \in 1 .. Len(g)
      /\ \A i \in 1 .. Len(g) : h[i] = g[i]
      /\ Len(feed) \in Nat
  BY <1>5, <1>6 DEF Extends
<1>8. \A i \in 1 .. Len(h) : i \in 1 .. Len(g) \/ i = Len(g) + 1 \/ i = Len(g) + 2
  BY <1>6
<1>9. PICK types : types = {"resolved", "exited", "started", "ready"}
  OBVIOUS
<1>10. NewEvents(types) /\ "turn.started" \notin types
  <2>1. Extends(feed, h)
    BY <1>5, <1>6, <1>7 DEF Extends
  <2>2. \A i \in 1 .. Len(h) : i \notin 1 .. Len(feed) => h[i].type \in types
    BY <1>5, <1>6, <1>7, <1>8, <1>9
  <2> QED BY <1>4, <1>9, <2>1, <2>2 DEF NewEvents
<1>11. Working => Working'
  BY <1>1, WorkingStays DEF SessionFrame
<1>12. AliveInv'
  <2>1. PICK i \in 1 .. Len(h) : i = Len(g) + 2
    BY <1>6
  <2>2. h[i].type = "ready" /\ \A k \in 1 .. Len(h) : ~(i < k)
    BY <1>6, <2>1
  <2>3. PICK status : status = ShownStatus'
    OBVIOUS
  <2>4. Revived(h, status)
    BY <2>2 DEF Revived
  <2> QED BY <1>4, <2>3, <2>4, PartsThen DEF AliveInv
<1> QED BY <1>10, <1>11, <1>12, SessionWork

(* A stop, an interrupt that fails, and a start that cannot be made.        *)
LEMMA ReactorStopWork ==
  ASSUME TurnsInv, TurnsWell, WorkInv, ReactorStops \/ ReactorGivesUp \/ ReactorStartFails
  PROVE  WorkInv'
<1>1. WorkOK
  BY DEF TurnsInv
<1>2. /\ UNCHANGED <<thread, intents, ingest>>
      /\ reactor.pc \in {"stop", "give up", "ensure"}
      /\ AgentStops \/ UNCHANGED <<sends, agent, feed>>
      /\ ReactorGivesUp => AgentStops
  BY DEF ReactorStops, ReactorGivesUp, ReactorStartFails
<1>3. asked'.starts = asked.starts /\ Grows
  <2>1. CASE ReactorStops
    BY <1>1, <2>1, MishapsStarts, MishapsGrow DEF ReactorStops
  <2>2. CASE ReactorGivesUp
    BY <2>2 DEF ReactorGivesUp, Grows
  <2>3. CASE ReactorStartFails
    BY <1>1, <2>3, MishapsStarts, MishapsGrow DEF ReactorStartFails, FailureMishaps
  <2> QED BY <2>1, <2>2, <2>3
<1>4. /\ reactor.pc # "reconcile" /\ reactor'.pc # "reconcile"
      /\ reactor'.pc \in Held => reactor.pc \in Held /\ reactor'.intent = reactor.intent
      /\ reactor.pc \in Held => reactor'.pc \in Held
  <2>1. \/ reactor' = Idle /\ reactor.pc \notin Held
        \/ reactor' = [reactor EXCEPT !.pc = "record stop"] /\ reactor.pc \notin Held
        \/ /\ reactor.pc = "ensure"
           /\ reactor' = [reactor EXCEPT !.pc = "failure", !.status = rows.status]
    BY DEF ReactorStops, ReactorGivesUp, ReactorStartFails, ReactorGoes, Held
  <2>2. reactor \in [pc : {"start", "ensure", "bind", "failure", "stop", "record stop",
                          "interrupt", "give up", "answer"},
                    intent : Intents, status : SessionStatuses, alive : BOOLEAN]
    BY <1>1, <1>2 DEF WorkOK, ReactorStates
  <2>3. CASE reactor' = Idle /\ reactor.pc \notin Held
    BY <1>2, <2>3 DEF Idle, Held
  <2>4. CASE reactor' = [reactor EXCEPT !.pc = "record stop"] /\ reactor.pc \notin Held
    BY <1>2, <2>2, <2>4 DEF Held
  <2>5. CASE /\ reactor.pc = "ensure"
             /\ reactor' = [reactor EXCEPT !.pc = "failure", !.status = rows.status]
    BY <1>2, <2>2, <2>5 DEF Held
  <2> QED BY <2>1, <2>3, <2>4, <2>5
<1>5. CASE AgentStops
  <2>1. SessionFrame
    BY <1>2, <1>3, <1>4 DEF SessionFrame
  <2> QED BY <1>3, <1>4, <1>5, <2>1, StopWork
<1>6. CASE ~AgentStops
  BY <1>2, <1>6, CallWork
<1> QED BY <1>5, <1>6

(* A start, or a call that finds its session gone, makes a new one.         *)
LEMMA ReactorStartWork ==
  ASSUME TurnsInv, TurnsWell, WorkInv, ReactorStartsSession \/ ReactorRecovers
  PROVE  WorkInv'
<1>1. WorkOK
  BY DEF TurnsInv
<1>2. /\ UNCHANGED <<thread, intents, ingest>> /\ AgentStarts
      /\ sends' = FailedWith(InFlight)
      /\ reactor.pc \in {"interrupt", "answer", "ensure"}
  BY DEF ReactorStartsSession, ReactorRecovers
<1>3. asked'.starts = asked.starts /\ Grows
  <2>1. CASE ReactorStartsSession
    BY <2>1 DEF ReactorStartsSession, Grows
  <2>2. CASE ReactorRecovers
    BY <1>1, <2>2, MishapsStarts, MishapsGrow DEF ReactorRecovers
  <2> QED BY <2>1, <2>2
<1>4. /\ reactor.pc # "reconcile" /\ reactor'.pc \notin {"reconcile", "record stop"}
      /\ reactor'.pc \in Held => reactor.pc \in Held /\ reactor'.intent = reactor.intent
      /\ reactor.pc \in Held => reactor'.pc \in Held
  <2>1. CASE ReactorStartsSession
    <3>1. reactor.pc = "ensure" /\ reactor' = [reactor EXCEPT !.pc = "bind"]
      BY <2>1 DEF ReactorStartsSession, ReactorGoes
    <3>2. reactor \in [pc : {"start", "ensure", "bind", "failure", "stop", "record stop",
                            "interrupt", "give up", "answer"},
                      intent : Intents, status : SessionStatuses, alive : BOOLEAN]
      BY <1>1, <3>1 DEF WorkOK, ReactorStates
    <3> QED BY <3>1, <3>2 DEF Held
  <2>2. CASE ReactorRecovers
    BY <1>2, <2>2 DEF ReactorRecovers
  <2> QED BY <2>1, <2>2
<1>5. /\ PromptsFail
      /\ \A n \in Starts : sends'[n].stage \in {"none", "done"} => sends[n].stage \in {"none", "done"}
  BY <1>1, <1>2, FailedPrompts
<1>6. SessionFrame
  BY <1>2, <1>3, <1>4 DEF SessionFrame
<1>7. StopInv'
  BY <1>4 DEF StopInv
<1> QED BY <1>2, <1>3, <1>4, <1>5, <1>6, <1>7, NewSessionWork

-----------------------------------------------------------------------------
(* Sends.                                                                   *)

(* A send that is not in flight goes on, or fails, or has its failure read.  *)
LEMMA SendMoves ==
  ASSUME TurnsInv, TurnsWell, WorkInv, NEW n \in Starts,
         NEW stage \in {"recovering", "failed", "set stopped", "set error"}, SendStep(n, stage),
         sends[n].stage \notin {"begun", "prompted"},
         Failing(n) => stage # "recovering", Grows,
         UNCHANGED <<thread, intents, reactor, agent, feed, ingest>>
  PROVE  WorkInv'
<1>1. WorkOK /\ TurnRuns
  BY DEF TurnsInv, WorkInv
<1>2. sends'[n].stage = stage /\ \A m \in Starts : m # n => sends'[m] = sends[m]
  BY <1>1, SendStepped
<1>3. Working'
  BY <1>2 DEF Working
<1>4. SameFlight
  <2>1. Failing(n) => Failing(n)'
    BY <1>2 DEF Failing
  <2> QED BY <1>2, <2>1 DEF SameFlight
<1>5. SameShown /\ TurnRuns' /\ SameFeed
  BY <1>1, ThreadSame DEF SameFeed
<1> QED BY <1>1, <1>3, <1>4, <1>5, WorkCalm

(* A send is routed: it joins a turn that runs, or is alone.                *)
LEMMA RoutesWork ==
  ASSUME TurnsInv, TurnsWell, WorkInv, NEW n \in Starts, SendRoutes(n)
  PROVE  WorkInv'
<1>1. WorkOK /\ TurnRuns /\ StuckInv /\ BusyInv /\ AliveInv /\ StopInv
  BY DEF TurnsInv, WorkInv
<1>2. /\ sends[n].stage = "forked"
      /\ UNCHANGED <<thread, intents, reactor, agent, feed, ingest>>
  BY DEF SendRoutes
<1>3. Grows
  BY <1>1, MishapsGrow DEF SendRoutes
<1>4. CASE ~agent.alive
  <2>1. PICK stage \in {"recovering", "failed"} : SendStep(n, stage)
    BY <1>4 DEF SendRoutes
  <2>2. ~Failing(n)
    BY <1>2 DEF Failing
  <2> QED BY <1>2, <1>3, <2>1, <2>2, SendMoves
<1>5. CASE agent.alive
  <2>1. PICK steers, turn, new :
          /\ sends' = [sends EXCEPT ![n] = [stage |-> "begun", steers |-> steers, turn |-> turn]]
          /\ steers <=> InFlight # {} /\ agent.turn # NoTurn
          /\ steers => turn = agent.turn
          /\ "overtaking" \in new <=> \E m \in Starts : sends[m].stage = "begun"
          /\ Mishaps(new)
    <3>1. PICK steers : steers = (InFlight # {} /\ agent.turn # NoTurn)
      OBVIOUS
    <3>2. PICK turn : turn = IF steers THEN agent.turn ELSE n
      OBVIOUS
    <3>3. PICK new : new = {k \in {"overtaking"} : \E m \in Starts : sends[m].stage = "begun"}
      OBVIOUS
    <3>4. sends' = [sends EXCEPT ![n] = [stage |-> "begun", steers |-> steers, turn |-> turn]]
      BY <1>5, <3>1, <3>2 DEF SendRoutes
    <3>5. Mishaps(new)
      BY <1>5, <3>3 DEF SendRoutes
    <3>6. "overtaking" \in new <=> \E m \in Starts : sends[m].stage = "begun"
      BY <3>3
    <3> QED BY <3>1, <3>2, <3>4, <3>5, <3>6
  <2>2. /\ sends'[n].stage = "begun" /\ sends'[n].steers = steers /\ sends'[n].turn = turn
        /\ \A m \in Starts : m # n => sends'[m] = sends[m]
    BY <1>1, <2>1 DEF WorkOK
  <2>3. SameShown /\ TurnRuns' /\ SameFeed
    BY <1>1, <1>2, ThreadSame DEF SameFeed
  <2>4. PICK types : types = {"opened", "resolved", "message"}
    OBVIOUS
  <2>5. /\ NewEvents(types) /\ "turn.started" \notin types /\ "exited" \notin types
        /\ types \cap {"exited", "started", "ready", "turn.completed"} = {}
    BY <1>1, <2>3, <2>4, SameFeedGrows
  <2>6. /\ \A m \in Starts : (Joined(m) => Joined(m)' /\ sends'[m] = sends[m])
                             /\ (Opens(m) => Opens(m)') /\ (Failing(m)' <=> Failing(m))
        /\ Working'
    <3>1. ~Joined(n) /\ ~Opens(n) /\ ~Failing(n) /\ ~Failing(n)'
      BY <1>2, <2>2 DEF Joined, Opens, Failing
    <3>2. \A m \in Starts : m # n => /\ Joined(m) => Joined(m)'
                                     /\ Opens(m) => Opens(m)'
                                     /\ Failing(m)' <=> Failing(m)
      BY <2>2 DEF Joined, Opens, Failing
    <3>3. Working'
      BY <2>2 DEF Working
    <3> QED BY <2>2, <3>1, <3>2, <3>3
  <2>7. ASSUME Except({"overtaking", "outrun"})', reactor'.pc # "reconcile" PROVE StuckInv'
    <3>1. FlightInv
      BY <1>1, <1>2, <1>3, <2>7, ExceptGrows DEF StuckInv
    <3>2. \A m \in Starts : sends[m].stage # "begun"
      <4>1. {"overtaking", "outrun"} \cap new = {}
        BY <1>1, <2>1, <2>7, ExceptMishaps
      <4> QED BY <2>1, <4>1
    <3>3. FlightInv'
      <4>1. CASE steers
        <5>1. \A m \in Starts : Joined(m)' => sends'[m].turn = agent.turn /\ agent.turn # NoTurn
          <6>1. \A m \in Starts : m # n /\ Joined(m)' => Joined(m) /\ sends'[m] = sends[m]
            BY <2>2 DEF Joined
          <6> QED BY <2>1, <2>2, <3>1, <4>1, <6>1 DEF FlightInv
        <5>2. \A m \in Starts : ~Opens(m)'
          BY <2>2, <3>2, <4>1 DEF Opens
        <5> QED BY <1>2, <5>1, <5>2 DEF FlightInv
      <4>2. CASE ~steers
        <5>1. InFlight = {}
          <6>1. \A m \in Starts : m \in InFlight => Joined(m)
            BY <3>2 DEF InFlight, Joined
          <6>2. \A m \in InFlight : m \in Starts
            BY DEF InFlight
          <6> QED BY <2>1, <3>1, <4>2, <6>1, <6>2 DEF FlightInv
        <5>2. \A m \in Starts : m # n => sends'[m].stage \notin {"begun", "prompted"}
          BY <2>2, <5>1 DEF InFlight
        <5>3. \A m \in Starts : ~Joined(m)' /\ (m \in InFlight' => m = n) /\ (Opens(m)' => m = n)
          BY <2>2, <4>2, <5>2 DEF Joined, Opens, InFlight
        <5> QED BY <5>3 DEF FlightInv
      <4> QED BY <4>1, <4>2
    <3>4. ASSUME NoFailure' PROVE NoFailure /\ Running \subseteq Running'
      <4>1. NoFailure
        BY <2>6, <3>4 DEF NoFailure
      <4> QED BY <2>6, <4>1 DEF Running
    <3>5. reactor'.pc # "reconcile" => reactor.pc # "reconcile"
      BY <1>2
    <3> QED BY <1>1, <1>3, <2>3, <2>5, <2>6, <3>3, <3>4, <3>5, StuckFrame
  <2>8. StuckInv'
    BY <2>7 DEF StuckInv
  <2>9. BusyInv'
    <3>1. CASE steers
      <4>1. /\ InFlight # {}
            /\ \A m \in Starts : Opens(m) \/ Failing(m) => Opens(m)' \/ Failing(m)'
        BY <2>1, <2>6, <3>1
      <4> QED BY <1>1, <1>3, <2>3, <2>5, <4>1, BusyFrame DEF SameShown
    <3>2. CASE ~steers
      <4>1. Opens(n)'
        BY <2>2, <3>2 DEF Opens
      <4> QED BY <4>1 DEF BusyInv
    <3> QED BY <3>1, <3>2
  <2>10. AliveInv'
    BY <1>1, <1>2, <1>3, <2>3, <2>5, AliveFrame DEF SameShown
  <2>11. StopInv'
    BY <1>1, <1>2, <1>3, StopFrame
  <2> QED BY <2>3, <2>8, <2>9, <2>10, <2>11 DEF WorkInv
<1> QED BY <1>4, <1>5

(* A send has a session started for it, or fails.                           *)
LEMMA RecoversWork ==
  ASSUME TurnsInv, TurnsWell, WorkInv, NEW n \in Starts, SendRecovers(n)
  PROVE  WorkInv'
<1>1. WorkOK /\ TurnRuns /\ FeedInv
  BY DEF TurnsInv, TurnsWell, WorkInv
<1>2. sends[n].stage = "recovering" /\ UNCHANGED <<thread, intents, reactor, ingest>>
  BY DEF SendRecovers
<1>3. reactor.pc # "reconcile"
  BY <1>1, <1>2, SendsAfter
<1>4. asked'.starts = asked.starts /\ Grows
  BY <1>1, MishapsStarts, MishapsGrow DEF SendRecovers
<1>5. CASE /\ AgentStarts /\ sends' = [FailedWith(InFlight) EXCEPT ![n].stage = "forked"]
           /\ Mishaps({"resurrected"})
  <2>1. PICK s \in [Starts -> SendStates] : s = FailedWith(InFlight)
    BY <1>1, FailedType
  <2>2. \A m \in Starts : s[m].stage = IF sends[m].stage \in {"begun", "prompted"} THEN "failed"
                                       ELSE sends[m].stage
    BY <1>1, <2>1 DEF FailedWith, InFlight, WorkOK, SendStates
  <2>3. /\ sends'[n].stage = "forked"
        /\ \A m \in Starts : m # n => sends'[m] = s[m]
    BY <1>5, <2>1 DEF SendStates
  <2>4. PromptsFail
    <3>1. n \notin InFlight /\ ~Failing(n)
      BY <1>2 DEF InFlight, Failing
    <3>2. \A m \in Starts : m # n => /\ sends'[m].stage \notin {"begun", "prompted"}
                                     /\ m \in InFlight \/ Failing(m) => Failing(m)'
      BY <2>2, <2>3 DEF InFlight, Failing
    <3> QED BY <2>3, <3>1, <3>2 DEF PromptsFail
  <2>5. \A m \in Starts : sends'[m].stage \in {"none", "done"} => sends[m].stage \in {"none", "done"}
    BY <2>2, <2>3
  <2>6. SessionFrame
    BY <1>2, <1>3, <1>4 DEF SessionFrame
  <2>7. StopInv'
    <3>1. ASSUME Except({"collateral", "resurrected", "missed"})' PROVE FALSE
      <4>1. {"collateral", "resurrected", "missed"} \cap {"resurrected"} = {}
        BY <1>1, <1>5, <3>1, ExceptMishaps
      <4> QED BY <4>1
    <3> QED BY <3>1 DEF StopInv
  <2>8. reactor.pc \in Held => reactor'.pc \in Held
    BY <1>2
  <2> QED BY <1>4, <1>5, <2>4, <2>5, <2>6, <2>7, <2>8, NewSessionWork
<1>6. CASE SendStep(n, "failed") /\ UNCHANGED <<agent, feed>>
  BY <1>2, <1>4, <1>6, SendMoves DEF Failing
<1> QED BY <1>5, <1>6 DEF SendRecovers

(* A prompt that fails leaves a failure to be recorded.                     *)
LEMMA PromptFails ==
  ASSUME TurnsInv, TurnsWell, WorkInv, NEW n \in InFlight, SendStep(n, "failed"),
         UNCHANGED <<thread, intents, reactor, agent, feed, ingest, asked>>
  PROVE  WorkInv'
<1>1. WorkOK /\ TurnRuns /\ StuckInv /\ BusyInv /\ AliveInv /\ StopInv
  BY DEF TurnsInv, WorkInv
<1>2. n \in Starts
  BY DEF InFlight
<1>3. sends'[n].stage = "failed" /\ \A m \in Starts : m # n => sends'[m] = sends[m]
  BY <1>1, <1>2, SendStepped
<1>4. SameShown /\ TurnRuns' /\ SameFeed /\ Grows
  BY <1>1, ThreadSame DEF SameFeed, Grows
<1>5. PICK types : types = {"opened", "resolved", "message"}
  OBVIOUS
<1>6. /\ NewEvents(types) /\ "turn.started" \notin types /\ "exited" \notin types
      /\ types \cap {"exited", "started", "ready", "turn.completed"} = {}
  BY <1>1, <1>4, <1>5, SameFeedGrows
<1>7. /\ \A m \in Starts : /\ Joined(m)' => Joined(m) /\ sends'[m] = sends[m]
                           /\ Opens(m)' => Opens(m)
                           /\ m \in InFlight' => m \in InFlight
      /\ Failing(n)' /\ Working'
  BY <1>2, <1>3 DEF Joined, Opens, InFlight, Failing, Working
<1>8. FlightInv => FlightInv'
  <2> SUFFICES ASSUME FlightInv PROVE FlightInv'
    OBVIOUS
  <2>1. \A m \in Starts : Joined(m)' => sends'[m].turn = agent'.turn /\ agent'.turn # NoTurn
    BY <1>7 DEF FlightInv
  <2>2. \A m, l \in Starts : Opens(m)' /\ l \in InFlight' => l = m
    BY <1>7 DEF FlightInv
  <2> QED BY <2>1, <2>2 DEF FlightInv
<1>9. ~NoFailure'
  BY <1>2, <1>7 DEF NoFailure
<1>10. reactor'.pc # "reconcile" => reactor.pc # "reconcile"
  OBVIOUS
<1>11. StuckInv'
  BY <1>1, <1>4, <1>6, <1>7, <1>8, <1>9, <1>10, StuckFrame
<1>12. BusyInv'
  BY <1>2, <1>7 DEF BusyInv
<1>13. AliveInv'
  BY <1>1, <1>4, <1>6, AliveFrame DEF SameShown
<1>14. StopInv'
  BY <1>1, <1>4, StopFrame
<1> QED BY <1>4, <1>11, <1>12, <1>13, <1>14 DEF WorkInv

(* A prompt that is sent opens its turn, or joins the one that runs.        *)
LEMMA OpensWork ==
  ASSUME TurnsInv, TurnsWell, WorkInv, NEW n \in Starts, SendOpens(n)
  PROVE  WorkInv'
<1>1. WorkOK /\ TurnsBegin /\ TurnRuns /\ StuckInv /\ BusyInv /\ AliveInv /\ StopInv
  BY DEF TurnsInv, TurnsWell, WorkInv
<1>2. /\ sends[n].stage = "begun" /\ n \in InFlight
      /\ UNCHANGED <<thread, intents, reactor, ingest, asked>>
  BY DEF SendOpens, InFlight
<1>3. CASE SendStep(n, "failed") /\ UNCHANGED <<agent, feed>>
  BY <1>2, <1>3, PromptFails
<1>4. CASE /\ SendStep(n, "prompted") /\ agent' = [agent EXCEPT !.turn = sends[n].turn]
           /\ feed' = IF sends[n].steers THEN feed
                      ELSE Append(feed, [type |-> "turn.started", turn |-> sends[n].turn])
  <2>1. /\ sends'[n].stage = "prompted" /\ sends'[n].turn = sends[n].turn
        /\ \A m \in Starts : m # n => sends'[m] = sends[m]
    BY <1>1, <1>4, SendStepped
  <2>2. agent'.turn = sends[n].turn /\ agent'.alive = agent.alive
    BY <1>1, <1>4 DEF WorkOK, Agents
  <2>3. SameShown /\ TurnRuns' /\ Grows /\ Working'
    BY <1>1, <1>2, <2>1, ThreadSame DEF Grows, Working
  <2>4. \A m \in Starts : /\ m \in InFlight' <=> m \in InFlight
                          /\ Failing(m)' <=> Failing(m)
                          /\ m # n => (Joined(m)' <=> Joined(m)) /\ (Opens(m)' <=> Opens(m))
                          /\ Joined(n)' /\ ~Opens(n)'
    BY <1>2, <2>1 DEF InFlight, Failing, Joined, Opens
  <2>5. NoFailure' => NoFailure
    BY <2>4 DEF NoFailure
  <2>6. StopInv'
    BY <1>1, <1>2, <2>2, <2>3, StopFrame
  <2>7. CASE sends[n].steers
    <3>1. SameFeed
      BY <1>4, <2>7 DEF SameFeed
    <3>2. PICK types : types = {"opened", "resolved", "message"}
      OBVIOUS
    <3>3. /\ NewEvents(types) /\ "turn.started" \notin types /\ "exited" \notin types
          /\ types \cap {"exited", "started", "ready", "turn.completed"} = {}
      BY <1>1, <3>1, <3>2, SameFeedGrows
    <3>4. Joined(n) /\ ~Opens(n)
      BY <1>2, <2>7 DEF Joined, Opens
    <3>5. \A m \in Starts : /\ Joined(m)' <=> Joined(m)
                            /\ Opens(m)' <=> Opens(m)
                            /\ sends'[m].turn = sends[m].turn
      BY <2>1, <2>4, <3>4
    <3>6. Running' = Running
      BY <3>5 DEF Running
    <3>7. FlightInv => FlightInv'
      <4> SUFFICES ASSUME FlightInv PROVE FlightInv'
        OBVIOUS
      <4>1. agent'.turn = agent.turn
        BY <2>2, <3>4 DEF FlightInv
      <4>2. \A m \in Starts : Joined(m)' => sends'[m].turn = agent'.turn /\ agent'.turn # NoTurn
        BY <3>5, <4>1 DEF FlightInv
      <4>3. \A m, l \in Starts : Opens(m)' /\ l \in InFlight' => l = m
        BY <2>4, <3>5 DEF FlightInv
      <4> QED BY <4>2, <4>3 DEF FlightInv
    <3>8. reactor'.pc # "reconcile" => reactor.pc # "reconcile"
      BY <1>2
    <3>9. StuckInv'
      BY <1>1, <2>3, <2>5, <3>3, <3>6, <3>7, <3>8, StuckFrame
    <3>10. BusyInv'
      <4>1. /\ InFlight # {}
            /\ \A m \in Starts : Opens(m) \/ Failing(m) => Opens(m)' \/ Failing(m)'
        BY <1>2, <2>4, <3>5
      <4> QED BY <1>1, <2>3, <3>3, <4>1, BusyFrame DEF SameShown
    <3>11. AliveInv'
      BY <1>1, <2>2, <2>3, <3>3, AliveFrame DEF SameShown
    <3> QED BY <2>3, <2>6, <3>9, <3>10, <3>11 DEF WorkInv
  <2>8. CASE ~sends[n].steers
    <3>1. sends[n].turn = n /\ n \in Turns /\ n \in TurnIds /\ n # NoTurn
      BY <1>1, <1>2, <2>8, StartsAreTurns, NoTurnIsNone DEF TurnsBegin, OpenedOwn, WriteRuns
    <3>2. PICK e \in AgentEvents : e.type = "turn.started" /\ e.turn = n /\ feed' = Append(feed, e)
      BY <1>4, <2>8, <3>1 DEF AgentEvents
    <3>3. PICK f, g : f = feed /\ g = feed'
      OBVIOUS
    <3>4. f \in Seq(AgentEvents) /\ Len(f) \in Nat
      BY <1>1, <3>3, LenProperties DEF WorkOK
    <3>5. Extends(f, g) /\ Len(g) = Len(f) + 1 /\ g[Len(f) + 1] = e
      BY <3>2, <3>3, <3>4, AppendedFeed
    <3>6. \A i \in 1 .. Len(g) : i \in 1 .. Len(f) \/ i = Len(f) + 1
      BY <3>4, <3>5
    <3>7. n \in Running'
      BY <2>1, <2>4, <3>1 DEF Running
    <3>8. StuckInv'
      <4> SUFFICES ASSUME Except({"overtaking", "outrun"})', reactor'.pc # "reconcile"
                   PROVE  FlightInv' /\ (NoFailure' => AllAccounted')
        BY <2>3 DEF StuckInv
      <4>1. FlightInv /\ (NoFailure => AllAccounted)
        BY <1>1, <1>2, <2>3, ExceptGrows DEF StuckInv
      <4>2. Opens(n)
        BY <1>2, <2>8 DEF Opens
      <4>3. \A m \in Starts : m \in InFlight => m = n
        BY <4>1, <4>2 DEF FlightInv
      <4>4. \A m \in Starts : (Joined(m)' => m = n) /\ ~Opens(m)'
        BY <2>4, <4>3 DEF Joined, Opens, InFlight
      <4>5. FlightInv'
        BY <2>1, <2>2, <3>1, <4>4 DEF FlightInv
      <4>6. Running = {}
        <5>1. \A m \in Starts : ~Joined(m)
          BY <1>2, <2>8, <4>3 DEF Joined, InFlight
        <5> QED BY <5>1 DEF Running
      <4>7. ASSUME NoFailure' PROVE AllAccounted'
        <5>1. PICK status, turn, running, more :
                /\ status = ShownStatus /\ turn = ShownTurn /\ running = Running /\ more = Running'
          OBVIOUS
        <5>2. Accounted(f, status, turn, running) /\ running \subseteq more /\ n \in more
          BY <2>5, <3>3, <3>7, <4>1, <4>6, <4>7, <5>1 DEF AllAccounted
        <5>3. \A i \in 1 .. Len(g) : i \notin 1 .. Len(f) /\ g[i].type = "turn.started" =>
                 g[i].turn \in more
          BY <3>2, <3>5, <3>6, <5>2
        <5>4. Accounted(g, status, turn, more)
          BY <3>5, <5>2, <5>3, AccountedExtends
        <5> QED BY <2>3, <3>3, <5>1, <5>4, PartsThen DEF SameShown
      <4> QED BY <4>5, <4>7
    <3>9. BusyInv'
      <4>1. PICK i \in 1 .. Len(g) : i = Len(f) + 1
        BY <3>4, <3>5
      <4>2. g[i].type = "turn.started" /\ \A k \in 1 .. Len(g) : ~(i < k)
        BY <3>2, <3>4, <3>5, <4>1
      <4>3. PICK status : status = ShownStatus'
        OBVIOUS
      <4>4. Raised(g, status)
        BY <4>2 DEF Raised
      <4> QED BY <3>3, <4>3, <4>4, PartsThen DEF BusyInv
    <3>10. AliveInv'
      <4>1. PICK types : types = {"turn.started"}
        OBVIOUS
      <4>2. NewEvents(types) /\ "exited" \notin types
        BY <3>2, <3>3, <3>5, <3>6, <4>1 DEF NewEvents
      <4> QED BY <1>1, <2>2, <2>3, <4>2, AliveFrame DEF SameShown
    <3> QED BY <2>3, <2>6, <3>8, <3>9, <3>10 DEF WorkInv
  <2> QED BY <2>7, <2>8
<1> QED BY <1>3, <1>4 DEF SendOpens

(* A prompt ends: the last one ends its turn.                               *)
LEMMA EndsWork ==
  ASSUME TurnsInv, TurnsWell, WorkInv, NEW n \in Starts, SendEnds(n)
  PROVE  WorkInv'
<1>1. WorkOK /\ OutputOK /\ TurnRuns /\ StuckInv /\ BusyInv /\ AliveInv /\ StopInv
  BY DEF TurnsInv, WorkInv
<1>2. /\ sends[n].stage = "prompted" /\ n \in InFlight
      /\ UNCHANGED <<thread, intents, reactor, agent, ingest, asked>>
  BY DEF SendEnds, InFlight
<1>3. CASE SendStep(n, "failed") /\ UNCHANGED feed
  BY <1>2, <1>3, PromptFails
<1>4. CASE /\ SendStep(n, "done")
           /\ \/ /\ LastPrompt(n)
                 /\ \E e \in AgentEvents, rest \in Seq({x \in AgentEvents : x.type = "message"}) :
                        /\ e = [type |-> "turn.completed", turn |-> sends[n].turn]
                        /\ feed' = Append(feed, e) \o rest
              \/ ~LastPrompt(n) /\ feed' = feed
  <2>1. sends'[n].stage = "done" /\ \A m \in Starts : m # n => sends'[m] = sends[m]
    BY <1>1, <1>4, SendStepped
  <2>2. SameShown /\ TurnRuns' /\ Grows
    BY <1>1, <1>2, ThreadSame DEF Grows
  <2>3. \A m \in Starts : /\ m \in InFlight' <=> m \in InFlight /\ m # n
                          /\ Failing(m)' <=> Failing(m)
                          /\ Joined(m)' <=> Joined(m) /\ m # n
                          /\ Opens(m)' <=> Opens(m)
    BY <1>2, <2>1 DEF InFlight, Failing, Joined, Opens
  <2>4. NoFailure' => NoFailure
    BY <2>3 DEF NoFailure
  <2>5. FlightInv => FlightInv'
    <3> SUFFICES ASSUME FlightInv PROVE FlightInv'
      OBVIOUS
    <3>1. \A m \in Starts : Joined(m)' => sends'[m].turn = agent'.turn /\ agent'.turn # NoTurn
      BY <1>2, <2>1, <2>3 DEF FlightInv
    <3>2. \A m, l \in Starts : Opens(m)' /\ l \in InFlight' => l = m
      BY <2>3 DEF FlightInv
    <3> QED BY <3>1, <3>2 DEF FlightInv
  <2>6. StopInv'
    BY <1>1, <1>2, <2>2, StopFrame
  <2>7. Joined(n)
    BY <1>2 DEF Joined
  <2>8. CASE LastPrompt(n)
    <3>1. InFlight = {n}
      BY <2>8 DEF LastPrompt
    <3>2. PICK e \in AgentEvents, rest \in Seq({x \in AgentEvents : x.type = "message"}) :
            /\ e.type = "turn.completed" /\ e.turn = sends[n].turn
            /\ feed' = Append(feed, e) \o rest
      BY <1>4, <2>8
    <3>3. PICK f, h, g, last :
            f = feed /\ h = Append(feed, e) /\ g = feed' /\ last = sends[n].turn
      OBVIOUS
    <3>4. /\ f \in Seq(AgentEvents) /\ Len(f) \in Nat
          /\ h \in Seq(AgentEvents) /\ Extends(f, h) /\ Len(h) = Len(f) + 1 /\ h[Len(f) + 1] = e
      <4>1. f \in Seq(AgentEvents) /\ Len(f) \in Nat
        BY <1>1, <3>3, LenProperties DEF WorkOK
      <4>2. Extends(f, h) /\ Len(h) = Len(f) + 1 /\ h[Len(f) + 1] = e /\ h \in Seq(AgentEvents)
        BY <3>3, <4>1, AppendedFeed, AppendProperties
      <4> QED BY <4>1, <4>2
    <3>5. Extends(h, g) /\ \A i \in 1 .. Len(g) : i \notin 1 .. Len(h) => g[i].type = "message"
      <4>1. g = h \o rest /\ h \in Seq(AgentEvents)
        BY <3>2, <3>3, <3>4
      <4> QED BY <4>1, MessagesFollow
    <3>6. PICK types : types = {"turn.completed", "message"}
      OBVIOUS
    <3>7. NewEvents(types) /\ "exited" \notin types
      BY <1>1, <3>2, <3>6, FeedCompleted
    <3>8. StuckInv'
      <4> SUFFICES ASSUME Except({"overtaking", "outrun"})', reactor'.pc # "reconcile"
                   PROVE  FlightInv' /\ (NoFailure' => AllAccounted') /\ (~Working' => AllEnded')
        BY DEF StuckInv
      <4>1. FlightInv /\ (NoFailure => AllAccounted)
        BY <1>1, <1>2, <2>2, ExceptGrows DEF StuckInv
      <4>2. Running \subseteq {last}
        <5>1. \A m \in Starts : Joined(m) => m = n
          BY <3>1 DEF Joined, InFlight
        <5> QED BY <3>3, <5>1 DEF Running
      <4>3. ASSUME NoFailure' PROVE AllAccounted' /\ AllEnded'
        <5>1. PICK status, turn, running, more :
                /\ status = ShownStatus /\ turn = ShownTurn /\ running = Running /\ more = Running'
          OBVIOUS
        <5>2. Accounted(f, status, turn, running) /\ running \subseteq {last}
          BY <2>4, <3>3, <4>1, <4>2, <4>3, <5>1 DEF AllAccounted
        <5>3. h[Len(f) + 1].type = "turn.completed" /\ h[Len(f) + 1].turn = last
          BY <3>2, <3>3, <3>4
        <5>4. Accounted(h, status, turn, more) /\ (status \in Live => Ended(h, turn, 0))
          BY <3>4, <5>2, <5>3, AccountedEnds
        <5>5. Accounted(g, status, turn, more) /\ (status \in Live => Ended(g, turn, 0))
          BY <3>5, <5>4, AccountedExtends, EndedExtends
        <5> QED BY <2>2, <3>3, <5>1, <5>5, PartsThen DEF SameShown
      <4>4. ~Working' => NoFailure'
        BY DEF Working, NoFailure, Failing
      <4> QED BY <2>5, <4>1, <4>3, <4>4
    <3>9. BusyInv'
      <4>1. InFlight' = {}
        BY <2>3, <3>1 DEF InFlight
      <4> QED BY <4>1 DEF BusyInv
    <3>10. AliveInv'
      BY <1>1, <1>2, <2>2, <3>7, AliveFrame DEF SameShown
    <3> QED BY <2>2, <2>6, <3>8, <3>9, <3>10 DEF WorkInv
  <2>9. CASE ~LastPrompt(n)
    <3>1. PICK m \in Starts : m \in InFlight /\ m # n
      BY <1>2, <2>9 DEF LastPrompt, InFlight
    <3>2. SameFeed /\ Working'
      <4>1. sends'[m].stage \in {"begun", "prompted"}
        BY <2>1, <3>1 DEF InFlight
      <4> QED BY <1>4, <2>9, <4>1 DEF SameFeed, Working
    <3>3. PICK types : types = {"opened", "resolved", "message"}
      OBVIOUS
    <3>4. /\ NewEvents(types) /\ "turn.started" \notin types /\ "exited" \notin types
          /\ types \cap {"exited", "started", "ready", "turn.completed"} = {}
      BY <1>1, <3>2, <3>3, SameFeedGrows
    <3>5. reactor'.pc # "reconcile" => reactor.pc # "reconcile"
      BY <1>2
    <3>6. FlightInv => Running \subseteq Running'
      <4> SUFFICES ASSUME FlightInv PROVE Running \subseteq Running'
        OBVIOUS
      <4>1. Joined(m)
        BY <1>2, <3>1 DEF FlightInv, Joined, Opens, InFlight
      <4>2. sends[m].turn = sends[n].turn
        BY <2>7, <4>1 DEF FlightInv
      <4>3. \A k \in Starts : Joined(k) => \E l \in Starts : Joined(l)' /\ sends'[l].turn = sends[k].turn
        BY <2>1, <2>3, <3>1, <4>1, <4>2
      <4> QED BY <4>3 DEF Running
    <3>7. StuckInv'
      <4>1. CASE Except({"overtaking", "outrun"})' /\ reactor'.pc # "reconcile"
        <5>1. FlightInv
          BY <1>1, <1>2, <2>2, <4>1, ExceptGrows DEF StuckInv
        <5> QED BY <1>1, <2>2, <2>4, <2>5, <3>2, <3>4, <3>5, <3>6, <5>1, StuckFrame
      <4> QED BY <4>1 DEF StuckInv
    <3>8. BusyInv'
      <4>1. /\ InFlight # {}
            /\ \A k \in Starts : Opens(k) \/ Failing(k) => Opens(k)' \/ Failing(k)'
        BY <1>2, <2>3
      <4> QED BY <1>1, <2>2, <3>4, <4>1, BusyFrame DEF SameShown
    <3>9. AliveInv'
      BY <1>1, <1>2, <2>2, <3>4, AliveFrame DEF SameShown
    <3> QED BY <2>2, <2>6, <3>7, <3>8, <3>9 DEF WorkInv
  <2> QED BY <2>8, <2>9
<1> QED BY <1>1, <1>3, <1>4, EndsShape

(* A failure is read, and recorded.                                         *)
LEMMA FailureWork ==
  ASSUME TurnsInv, TurnsWell, WorkInv, NEW n \in Starts, SendFailureReads(n) \/ SendFailureSets(n)
  PROVE  WorkInv'
<1>1. WorkOK /\ FeedInv
  BY DEF TurnsInv, TurnsWell
<1>2. CASE SendFailureReads(n)
  <2>1. PICK stage \in {"set stopped", "set error"} : SendStep(n, stage)
    BY <1>2 DEF SendFailureReads
  <2>2. Grows
    BY <1>1, <1>2, MishapsGrow DEF SendFailureReads, FailureMishaps
  <2>3. /\ sends[n].stage = "failed"
        /\ UNCHANGED <<thread, intents, reactor, agent, feed, ingest>>
    BY <1>2 DEF SendFailureReads
  <2> QED BY <2>1, <2>2, <2>3, SendMoves
<1>3. CASE SendFailureSets(n)
  <2>1. PICK status \in {"stopped", "error"} :
          status = IF sends[n].stage = "set error" THEN "error" ELSE "stopped"
    OBVIOUS
  <2>2. /\ sends[n].stage \in {"set stopped", "set error"}
        /\ \E newer \in BOOLEAN : SetSession(status, NoTurn, newer)
        /\ SendStep(n, "done") /\ RecordMishaps(n, status)
        /\ UNCHANGED <<intents, reactor, agent, feed, ingest>>
    BY <1>3, <2>1 DEF SendFailureSets
  <2>3. PICK newer \in BOOLEAN : SetSession(status, NoTurn, newer)
    BY <2>2
  <2>4. reactor.pc # "reconcile"
    BY <1>1, <2>2, SendsAfter
  <2>5. sends'[n].stage = "done" /\ \A m \in Starts : m # n => sends'[m] = sends[m]
    BY <1>1, <2>2, SendStepped
  <2>6. \A m \in Starts : \/ sends'[m] = sends[m]
                          \/ /\ sends[m].stage \notin {"begun", "prompted"}
                             /\ sends'[m].stage \notin {"begun", "prompted"}
    BY <2>2, <2>5
  <2>7. /\ status = "stopped" => status = "stopped"
        /\ reactor'.pc = "record stop" => reactor.pc = "record stop"
        /\ n \in Starts => sends[n].stage \notin {"begun", "prompted"}
    BY <2>2
  <2> QED BY <2>2, <2>3, <2>4, <2>6, <2>7, FailureRecordWork
<1> QED BY <1>2, <1>3

(* The failure of a start that was not sent.                                *)
LEMMA RecordsFailureWork ==
  ASSUME TurnsInv, TurnsWell, WorkInv, ReactorRecordsFailure
  PROVE  WorkInv'
<1>1. WorkOK /\ QueueInv
  BY DEF TurnsInv, TurnsWell
<1>2. PICK k, read : k = reactor.intent.start /\ read = reactor.status
  OBVIOUS
<1>3. PICK status \in {"stopped", "error"} : status = IF read = "stopped" THEN "stopped" ELSE "error"
  OBVIOUS
<1>4. /\ reactor.pc = "failure" /\ reactor' = Idle
      /\ ReactorSets(status) /\ RecordMishaps(k, read)
      /\ UNCHANGED <<intents, sends, agent, feed, ingest>>
  BY <1>2, <1>3 DEF ReactorRecordsFailure
<1>5. PICK newer \in BOOLEAN : SetSession(status, NoTurn, newer)
  BY <1>4 DEF ReactorSets
<1>6. sends[k].stage = "none"
  BY <1>1, <1>2, <1>4 DEF QueueInv, Held, Asks
<1>7. /\ status = "stopped" => read = "stopped"
      /\ reactor.pc # "reconcile"
      /\ reactor'.pc = "record stop" => reactor.pc = "record stop"
      /\ k \in Starts => sends[k].stage \notin {"begun", "prompted"}
      /\ \A m \in Starts : \/ sends'[m] = sends[m]
                           \/ /\ sends[m].stage \notin {"begun", "prompted"}
                              /\ sends'[m].stage \notin {"begun", "prompted"}
  BY <1>3, <1>4, <1>6 DEF Idle
<1> QED BY <1>4, <1>5, <1>7, FailureRecordWork

-----------------------------------------------------------------------------
(* The ingestion.                                                           *)

(* What is shown once the head of the feed has been read: what the head      *)
(* announces, or nothing live, or what was shown, which it does not end.     *)
HeadRead ==
    /\ \/ ShownStatus' \notin Live
       \/ Head(feed).type = "turn.started" /\ Head(feed).turn = ShownTurn'
       \/ ShownTurn' = ShownTurn /\ ShownStatus \in Live /\ ~Ends(Head(feed), ShownTurn)
    /\ Head(feed).type = "turn.started" => ShownStatus' \in Live
    /\ ~Lowers(Head(feed)) => ShownStatus' \in Live \/ ShownStatus' = ShownStatus
    /\ Head(feed).type # "exited" =>
           ShownStatus' # "stopped" \/ (Head(feed).type # "ready" /\ ShownStatus' = ShownStatus)

(* So what is shown is still ended by the feed, or runs.                    *)
LEMMA TailWork ==
  ASSUME WorkOK, WorkInv, IngestFrame, feed # <<>>, feed' = Tail(feed), TurnRuns', HeadRead
  PROVE  WorkInv'
<1>1. StuckInv /\ BusyInv /\ AliveInv /\ StopInv
  BY DEF WorkInv
<1>2. PICK f, g, status, next, turn, now, running :
        /\ f = feed /\ g = feed' /\ status = ShownStatus /\ next = ShownStatus'
        /\ turn = ShownTurn /\ now = ShownTurn' /\ running = Running
  OBVIOUS
<1>3. TailOf(f, g) /\ Head(feed) = f[1]
  BY <1>2, FeedTail DEF TailOf
<1>4. /\ \/ next \notin Live
         \/ f[1].type = "turn.started" /\ f[1].turn = now
         \/ now = turn /\ status \in Live /\ ~Ends(f[1], turn)
      /\ f[1].type = "turn.started" => next \in Live
      /\ ~Lowers(f[1]) => next \in Live \/ next = status
      /\ f[1].type # "exited" => next # "stopped" \/ (f[1].type # "ready" /\ next = status)
  BY <1>2, <1>3 DEF HeadRead
<1>5. SameFlight /\ Grows
  BY DEF SameFlight, Grows, IngestFrame
<1>6. /\ FlightInv => FlightInv'
      /\ Running' = Running /\ InFlight' = InFlight
      /\ \A n \in Starts : (Opens(n) => Opens(n)') /\ (Failing(n) => Failing(n)')
  BY <1>5, FlightStays
<1>7. NoFailure' => NoFailure
  BY <1>6 DEF NoFailure
<1>8. StuckInv'
  <2> SUFFICES ASSUME Except({"overtaking", "outrun"})', reactor'.pc # "reconcile"
               PROVE  FlightInv' /\ (NoFailure' => AllAccounted') /\ (~Working' => AllEnded')
    BY DEF StuckInv
  <2>1. FlightInv /\ (NoFailure => AllAccounted) /\ (~Working => AllEnded)
    BY <1>1, <1>5, ExceptGrows DEF StuckInv, IngestFrame
  <2>2. ASSUME NoFailure' PROVE AllAccounted'
    <3>1. Accounted(f, status, turn, running)
      BY <1>2, <1>7, <2>1, <2>2 DEF AllAccounted
    <3>2. Accounted(g, next, now, running)
      BY <1>3, <1>4, <3>1, AccountedTail
    <3> QED BY <1>2, <1>6, <3>2, PartsThen
  <2>3. ASSUME ~Working' PROVE AllEnded'
    <3>1. ~Working
      BY <2>3 DEF Working, IngestFrame
    <3>2. NoFailure /\ Running = {}
      <4>1. \A n \in Starts : sends[n].stage \in {"none", "done"}
        BY <3>1 DEF Working
      <4>2. \A n \in Starts : ~Failing(n) /\ ~Joined(n)
        BY <4>1 DEF Failing, Joined
      <4> QED BY <4>2 DEF NoFailure, Running
    <3>3. Accounted(f, status, turn, running) /\ running = {}
      BY <1>2, <2>1, <3>2 DEF AllAccounted
    <3>4. status \in Live => Ended(f, turn, 0)
      BY <1>2, <2>1, <3>1 DEF AllEnded
    <3>5. 1 \in 1 .. Len(f) /\ 0 \in 0 .. Len(g) /\ 0 + 1 = 1
      BY <1>3 DEF TailOf
    <3>6. ASSUME next \in Live PROVE Ended(g, now, 0)
      <4>1. CASE f[1].type = "turn.started" /\ f[1].turn = now
        <5>1. Ended(f, now, 1)
          BY <3>3, <3>5, <4>1 DEF Accounted
        <5> QED BY <1>3, <3>5, <5>1, EndedTail
      <4>2. CASE now = turn /\ status \in Live /\ ~Ends(f[1], turn)
        BY <1>3, <3>4, <4>2, EndedPast
      <4> QED BY <1>4, <3>6, <4>1, <4>2
    <3> QED BY <1>2, <3>6, PartsThen
  <2> QED BY <1>6, <2>1, <2>2, <2>3
<1>9. StaysLive => StaysLive'
  <2> SUFFICES ASSUME StaysLive PROVE StaysLive'
    OBVIOUS
  <2>1. Raised(f, status)
    BY <1>2 DEF StaysLive
  <2>2. Raised(g, next)
    BY <1>3, <1>4, <2>1, RaisedTail
  <2> QED BY <1>2, <2>2, PartsThen
<1>10. BusyInv'
  BY <1>1, <1>5, <1>6, <1>9, ExceptGrows DEF BusyInv
<1>11. StaysUp => StaysUp'
  <2> SUFFICES ASSUME StaysUp PROVE StaysUp'
    OBVIOUS
  <2>1. Revived(f, status)
    BY <1>2 DEF StaysUp
  <2>2. Revived(g, next)
    BY <1>3, <1>4, <2>1, RevivedTail
  <2> QED BY <1>2, <2>2, PartsThen
<1>12. AliveInv'
  BY <1>1, <1>5, <1>11, ExceptGrows DEF AliveInv, IngestFrame
<1>13. StopInv'
  BY <1>1, <1>5, StopFrame DEF IngestFrame
<1> QED BY <1>8, <1>10, <1>12, <1>13 DEF WorkInv

(* An event about a request, or a message, shows nothing else.              *)
LEMMA AppendsWork == ASSUME TurnsInv, TurnsWell, WorkInv, IngestAppends PROVE WorkInv'
<1>1. WorkOK /\ TypeOK /\ TurnRuns
  BY DEF TurnsInv, ThreadInv, WorkInv
<1>2. /\ feed # <<>> /\ feed' = Tail(feed)
      /\ Head(feed).type \in {"opened", "resolved", "message"}
      /\ ingest' = ingest /\ IngestFrame
  BY DEF IngestAppends, IngestFrame
<1>3. SameShown /\ TurnRuns'
  BY <1>1, <1>2, AppendsShow, UntouchedSame
<1>4. HeadRead
  BY <1>2, <1>3 DEF HeadRead, SameShown, Ends, Lowers
<1> QED BY <1>1, <1>2, <1>3, <1>4, TailWork DEF WorkInv

(* What is made of an event: the session that starts finds no turn.         *)
LEMMA VerdictWork ==
  ASSUME TurnRuns, NEW e \in AgentEvents, e.type \notin {"opened", "resolved", "message"},
         e.type = "started" => rows.turn = NoTurn, NEW v, v = Verdict(e)
  PROVE  \/ /\ v.pc = "write"
            /\ \/ e.type = "exited" /\ v.status = "stopped"
               \/ e.type \in {"started", "ready"} /\ v.turn = NoTurn /\ v.status = "ready"
               \/ /\ e.type \in {"started", "ready"} /\ v.turn = NoTurn /\ v.status = "starting"
                  /\ rows.status = "starting"
               \/ e.type = "turn.started" /\ v.turn = e.turn /\ v.status = "running"
               \/ e.type = "turn.completed" /\ v.status = "ready"
         \/ /\ v.pc # "write"
            /\ rows.turn # NoTurn /\ rows.status = "running"
            /\ e.type = "turn.started" \/ (e.type = "turn.completed" /\ e.turn # rows.turn)
<1>1. e.type \in {"exited", "ready", "started", "turn.started", "turn.completed"}
  BY DEF AgentEvents
<1>2. CASE e.type = "exited"
  BY <1>2 DEF Verdict
<1>3. CASE e.type = "ready"
  BY <1>3 DEF Verdict
<1>4. CASE e.type = "started"
  BY <1>4 DEF Verdict
<1>5. CASE e.type = "turn.started"
  BY <1>5 DEF Verdict, Idle, TurnRuns
<1>6. CASE e.type = "turn.completed"
  BY <1>6 DEF Verdict, Idle, TurnRuns
<1> QED BY <1>1, <1>2, <1>3, <1>4, <1>5, <1>6

(* An event is read, and what it makes of the session decided.              *)
LEMMA ReadsWork == ASSUME TurnsInv, TurnsWell, WorkInv, IngestReads PROVE WorkInv'
<1>1. WorkOK /\ TurnRuns /\ FeedInv
  BY DEF TurnsInv, TurnsWell, WorkInv
<1>2. /\ feed # <<>> /\ feed' = Tail(feed) /\ Head(feed).type \notin {"opened", "resolved", "message"}
      /\ ingest.pc = "idle" /\ ingest' = Verdict(Head(feed))
      /\ UNCHANGED thread /\ IngestFrame
  BY DEF IngestReads, IngestFrame
<1>3. PICK e \in AgentEvents : e = Head(feed) /\ e = feed[1] /\ 1 \in 1 .. Len(feed)
  BY <1>1, <1>2, FeedTail
<1>4. PICK v : v = Verdict(e)
  OBVIOUS
<1>5. e.type = "started" => rows.turn = NoTurn
  <2>1. e.type = "started" => Closed(feed, ShownTurn, 1)
    BY <1>1, <1>3 DEF FeedInv
  <2>2. ~Exits(feed, 0, 1)
    BY DEF Exits
  <2> QED BY <1>2, <2>1, <2>2 DEF Closed, ShownTurn
<1>6. \/ /\ v.pc = "write"
         /\ \/ e.type = "exited" /\ v.status = "stopped"
            \/ e.type \in {"started", "ready"} /\ v.turn = NoTurn /\ v.status = "ready"
            \/ /\ e.type \in {"started", "ready"} /\ v.turn = NoTurn /\ v.status = "starting"
               /\ rows.status = "starting"
            \/ e.type = "turn.started" /\ v.turn = e.turn /\ v.status = "running"
            \/ e.type = "turn.completed" /\ v.status = "ready"
      \/ /\ v.pc # "write"
         /\ rows.turn # NoTurn /\ rows.status = "running"
         /\ e.type = "turn.started" \/ (e.type = "turn.completed" /\ e.turn # rows.turn)
  BY <1>1, <1>2, <1>3, <1>4, <1>5, VerdictWork
<1>7. /\ ShownStatus = rows.status /\ ShownTurn = rows.turn
      /\ ShownStatus' = IF v.pc = "write" THEN v.status ELSE rows.status
      /\ ShownTurn' = IF v.pc = "write" THEN v.turn ELSE rows.turn
  BY <1>2, <1>3, <1>4 DEF ShownStatus, ShownTurn, thread
<1>8. HeadRead
  <2>1. "starting" \in Live /\ "running" \in Live /\ "ready" \notin Live /\ "stopped" \notin Live
    BY DEF Live
  <2>2. rows.status = "starting" => rows.turn = NoTurn
    BY <1>1 DEF TurnRuns
  <2> QED BY <1>3, <1>6, <1>7, <2>1, <2>2 DEF HeadRead, Ends, Lowers
<1>9. TurnRuns'
  BY <1>1, <1>2 DEF TurnRuns, thread
<1> QED BY <1>1, <1>2, <1>8, <1>9, TailWork

(* It is shown when it is written as it was decided.                        *)
LEMMA WritesWork == ASSUME TurnsInv, TurnsWell, WorkInv, IngestWrites PROVE WorkInv'
<1>1. WorkOK /\ ThreadInv /\ TurnsBegin
  BY DEF TurnsInv, TurnsWell
<1>2. ingest.pc = "write" /\ ingest' = Idle /\ feed' = feed /\ IngestFrame
  BY DEF IngestWrites, IngestFrame
<1>3. PICK status \in SessionStatuses, turn \in Turns \cup {NoTurn}, newer \in BOOLEAN :
        status = ingest.status /\ turn = ingest.turn /\ SetSession(status, turn, newer)
  <2>1. ingest \in Writes
    BY <1>1, <1>2 DEF WorkOK, Idle
  <2> QED BY <2>1 DEF IngestWrites, Writes, TurnIds
<1>4. turn # NoTurn => status = "running"
  BY <1>1, <1>2, <1>3 DEF TurnsBegin, WriteRuns
<1>5. rows'.turn = turn /\ rows'.status = status
  BY <1>1, <1>3, SessionShown DEF ThreadInv
<1>6. SameShown /\ TurnRuns'
  BY <1>2, <1>3, <1>4, <1>5 DEF SameShown, ShownStatus, ShownTurn, TurnRuns, Idle
<1>7. SameFeed /\ SameFlight /\ Grows
  BY <1>2 DEF SameFeed, SameFlight, Grows, IngestFrame
<1>8. Working => Working'
  BY <1>2 DEF Working, IngestFrame
<1> QED BY <1>1, <1>2, <1>6, <1>7, <1>8, WorkCalm DEF IngestFrame

-----------------------------------------------------------------------------
(* The server.                                                              *)

(* A restart leaves neither prompts nor a session.                          *)
LEMMA RestartWork == ASSUME TurnsInv, TurnsWell, WorkInv, ServerRestarts PROVE WorkInv'
<1>1. WorkOK /\ TurnRuns
  BY DEF TurnsInv, WorkInv
<1>2. /\ reactor' = [pc |-> "reconcile"] /\ sends' = [n \in Starts |-> NoSend]
      /\ rows' = rows
  BY DEF ServerRestarts, Rebuild
<1>3. ~agent'.alive
  BY <1>1 DEF ServerRestarts, WorkOK, Agents
<1>4. TurnRuns'
  BY <1>1, <1>2 DEF TurnRuns
<1>5. StuckInv'
  BY <1>2 DEF StuckInv
<1>6. BusyInv'
  <2>1. InFlight' = {}
    BY <1>2 DEF InFlight, NoSend
  <2> QED BY <2>1 DEF BusyInv
<1>7. AliveInv' /\ StopInv'
  BY <1>3 DEF AliveInv, StopInv
<1> QED BY <1>4, <1>5, <1>6, <1>7 DEF WorkInv

(* What was shown as live is set to "error" before anything else.           *)
LEMMA ReconcileWork == ASSUME TurnsInv, TurnsWell, WorkInv, Reconcile PROVE WorkInv'
<1>1. WorkOK /\ ThreadInv /\ FeedInv /\ TurnRuns /\ AliveInv
  BY DEF TurnsInv, TurnsWell, WorkInv
<1>2. /\ reactor.pc = "reconcile" /\ reactor' = Idle
      /\ UNCHANGED <<intents, sends, agent, feed, ingest, asked>>
  BY DEF Reconcile
<1>3. /\ \A n \in Starts : sends[n].stage = "none"
      /\ ingest.pc = "idle"
      /\ \A i \in 1 .. Len(feed) : feed[i].type \in {"opened", "resolved"}
  BY <1>1, <1>2 DEF FeedInv
<1>4. /\ TurnRuns' /\ ShownStatus' \notin Live /\ ShownTurn' = NoTurn
      /\ ShownStatus' = ShownStatus \/ ShownStatus' # "stopped"
  <2>1. CASE Orphaned
    <3>1. ReactorSets("error") /\ "error" \in SessionStatuses /\ "error" \notin Live
      BY <2>1 DEF Reconcile, SessionStatuses, Live
    <3>2. TurnRuns' /\ ShownStatus' = "error" /\ ShownTurn' = NoTurn
      BY <1>1, <1>2, <1>3, <3>1, ReactorSame
    <3> QED BY <3>1, <3>2
  <2>2. CASE ~Orphaned
    <3>1. UNCHANGED thread /\ rows.status \notin Live /\ rows.turn = NoTurn
      BY <2>2 DEF Reconcile, Orphaned
    <3>2. SameShown /\ TurnRuns'
      BY <1>1, <1>2, <3>1, ThreadSame
    <3> QED BY <1>3, <3>1, <3>2 DEF SameShown, ShownStatus, ShownTurn
  <2> QED BY <2>1, <2>2
<1>5. \A n \in Starts : ~Joined(n)' /\ ~Opens(n)'
  BY <1>2, <1>3 DEF Joined, Opens
<1>6. InFlight' = {}
  BY <1>2, <1>3 DEF InFlight
<1>7. StuckInv'
  <2>1. FlightInv'
    BY <1>5 DEF FlightInv
  <2>2. Accounted(feed', ShownStatus', ShownTurn', Running')
    BY <1>2, <1>3, <1>4 DEF Accounted
  <2> QED BY <1>4, <2>1, <2>2, PartsThen DEF StuckInv
<1>8. BusyInv'
  BY <1>6 DEF BusyInv
<1>9. AliveInv'
  <2>1. SameFeed /\ Grows
    BY <1>2 DEF SameFeed, Grows
  <2>2. PICK types : types = {"opened", "resolved", "message"}
    OBVIOUS
  <2>3. NewEvents(types) /\ "exited" \notin types
    BY <1>1, <2>1, <2>2, SameFeedGrows
  <2> QED BY <1>1, <1>2, <1>4, <2>1, <2>3, AliveFrame
<1>10. StopInv'
  BY <1>2 DEF StopInv, Idle
<1> QED BY <1>4, <1>7, <1>8, <1>9, <1>10 DEF WorkInv

-----------------------------------------------------------------------------
(* The theorems about the work.                                             *)

(* No work is shown, and none done, at first.                               *)
LEMMA WorkBegins == TurnsInit => WorkInv
<1> SUFFICES ASSUME TurnsInit PROVE WorkInv
  OBVIOUS
<1>1. /\ Init /\ Len(feed) = 0 /\ reactor.pc = "idle" /\ ingest.pc = "idle" /\ ~agent.alive
      /\ \A n \in Starts : sends[n].stage = "none"
  BY DEF TurnsInit, Idle, NoSend
<1>2. rows.turn = NoTurn /\ rows.status \notin Live
  BY <1>1 DEF Init, Live
<1>3. ShownStatus \notin Live
  BY <1>1, <1>2 DEF ShownStatus
<1>4. StuckInv
  <2>1. FlightInv
    BY <1>1 DEF FlightInv, Joined, Opens
  <2>2. AllAccounted
    BY <1>1, <1>3, NoneBelow DEF AllAccounted, Accounted
  <2> QED BY <1>3, <2>1, <2>2 DEF StuckInv, AllEnded
<1>5. BusyInv
  <2>1. InFlight = {}
    BY <1>1 DEF InFlight
  <2> QED BY <2>1 DEF BusyInv
<1> QED BY <1>1, <1>2, <1>4, <1>5 DEF WorkInv, TurnRuns, AliveInv, StopInv

(* Every step keeps the invariant.                                          *)
LEMMA WorkStep == TurnsInv /\ TurnsWell /\ WorkInv /\ [TurnsNext]_vars => WorkInv'
<1> SUFFICES ASSUME TurnsInv, TurnsWell, WorkInv, [TurnsNext]_vars PROVE WorkInv'
  OBVIOUS
<1>1. CASE Users
  BY <1>1, UserWork
<1>2. CASE Sends
  BY <1>2, RoutesWork, RecoversWork, OpensWork, EndsWork, FailureWork DEF Sends
<1>3. CASE Reactor
  BY <1>3, TakeWork, HeldWork, CallWork, StopRecordWork, RecordsFailureWork, ReactorStopWork,
     ReactorStartWork DEF Reactor
<1>4. CASE Ingestion
  BY <1>4, ReadsWork, WritesWork, AppendsWork DEF Ingestion
<1>5. CASE AgentAsks \/ AgentReports \/ AgentSpeaks \/ TimePasses \/ UNCHANGED vars
  BY <1>5, AgentWork
<1>6. CASE ServerRestarts \/ Reconcile
  BY <1>6, RestartWork, ReconcileWork
<1>7. CASE Checkpoints
  BY <1>7, CheckpointsWork
<1> QED BY <1>1, <1>2, <1>3, <1>4, <1>5, <1>6, <1>7 DEF TurnsNext

(* The invariant: together with the earlier ones, it is inductive.          *)
LEMMA WorkInvariant == TurnsSpec => []WorkInv
BY WorkBegins, WorkStep, TurnsInvariant, WellInvariant, PTL DEF TurnsSpec

(* When all is still, nothing more will end, raise or revive the session.   *)
LEMMA StillShows ==
  ASSUME Still
  PROVE  /\ ShownStatus = rows.status
         /\ \A turn : ~Ended(feed, turn, 0)
         /\ StaysLive => rows.status \in Live
         /\ StaysUp => rows.status # "stopped"
<1>1. Len(feed) = 0 /\ ShownStatus = rows.status
  BY DEF Still, ShownStatus
<1> QED BY <1>1, NoneBelow DEF Ended, StaysLive, Raised, StaysUp, Revived

(* Work that nobody does is not shown for good: whatever messages, answers,  *)
(* stops and restarts come in between, once all is quiet and the agent has   *)
(* no prompt the session is at rest, unless a prompt failed before its turn  *)
(* was ingested or two sends opened turns at once.                           *)
THEOREM NoWorkIsStuck == TurnsSpec => []NoStuckWork
<1>1. ASSUME WorkInv PROVE NoStuckWork
  <2> SUFFICES ASSUME Still, InFlight = {}, Except({"overtaking", "outrun"})
               PROVE  rows.status \notin Live
    BY DEF NoStuckWork
  <2>1. reactor.pc = "idle"
    BY DEF Still
  <2>2. ~Working
    <3>1. Len(intents) = 0
      BY DEF Still
    <3>2. \A n \in Starts : sends[n].stage \in {"none", "done"}
      BY DEF Still, InFlight
    <3> QED BY <2>1, <3>1, <3>2, NoneBelow DEF Working, Held
  <2>3. AllEnded
    BY <1>1, <2>1, <2>2 DEF WorkInv, StuckInv
  <2> QED BY <2>3, StillShows DEF AllEnded
<1> QED BY <1>1, WorkInvariant, PTL

(* Work that is done is shown: once all is quiet and the agent has a prompt, *)
(* the session is starting or running, unless a failure or a stop was        *)
(* recorded from what was read before another start or session.              *)
THEOREM WorkIsShown == TurnsSpec => []BusyIsShown
<1>1. ASSUME WorkInv PROVE BusyIsShown
  <2> SUFFICES ASSUME Still, InFlight # {}, Except({"collateral", "resurrected", "missed"})
               PROVE  rows.status \in Live
    BY DEF BusyIsShown
  <2>1. \A n \in Starts : ~Opens(n) /\ ~Failing(n)
    BY DEF Still, Opens, Failing
  <2>2. StaysLive
    BY <1>1, <2>1 DEF WorkInv, BusyInv
  <2> QED BY <2>2, StillShows
<1> QED BY <1>1, WorkInvariant, PTL

(* A session that is shown as stopped is dead: no agent goes on unseen.      *)
THEOREM StoppedIsDead == TurnsSpec => []StoppedMeansDead
<1>1. ASSUME WorkInv PROVE StoppedMeansDead
  <2> SUFFICES ASSUME Still, rows.status = "stopped", agent.alive,
                      Except({"collateral", "resurrected", "missed"})
               PROVE  FALSE
    BY DEF StoppedMeansDead, Except
  <2>1. StaysUp
    BY <1>1 DEF WorkInv, AliveInv
  <2> QED BY <2>1, StillShows
<1> QED BY <1>1, WorkInvariant, PTL

-----------------------------------------------------------------------------
(* The latest turn.                                                         *)

(* A turn whose checkpoint is being taken has none that is final, what the   *)
(* read model knows to be final is, and the latest turn is one of the turns. *)
CaptureIsNew == capture.pc = "record" => rows.checkpoints[capture.turn] \notin {"ready", "error"}
CheckpointsKnown ==
    \A t \in Turns : model.checkpoints[t] \in {"ready", "error"} =>
        rows.checkpoints[t] \in {"ready", "error"}
LatestIsShown == rows.latest # NoTurn => rows.turns[rows.latest] # "absent"

LatestInv == CaptureIsNew /\ CheckpointsKnown /\ LatestIsShown /\ LatestIsKnown

(* What a step does to a thread, but for a checkpoint.                       *)
Keeps ==
    /\ rows'.latest = rows.latest /\ rows'.turn = rows.turn
    /\ rows'.checkpoints = rows.checkpoints
    /\ model'.latest = model.latest /\ model'.checkpoints = model.checkpoints
    /\ \A t \in Turns : rows.turns[t] # "absent" => rows'.turns[t] # "absent"
Shows ==
    \E status \in SessionStatuses, turn \in TurnIds, newer \in BOOLEAN :
        SetSession(status, turn, newer)

(* A command that touches no turn, or one that only ends a turn.             *)
LEMMA UntouchedKeeps == ASSUME Untouched PROVE Keeps
  BY DEF Untouched, Keeps

LEMMA TurnKeeps ==
  ASSUME TypeOK, NEW t \in Turns,
         InterruptTurn(t) \/ \E streaming \in BOOLEAN : MessageSent(t, streaming)
  PROVE  Keeps
<1>1. rows \in Rows
  BY DEF TypeOK
<1>2. CASE InterruptTurn(t)
  BY <1>1, <1>2 DEF InterruptTurn, Keeps, Rows
<1>3. CASE \E streaming \in BOOLEAN : MessageSent(t, streaming)
  <2>1. PICK streaming \in BOOLEAN : MessageSent(t, streaming)
    BY <1>3
  <2>2. model' = model /\ rows' = MessageSentInRows(rows, t, streaming)
    BY <2>1 DEF MessageSent
  <2>3. /\ rows'.latest = rows.latest /\ rows'.turn = rows.turn
        /\ rows'.checkpoints = rows.checkpoints
    BY <1>1, <2>2 DEF MessageSentInRows, Rows
  <2>4. \A u \in Turns : rows.turns[u] # "absent" => rows'.turns[u] # "absent"
    BY <1>1, <2>2 DEF MessageSentInRows, Rows
  <2> QED BY <2>2, <2>3, <2>4 DEF Keeps
<1> QED BY <1>2, <1>3

(* A thread left alone.                                                     *)
LEMMA ThreadKeeps == ASSUME TypeOK, UNCHANGED thread PROVE Keeps
BY GraceUntouched, UntouchedKeeps

(* The reactor only sets sessions.                                          *)
LEMMA ReactorShows ==
  ASSUME NEW status \in SessionStatuses, ReactorSets(status)
  PROVE  Shows
BY DEF ReactorSets, Shows, TurnIds

(* Clients.                                                                 *)
LEMMA UsersKeep == ASSUME TypeOK, Users PROVE Keeps
<1>1. CASE UserStarts
  BY <1>1, StartUntouched, UntouchedKeeps DEF UserStarts
<1>2. CASE UserInterrupts
  <2>1. rows.turn \in Turns /\ InterruptTurn(rows.turn)
    BY <1>2 DEF UserInterrupts, TypeOK, Rows
  <2> QED BY <2>1, TurnKeeps
<1>3. CASE UserAnswers
  BY <1>3, RequestsUntouched, UntouchedKeeps DEF UserAnswers
<1>4. CASE UserStops \/ ParkReads \/ ParkStops
  BY <1>4, ThreadKeeps DEF UserStops, ParkReads, ParkStops
<1>5. CASE UserTidies
  <2>1. Snooze \/ Unsnooze \/ Unarchive \/ \E reason \in {"user", "activity"} : Unsettle(reason)
    BY <1>5 DEF UserTidies
  <2> QED BY <2>1, StampsUntouched, UntouchedKeeps
<1>6. CASE ParkCommand
  <2>1. Settle \/ Archive \/ UNCHANGED thread
    BY <1>6 DEF ParkCommand
  <2> QED BY <2>1, StampsUntouched, UntouchedKeeps, ThreadKeeps
<1> QED BY <1>1, <1>2, <1>3, <1>4, <1>5, <1>6 DEF Users

(* Sends only set the session when they fail.                               *)
LEMMA SendsShow == ASSUME TypeOK, NEW n \in Starts,
         \/ SendRoutes(n) \/ SendRecovers(n) \/ SendOpens(n) \/ SendEnds(n)
         \/ SendFailureReads(n) \/ SendFailureSets(n)
  PROVE  Keeps \/ Shows
<1>1. CASE SendFailureSets(n)
  <2>1. PICK status \in SessionStatuses, newer \in BOOLEAN : SetSession(status, NoTurn, newer)
    BY <1>1 DEF SendFailureSets, SessionStatuses
  <2> QED BY <2>1 DEF Shows, TurnIds
<1>2. CASE ~SendFailureSets(n)
  BY <1>2, ThreadKeeps DEF SendRoutes, SendRecovers, SendOpens, SendEnds, SendFailureReads
<1> QED BY <1>1, <1>2

(* The reactor sets it, or says that an answer came too late.               *)
LEMMA ReactorKeeps == ASSUME WorkOK, TypeOK, Reactor PROVE Keeps \/ Shows
<1>1. CASE ReactorMarks \/ ReactorBinds \/ ReactorRecordsStop \/ ReactorRecordsFailure
  <2>1. "starting" \in SessionStatuses /\ "stopped" \in SessionStatuses /\ "error" \in SessionStatuses
    BY DEF SessionStatuses, Live
  <2>2. CASE UNCHANGED thread
    BY <2>2, ThreadKeeps
  <2>3. CASE ~UNCHANGED thread
    <3>1. PICK status \in {"starting", "stopped", "error"} : ReactorSets(status)
      BY <1>1, <2>3 DEF ReactorMarks, ReactorBinds, ReactorRecordsStop, ReactorRecordsFailure
    <3> QED BY <2>1, <3>1, ReactorShows
  <2> QED BY <2>2, <2>3
<1>2. CASE ReactorAnswers
  <2>1. CASE UNCHANGED thread
    BY <2>1, ThreadKeeps
  <2>2. CASE ~UNCHANGED thread
    <3>1. reactor.pc = "answer" /\ AppendStaleFailure(reactor.intent.request)
      BY <1>2, <2>2 DEF ReactorAnswers
    <3>2. reactor.intent.request \in Requests
      BY <3>1 DEF WorkOK
    <3> QED BY <3>1, <3>2, RequestsUntouched, UntouchedKeeps
  <2> QED BY <2>1, <2>2
<1>3. CASE UNCHANGED thread
  BY <1>3, ThreadKeeps
<1> QED BY <1>1, <1>2, <1>3 DEF Reactor, ReactorTakes, ReactorKeepsSession, ReactorStartsSession,
      ReactorStartFails, ReactorStops, ReactorRecovers, ReactorInterrupts, ReactorInterruptFails,
      ReactorGivesUp

(* The ingestion sets it as decided, and takes requests and messages.        *)
LEMMA IngestionKeeps == ASSUME WorkOK, TypeOK, Ingestion PROVE Keeps \/ Shows
<1>1. CASE IngestReads
  BY <1>1, ThreadKeeps DEF IngestReads
<1>2. CASE IngestWrites
  <2>1. ingest \in Writes
    BY <1>2 DEF IngestWrites, WorkOK, Idle
  <2> QED BY <1>2, <2>1 DEF IngestWrites, Writes, Shows
<1>3. CASE IngestAppends
  <2>1. feed # <<>> /\ feed' = Tail(feed)
    BY <1>3 DEF IngestAppends
  <2>2. Head(feed) = feed[1] /\ feed[1] \in AgentEvents
    BY <2>1, FeedTail
  <2>3. \A e \in AgentEvents : /\ e.type \in {"opened", "resolved"} => e.request \in Requests
                               /\ e.type = "message" => e.turn \in Turns /\ e.streaming \in BOOLEAN
    BY DEF AgentEvents
  <2>4. PICK e \in AgentEvents : e = Head(feed)
    BY <2>2
  <2>5. CASE e.type \in {"opened", "resolved"} /\ (AppendRequested(e.request) \/ AppendResolved(e.request))
    BY <2>3, <2>5, RequestsUntouched, UntouchedKeeps
  <2>6. CASE e.type = "message" /\ MessageSent(e.turn, e.streaming)
    BY <2>3, <2>6, TurnKeeps
  <2> QED BY <1>3, <2>4, <2>5, <2>6 DEF IngestAppends
<1> QED BY <1>1, <1>2, <1>3 DEF Ingestion

(* A turn that is shown keeps the session's, and a session that runs one      *)
(* makes it the latest of both.                                              *)
LEMMA KeptLatest == ASSUME LatestInv, TypeOK, Grows, Keeps PROVE
    CheckpointsKnown' /\ LatestIsShown' /\ LatestIsKnown'
<1>1. rows.latest \in Turns \cup {NoTurn}
  BY DEF TypeOK, Rows
<1>2. LatestIsShown' /\ CheckpointsKnown'
  BY <1>1 DEF LatestInv, Keeps, LatestIsShown, CheckpointsKnown
<1>3. LatestIsKnown'
  BY ExceptGrows DEF LatestInv, Keeps, LatestIsKnown
<1> QED BY <1>2, <1>3

LEMMA ShownLatest == ASSUME LatestInv, TypeOK, Grows, Shows, TurnRuns' PROVE
    /\ CheckpointsKnown' /\ LatestIsShown' /\ LatestIsKnown'
    /\ rows'.checkpoints = rows.checkpoints
<1>1. PICK status \in SessionStatuses, turn \in Turns \cup {NoTurn}, newer \in BOOLEAN :
        SetSession(status, turn, newer)
  BY DEF Shows, TurnIds
<1>2. /\ rows'.turn = turn /\ rows'.status = status
      /\ rows'.latest = IF turn = NoTurn THEN rows.latest ELSE turn
      /\ rows'.checkpoints = rows.checkpoints
      /\ \A t \in Turns : rows.turns[t] # "absent" \/ (t = turn /\ status = "running") =>
             rows'.turns[t] # "absent"
      /\ model'.latest = IF status = "running" /\ turn # NoTurn THEN turn ELSE model.latest
      /\ model'.checkpoints = model.checkpoints
  BY <1>1, SessionShown
<1>3. turn # NoTurn => status = "running"
  BY <1>2 DEF TurnRuns
<1>4. rows.latest \in Turns \cup {NoTurn}
  BY DEF TypeOK, Rows
<1>5. LatestIsShown' /\ CheckpointsKnown'
  BY <1>2, <1>3, <1>4 DEF LatestInv, LatestIsShown, CheckpointsKnown
<1>6. LatestIsKnown'
  BY <1>2, <1>3, ExceptGrows DEF LatestInv, LatestIsKnown
<1> QED BY <1>2, <1>5, <1>6

(* A checkpoint makes its turn the latest of both: the read model knows it as *)
(* final only if it is, and a turn that runs is the latest already.          *)
LEMMA RecordsLatest == ASSUME TurnsInv, LatestInv, CaptureRecords PROVE LatestInv'
<1>1. TypeOK /\ WorkOK /\ OutputOK /\ ColumnsAgree /\ model \in Model /\ rows \in Rows
  BY DEF TurnsInv, ThreadInv, TypeOK
<1>2. capture.pc = "record" /\ capture \in Capturing /\ capture' = Idle
  BY <1>1 DEF OutputOK, CaptureRecords, Idle
<1>3. capture.turn \in Turns /\ capture.status \in {"ready", "missing"}
  BY <1>2 DEF Capturing
<1>4. CaptureIsNew'
  BY <1>2 DEF CaptureIsNew, Idle
<1>5. CASE UNCHANGED <<thread, asked>>
  <2>1. Keeps /\ Grows
    BY <1>1, <1>5, ThreadKeeps DEF Grows
  <2> QED BY <1>1, <1>4, <2>1, KeptLatest DEF LatestInv
<1>6. CASE /\ \E newer \in BOOLEAN : TurnDiffCompleted(capture.turn, capture.status, newer)
           /\ Mishaps({k \in {"late"} : rows.turn \notin {NoTurn, capture.turn}})
  <2>1. PICK t \in Turns, status \in {"ready", "missing"}, newer \in BOOLEAN :
          /\ t = capture.turn /\ status = capture.status
          /\ TurnDiffCompleted(t, status, newer)
    BY <1>3, <1>6
  <2>2. /\ model' = TurnDiffCompletedInModel(model, t, status, newer)
        /\ rows' = TurnDiffCompletedInRows(rows, t, status)
    BY <2>1 DEF TurnDiffCompleted
  <2>3. /\ rows'.latest = t /\ rows'.turn = rows.turn
        /\ rows'.checkpoints = [rows.checkpoints EXCEPT ![t] = status]
        /\ rows'.turns[t] # "absent"
    BY <1>1, <2>2 DEF TurnDiffCompletedInRows, Rows
  <2>4. rows.checkpoints[t] \notin {"ready", "error"} /\ model.checkpoints[t] \notin {"ready", "error"}
    BY <1>2, <2>1 DEF LatestInv, CaptureIsNew, CheckpointsKnown
  <2>5. /\ model'.checkpoints = [model.checkpoints EXCEPT ![t] = status]
        /\ model'.latest = IF StillRunning(model, t) THEN model.latest ELSE t
    BY <1>1, <2>2, <2>4 DEF TurnDiffCompletedInModel, Model
  <2>6. LatestIsShown'
    BY <2>3 DEF LatestIsShown
  <2>7. CheckpointsKnown'
    <3>1. rows.checkpoints \in [Turns -> CheckpointStatuses]
          /\ model.checkpoints \in [Turns -> CheckpointStatuses]
      BY <1>1 DEF Rows, Model
    <3> QED BY <2>3, <2>5, <3>1 DEF LatestInv, CheckpointsKnown
  <2>8. LatestIsKnown'
    <3> SUFFICES ASSUME Except({"late"})'
                 PROVE  rows'.latest = model'.latest /\ (rows'.turn # NoTurn => rows'.latest = rows'.turn)
      BY DEF LatestIsKnown
    <3>1. Grows
      BY <1>1, <1>6, MishapsGrow
    <3>2. rows.latest = model.latest /\ (rows.turn # NoTurn => rows.latest = rows.turn)
      BY <3>1, ExceptGrows DEF LatestInv, LatestIsKnown
    <3>3. rows.turn \in {NoTurn, t}
      <4>1. asked'.mishaps = asked.mishaps \cup {k \in {"late"} : rows.turn \notin {NoTurn, t}}
        BY <1>1, <1>6, <2>1 DEF Mishaps, WorkOK, Asked
      <4>2. "late" \notin asked'.mishaps
        BY DEF Except
      <4> QED BY <4>1, <4>2
    <3>4. StillRunning(model, t) => rows.turn = t
      BY <1>1 DEF StillRunning, ColumnsAgree, Columns
    <3>5. t # NoTurn
      BY NoTurnIsNone
    <3> QED BY <2>3, <2>5, <3>2, <3>3, <3>4, <3>5
  <2> QED BY <1>4, <2>6, <2>7, <2>8 DEF LatestInv
<1> QED BY <1>5, <1>6 DEF CaptureRecords

(* A restart: the latest turn is in the rows, so that the read model finds it. *)
LEMMA RestartLatest == ASSUME TypeOK, WorkOK, LatestInv, ServerRestarts PROVE LatestInv'
<1>1. /\ rows' = rows /\ model' = Rebuilt /\ capture' = Idle
      /\ asked' = [asked EXCEPT !.restarts = @ + 1]
  BY DEF ServerRestarts, Rebuild
<1>2. Grows
  BY <1>1, MishapsGrow
<1>3. /\ model'.checkpoints = [t \in Turns |-> "none"]
      /\ model'.latest = rows.latest
  BY <1>1 DEF Rebuilt, LatestInv, LatestIsShown
<1>4. CaptureIsNew' /\ CheckpointsKnown' /\ LatestIsShown'
  BY <1>1, <1>3 DEF LatestInv, CaptureIsNew, CheckpointsKnown, LatestIsShown, Idle
<1>5. LatestIsKnown'
  BY <1>1, <1>2, <1>3, ExceptGrows DEF LatestInv, LatestIsKnown
<1> QED BY <1>4, <1>5 DEF LatestInv

(* No turn at first.                                                        *)
LEMMA LatestInit == TurnsInit => LatestInv
  BY DEF TurnsInit, Init, LatestInv, CaptureIsNew, CheckpointsKnown, LatestIsShown, LatestIsKnown, Idle

(* Every step keeps it.                                                     *)
LEMMA LatestStep == TurnsInv /\ LatestInv /\ [TurnsNext]_vars /\ WorkInv' => LatestInv'
<1> SUFFICES ASSUME TurnsInv, LatestInv, [TurnsNext]_vars, WorkInv' PROVE LatestInv'
  OBVIOUS
<1>1. WorkOK /\ TypeOK /\ TurnRuns' /\ CaptureIsNew
  BY DEF TurnsInv, ThreadInv, WorkInv, LatestInv
<1>2. CASE CaptureRecords
  BY <1>2, RecordsLatest
<1>3. CASE ServerRestarts
  BY <1>1, <1>3, RestartLatest
<1>4. CASE CaptureReads
  <2>1. Keeps /\ Grows
    BY <1>1, <1>4, ThreadKeeps DEF CaptureReads, Grows
  <2>2. CaptureIsNew'
    BY <1>4 DEF CaptureReads, CaptureWanted, CaptureIsNew, Idle, thread
  <2> QED BY <1>1, <2>1, <2>2, KeptLatest DEF LatestInv
<1>5. CASE \/ Users \/ Sends \/ Reactor \/ Ingestion \/ AgentAsks \/ AgentReports \/ AgentSpeaks
           \/ TimePasses \/ Reconcile \/ UNCHANGED vars
  <2>1. Keeps \/ Shows
    <3>1. CASE Users
      BY <1>1, <3>1, UsersKeep
    <3>2. CASE Sends
      BY <1>1, <3>2, SendsShow DEF Sends
    <3>3. CASE Reactor
      BY <1>1, <3>3, ReactorKeeps
    <3>4. CASE Ingestion
      BY <1>1, <3>4, IngestionKeeps
    <3>5. CASE AgentAsks \/ AgentReports \/ AgentSpeaks \/ TimePasses \/ UNCHANGED vars
      <4>1. GraceExpires \/ UNCHANGED thread
        BY <3>5 DEF AgentAsks, AgentReports, AgentSpeaks, TimePasses, vars, thread
      <4> QED BY <1>1, <4>1, GraceUntouched, UntouchedKeeps
    <3>6. CASE Reconcile
      <4>1. ReactorSets("error") \/ UNCHANGED thread
        BY <3>6 DEF Reconcile
      <4>2. "error" \in SessionStatuses
        BY DEF SessionStatuses
      <4> QED BY <1>1, <4>1, <4>2, ReactorShows, ThreadKeeps
    <3> QED BY <1>5, <3>1, <3>2, <3>3, <3>4, <3>5, <3>6
  <2>2. Grows
    <3>1. CASE Users
      <4>1. Acts \/ UNCHANGED asked \/ asked' = [asked EXCEPT !.starts = @ + 1]
        BY <3>1 DEF Users, UserStarts, UserInterrupts, UserAnswers, UserStops, UserTidies, ParkReads,
           ParkCommand, ParkStops, Calls
      <4> QED BY <1>1, <4>1, MishapsGrow
    <3>2. CASE Sends
      <4>1. PICK n \in Starts : \/ SendRoutes(n) \/ SendRecovers(n) \/ SendOpens(n) \/ SendEnds(n)
                                \/ SendFailureReads(n) \/ SendFailureSets(n)
        BY <3>2 DEF Sends
      <4>2. (\E kinds : Mishaps(kinds)) \/ UNCHANGED asked
        BY <4>1 DEF SendRoutes, SendRecovers, SendOpens, SendEnds, SendFailureReads, SendFailureSets,
           FailureMishaps, RecordMishaps
      <4> QED BY <1>1, <4>2, MishapsGrow
    <3>3. CASE Reactor
      <4>1. (\E kinds : Mishaps(kinds)) \/ UNCHANGED asked
        BY <3>3 DEF Reactor, ReactorTakes, ReactorMarks, ReactorKeepsSession, ReactorStartsSession,
           ReactorBinds, ReactorStartFails, ReactorRecordsFailure, ReactorStops, ReactorRecordsStop,
           ReactorRecovers, ReactorInterrupts, ReactorInterruptFails, ReactorGivesUp, ReactorAnswers,
           FailureMishaps, RecordMishaps
      <4> QED BY <1>1, <4>1, MishapsGrow
    <3>4. CASE \/ Ingestion \/ AgentAsks \/ AgentReports \/ AgentSpeaks \/ TimePasses \/ Reconcile
               \/ UNCHANGED vars
      BY <3>4 DEF Ingestion, IngestReads, IngestWrites, IngestAppends, AgentAsks, AgentReports,
         AgentSpeaks, TimePasses, Reconcile, vars, Grows
    <3> QED BY <1>5, <3>1, <3>2, <3>3, <3>4
  <2>3. capture' = capture
    <3>1. CASE Users
      BY <3>1 DEF Users, UserStarts, UserInterrupts, UserAnswers, UserStops, UserTidies, ParkReads,
         ParkCommand, ParkStops, Calls, records
    <3>2. CASE Sends
      BY <3>2 DEF Sends, SendRoutes, SendRecovers, SendOpens, SendEnds, SendFailureReads,
         SendFailureSets, records
    <3>3. CASE Reactor
      BY <3>3 DEF Reactor, ReactorTakes, ReactorMarks, ReactorKeepsSession, ReactorStartsSession,
         ReactorBinds, ReactorStartFails, ReactorRecordsFailure, ReactorStops, ReactorRecordsStop,
         ReactorRecovers, ReactorInterrupts, ReactorInterruptFails, ReactorGivesUp, ReactorAnswers,
         records
    <3>4. CASE \/ Ingestion \/ AgentAsks \/ AgentReports \/ AgentSpeaks \/ TimePasses \/ Reconcile
               \/ UNCHANGED vars
      BY <3>4 DEF Ingestion, IngestReads, IngestWrites, IngestAppends, AgentAsks, AgentReports,
         AgentSpeaks, TimePasses, Reconcile, vars, records
    <3> QED BY <1>5, <3>1, <3>2, <3>3, <3>4
  <2>4. rows'.checkpoints = rows.checkpoints /\ CheckpointsKnown' /\ LatestIsShown' /\ LatestIsKnown'
    BY <1>1, <2>1, <2>2, KeptLatest, ShownLatest DEF Keeps
  <2>5. CaptureIsNew'
    BY <1>1, <2>3, <2>4 DEF CaptureIsNew
  <2> QED BY <2>4, <2>5 DEF LatestInv
<1> QED BY <1>2, <1>3, <1>4, <1>5 DEF TurnsNext, Checkpoints

(* Decider and clients have the same latest turn, and it is the one that the *)
(* session runs, while sessions, messages, checkpoints and restarts move it   *)
(* on by different rules, unless a checkpoint of an ended turn was recorded   *)
(* after the next one had begun.                                             *)
THEOREM LatestTurnIsKnown == TurnsSpec => []LatestIsKnown
<1>1. LatestInv => LatestIsKnown
  BY DEF LatestInv
<1> QED BY <1>1, LatestInit, LatestStep, TurnsInvariant, WorkInvariant, PTL DEF TurnsSpec
=============================================================================
