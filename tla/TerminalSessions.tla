--------------------------- MODULE TerminalSessions ---------------------------
(* One terminal of the terminal manager (server/terminal/Manager.ts): the      *)
(* calls that open, clear, restart and close it under the lock of its thread,  *)
(* its processes, which know no lock, the history file behind the keyed worker *)
(* (KeyedCoalescingWorker), and one client that attaches to it and folds what   *)
(* it is sent (client-runtime/src/state/terminalSession.ts).                    *)
(*                                                                             *)
(* A call waits only for the worker, the file system and the spawn; between    *)
(* two waits it is one step, and so is the handling of an output or an exit:   *)
(* listeners offer to unbounded queues. A history is the sequence of the        *)
(* outputs in it; escape sequences and the limit on its length are left out.   *)
EXTENDS Naturals, Sequences

CONSTANTS
    MaxCalls,       \* calls of all clients
    MaxOutputs,     \* outputs of all processes
    MaxInterrupts   \* calls interrupted because their client has gone

ASSUME TerminalAssumption ==
    MaxCalls \in Nat /\ MaxOutputs \in Nat /\ MaxInterrupts \in Nat

VARIABLES
    sessions,   \* the session objects, in the order of their creation
    current,    \* the one in the manager's map, 0 when there is none
    op,         \* the call that holds the lock of the thread
    client,     \* the attached client
    file,       \* the history file, empty when there is none
    saves,      \* the histories enqueued to be written
    used,       \* how much of the bounds is used
    kept,       \* history: what the last session in the map left behind
    mishaps     \* history: see below

VARIABLES latestByKey, queuedKeys, activeKeys, queue, fiber, enqueued, attempted, values

worker == <<latestByKey, queuedKeys, activeKeys, queue, fiber, enqueued, attempted, values>>
terminal == <<sessions, current, op, client, used, kept, mishaps>>
vars == <<terminal, file, saves, worker>>

Terminal == "terminal"

(* The manager's persistWorker; every call and every output saves once at    *)
(* most, so the bound of the worker is never met.                            *)
Worker == INSTANCE KeyedCoalescingWorker
              WITH Keys <- {Terminal}, MaxValues <- MaxCalls + MaxOutputs

Sessions == 1 .. MaxCalls
NoSession == [status |-> "none", history |-> <<>>, seq |-> 0]
Free == [pc |-> "free", kind |-> "none", id |-> 0, seq |-> 0]

Detached == [pc |-> "none", buffer |-> <<>>, text |-> <<>>, status |-> "closed"]

Init ==
    /\ sessions = [i \in Sessions |-> NoSession]
    /\ current = 0
    /\ op = Free
    /\ client = Detached
    /\ file = <<>>
    /\ saves = <<>>
    /\ used = [calls |-> 0, outputs |-> 0, interrupts |-> 0]
    /\ kept = <<>>
    /\ mishaps = {}
    /\ Worker!Init

-----------------------------------------------------------------------------
(* What the client is sent and makes of it.                                 *)

(* The "started" and "restarted" events, and the answer to an attach.        *)
Snapshot(id, session) ==
    [type |-> "snapshot", from |-> id, seq |-> session.seq,
     history |-> session.history, status |-> session.status]

(* The client's fold; it does not look at sequences.                         *)
Applied(view, event) ==
    CASE event.type = "snapshot" ->
            [view EXCEPT !.text = event.history, !.status = event.status]
      [] event.type = "output" ->
            [view EXCEPT !.text = Append(@, event.chunk),
                         !.status = IF @ = "closed" THEN "running" ELSE @]
      [] event.type = "cleared" -> [view EXCEPT !.text = <<>>]
      [] OTHER -> [view EXCEPT !.status = event.type]

(* publishEvent, to a client that attaches or has attached.                  *)
Published(event) ==
    CASE client.pc = "opening" -> [client EXCEPT !.buffer = Append(@, event)]
      [] client.pc = "live" -> Applied(client, event)
      [] OTHER -> client

(* Buffered events that the snapshot does not cover.                         *)
IsFresh_Inclusive(event, snapshot) ==      \* mutant: the last event is covered and sent again
    event.seq >= snapshot.seq
IsFresh(event, snapshot) == event.seq > snapshot.seq

(* The end of attachStream: the snapshot, what was buffered, then live.      *)
WentLive(snapshot) ==
    LET view[n \in 0 .. Len(client.buffer)] ==
            IF n = 0 THEN Applied(client, snapshot)
            ELSE IF IsFresh(client.buffer[n], snapshot)
                 THEN Applied(view[n - 1], client.buffer[n]) ELSE view[n - 1]
    IN  [view[Len(client.buffer)] EXCEPT !.pc = "live", !.buffer = <<>>]

(* Mishaps, which the properties name as their exceptions:                   *)
(*   "reborn"     the snapshot is of a later session than events buffered    *)
(*                before it, whose sequences are higher all the same         *)
(*   "swallowed"  outputs come while a clear waits for the file, and the     *)
(*                client erases them when it hears of the clear              *)
(*   "abandoned"  a call is interrupted after it has changed the session     *)
(*   "evicted"    a session is evicted while a call works on it              *)
(*   "unflushed"  the histories of a thread are deleted while a write for a  *)
(*                session evicted before is still waiting                    *)
Kinds == {"reborn", "swallowed", "abandoned", "evicted", "unflushed"}
Except(kinds) == mishaps \cap kinds = {}
Note(kind, happens) == mishaps' = IF happens THEN mishaps \cup {kind} ELSE mishaps

Attached(snapshot) ==
    /\ client' = WentLive(snapshot)
    /\ Note("reborn", \E n \in 1 .. Len(client.buffer) :
                          /\ client.buffer[n].from # snapshot.from
                          /\ IsFresh(client.buffer[n], snapshot))

-----------------------------------------------------------------------------
(* The history file.                                                        *)

Save(history) ==
    /\ saves' = Append(saves, history)
    /\ Worker!Enqueue(Terminal)

NothingSaved == UNCHANGED <<saves, worker>>

Newest_First(set) == CHOOSE v \in set : \A w \in set : v <= w   \* mutant: merge keeps the old value
Newest(set) == CHOOSE v \in set : \A w \in set : w <= v

(* merge keeps the newest history, process writes it.                        *)
WriterStep ==
    /\ \/ (Worker!TakeKey \/ Worker!ActivateKey) /\ UNCHANGED file
       \/ Worker!ProcessKey /\ file' = saves[Newest(fiber.value)]
    /\ UNCHANGED <<terminal, saves>>

Flushed == Worker!Drained(Terminal)

-----------------------------------------------------------------------------
(* Calls. An attach has subscribed before it asks for the lock.              *)

Begins(kind) ==
    /\ op = Free
    /\ IF kind = "attach" THEN client.pc = "opening" /\ UNCHANGED used
       ELSE used.calls < MaxCalls /\ used' = [used EXCEPT !.calls = @ + 1]

Goes(pc) == op' = [op EXCEPT !.pc = pc]
Holds(pc, kind, id) == op' = [pc |-> pc, kind |-> kind, id |-> id, seq |-> 0]

(* stopProcess: the handlers are removed before the process is killed.       *)
Stopped_Closed(session) ==      \* mutant: the status of the client's event
    [session EXCEPT !.status = IF @ = "running" THEN "closed" ELSE @]
Stopped(session) ==
    [session EXCEPT !.status = IF @ = "running" THEN "exited" ELSE @]

(* A new session object; there is one for each call.                         *)
Created(history) ==
    \E id \in Sessions :
        /\ sessions[id].status = "none"
        /\ \A j \in Sessions : j < id => sessions[j].status # "none"
        /\ sessions' = [sessions EXCEPT ![id] =
                            [status |-> "starting", history |-> history, seq |-> 0]]
        /\ current' = id

AttachSubscribes ==
    /\ client.pc = "none"
    /\ used.calls < MaxCalls
    /\ used' = [used EXCEPT !.calls = @ + 1]
    /\ client' = [client EXCEPT !.pc = "opening"]
    /\ UNCHANGED <<sessions, current, op, file, kept, mishaps>> /\ NothingSaved

(* A running session, or one the client does not want restarted.             *)
AttachJoins ==
    /\ Begins("attach")
    /\ current # 0
    /\ Attached(Snapshot(current, sessions[current]))
    /\ UNCHANGED <<sessions, current, op, file, kept>> /\ NothingSaved

(* No session, and no directory to open one in.                              *)
AttachFails ==
    /\ Begins("attach")
    /\ current = 0
    /\ client' = Detached
    /\ UNCHANGED <<sessions, current, op, file, kept, mishaps>> /\ NothingSaved

ClientLeaves ==
    /\ client.pc = "live"
    /\ client' = Detached
    /\ UNCHANGED <<sessions, current, op, used, file, kept, mishaps>> /\ NothingSaved

(* Without a session: wait for the file, read it, start a process.           *)
OpenAbsent(kind) ==
    /\ Begins(kind)
    /\ current = 0
    /\ Holds("flush", kind, 0)
    /\ UNCHANGED <<sessions, current, client, file, kept, mishaps>> /\ NothingSaved

OpenReads ==
    /\ op.pc = "flush"
    /\ Flushed
    /\ Created(file)
    /\ op' = [op EXCEPT !.pc = "spawn", !.id = current']
    /\ UNCHANGED <<client, used, file, kept, mishaps>> /\ NothingSaved

(* The session starts anew with an empty history: one that has ended, or any *)
(* when the directory or the environment of an open has changed.             *)
StartsAnew(kind) ==
    /\ sessions' = [sessions EXCEPT ![current] =
                        [Stopped(@) EXCEPT !.history = <<>>]]
    /\ Save(<<>>)
    /\ Holds("persist", kind, current)
    /\ UNCHANGED <<current, client, file, kept, mishaps>>

OpenReplaces(kind) ==
    /\ Begins(kind)
    /\ current # 0
    /\ kind = "attach" => sessions[current].status # "running"
    /\ StartsAnew(kind)

(* One whose start was interrupted is started again.                         *)
OpenResumes(kind) ==
    /\ Begins(kind)
    /\ current # 0 /\ sessions[current].status = "starting"
    /\ Holds("spawn", kind, current)
    /\ UNCHANGED <<sessions, current, client, file, kept, mishaps>> /\ NothingSaved

Restart ==
    /\ Begins("restart")
    /\ \/ current # 0 /\ StartsAnew("restart")
       \/ /\ current = 0
          /\ Created(<<>>)
          /\ Save(<<>>)
          /\ Holds("persist", "restart", current')
          /\ UNCHANGED <<client, file, kept, mishaps>>

(* startSession.                                                             *)
Persisted ==
    /\ op.pc = "persist"
    /\ Flushed
    /\ sessions' = [sessions EXCEPT ![op.id].status = "starting"]
    /\ Goes("spawn")
    /\ UNCHANGED <<current, client, used, file, kept, mishaps>> /\ NothingSaved

Spawned(status) ==
    LET session == [sessions[op.id] EXCEPT !.status = status, !.seq = @ + 1]
        snapshot == Snapshot(op.id, session)
    IN  /\ op.pc = "spawn"
        /\ sessions' = [sessions EXCEPT ![op.id] = session]
        /\ op' = Free
        /\ IF op.kind = "attach" THEN Attached(snapshot)
           ELSE /\ client' = Published(IF status = "running" THEN snapshot
                                       ELSE [type |-> "error", from |-> op.id,
                                             seq |-> session.seq])
                /\ UNCHANGED mishaps
        /\ UNCHANGED <<current, used, file, kept>> /\ NothingSaved

(* clear: the sequence is taken before the wait, the event published after.  *)
Clear ==
    /\ Begins("clear")
    /\ current # 0
    /\ sessions' = [sessions EXCEPT ![current].history = <<>>, ![current].seq = @ + 1]
    /\ op' = [pc |-> "clearing", kind |-> "clear", id |-> current,
              seq |-> sessions[current].seq + 1]
    /\ Save(<<>>)
    /\ UNCHANGED <<current, client, file, kept, mishaps>>

Cleared ==
    /\ op.pc = "clearing"
    /\ Flushed
    /\ op' = Free
    /\ client' = Published([type |-> "cleared", from |-> op.id, seq |-> op.seq])
    /\ Note("swallowed", sessions[op.id].history # <<>>)
    /\ UNCHANGED <<sessions, current, used, file, kept>> /\ NothingSaved

(* close: "delete" of one terminal, "forget" of all terminals of a thread,   *)
(* of which only the ones in the map are closed and flushed.                 *)
Close_LeavesProcess(kind) ==    \* mutant: the process is not stopped
    /\ Begins(kind)
    /\ current # 0
    /\ Save(sessions[current].history)
    /\ op' = [pc |-> "closing", kind |-> kind, id |-> current,
              seq |-> sessions[current].seq + 1]
    /\ UNCHANGED <<sessions, current, client, file, kept, mishaps>>

Close(kind) ==
    /\ Begins(kind)
    /\ current # 0
    /\ sessions' = [sessions EXCEPT ![current] = Stopped(@)]
    /\ Save(sessions[current].history)
    /\ op' = [pc |-> "closing", kind |-> kind, id |-> current,
              seq |-> sessions[current].seq + 1]
    /\ UNCHANGED <<current, client, file, kept, mishaps>>

CloseAbsent(kind) ==
    /\ Begins(kind)
    /\ current = 0
    /\ Holds(IF kind = "forget" THEN "deleting" ELSE "closing", kind, 0)
    /\ Note("unflushed", kind = "forget" /\ ~Flushed)
    /\ UNCHANGED <<sessions, current, client, file, kept>> /\ NothingSaved

Closed ==
    /\ op.pc = "closing"
    /\ Flushed
    /\ current' = 0
    /\ IF current = 0 THEN UNCHANGED <<client, kept>>
       ELSE /\ kept' = sessions[current].history
            /\ client' = Published([type |-> "closed", from |-> op.id, seq |-> op.seq])
    /\ op' = IF op.kind = "close" THEN Free ELSE [op EXCEPT !.pc = "deleting"]
    /\ UNCHANGED <<sessions, used, file, mishaps>> /\ NothingSaved

Deleted ==
    /\ op.pc = "deleting"
    /\ file' = <<>>
    /\ kept' = <<>>
    /\ op' = Free
    /\ UNCHANGED <<sessions, current, client, used, mishaps>> /\ NothingSaved

(* The client of a call goes away and the call with it; an attach cannot be  *)
(* interrupted before it is live.                                            *)
CallInterrupted ==
    /\ op # Free /\ op.kind # "attach"
    /\ used.interrupts < MaxInterrupts
    /\ used' = [used EXCEPT !.interrupts = @ + 1]
    /\ op' = Free
    /\ Note("abandoned", op.pc # "flush")
    /\ UNCHANGED <<sessions, current, client, file, kept>> /\ NothingSaved

-----------------------------------------------------------------------------
(* Processes and other terminals.                                           *)

ProcessOutput(i) ==
    LET chunk == used.outputs + 1
        session == [sessions[i] EXCEPT !.history = Append(@, chunk), !.seq = @ + 1]
    IN  /\ sessions[i].status = "running"
        /\ used.outputs < MaxOutputs
        /\ used' = [used EXCEPT !.outputs = chunk]
        /\ sessions' = [sessions EXCEPT ![i] = session]
        /\ Save(session.history)
        /\ client' = Published([type |-> "output", from |-> i, seq |-> session.seq,
                                chunk |-> chunk])
        /\ UNCHANGED <<current, op, file, kept, mishaps>>

ProcessExit(i) ==
    /\ sessions[i].status = "running"
    /\ sessions' = [sessions EXCEPT ![i].status = "exited", ![i].seq = @ + 1]
    /\ client' = Published([type |-> "exited", from |-> i, seq |-> sessions[i].seq + 1])
    /\ UNCHANGED <<current, op, used, file, kept, mishaps>> /\ NothingSaved

(* Another terminal ends, and this one is the oldest of too many that have.  *)
Evict ==
    /\ current # 0
    /\ sessions[current].status # "running"
    /\ current' = 0
    /\ kept' = sessions[current].history
    /\ Note("evicted", op # Free)
    /\ UNCHANGED <<sessions, op, client, used, file>> /\ NothingSaved

-----------------------------------------------------------------------------
Attach == AttachJoins \/ AttachFails \/ OpenAbsent("attach") \/ OpenReplaces("attach")
          \/ OpenResumes("attach")

Continues == OpenReads \/ Persisted \/ (\E s \in {"running", "error"} : Spawned(s))
             \/ Cleared \/ Closed \/ Deleted

Clients ==
    \/ AttachSubscribes \/ ClientLeaves
    \/ OpenAbsent("open") \/ OpenReplaces("open") \/ OpenResumes("open")
    \/ Restart \/ Clear
    \/ \E kind \in {"close", "delete", "forget"} : Close(kind)
    \/ \E kind \in {"delete", "forget"} : CloseAbsent(kind)

Next ==
    \/ Attach \/ Continues \/ Clients \/ CallInterrupted \/ WriterStep
    \/ \E i \in Sessions : ProcessOutput(i) \/ ProcessExit(i)
    \/ Evict

Spec == Init /\ [][Next]_vars

(* The runtime resumes the worker, the holder of the lock and whoever waits  *)
(* for it; reads, writes and spawns end. Nothing makes a client call.        *)
FairSpec == Spec /\ WF_vars(WriterStep) /\ WF_vars(Continues) /\ WF_vars(Attach)

-----------------------------------------------------------------------------
(* Properties.                                                             *)

Histories == Seq(1 .. MaxOutputs)
Statuses == {"starting", "running", "exited", "error"}

(* The kinds of the variables.                                              *)
TypeOK ==
    /\ sessions \in [Sessions -> [status : Statuses \cup {"none"}, history : Histories,
                                  seq : Nat]]
    /\ current \in Sessions \cup {0}
    /\ current # 0 => sessions[current].status # "none"
    /\ op.pc \in {"free", "flush", "persist", "spawn", "clearing", "closing", "deleting"}
    /\ op.kind \in {"none", "open", "attach", "restart", "clear", "close", "delete", "forget"}
    /\ op.id \in Sessions \cup {0}
    /\ op.pc \in {"persist", "spawn", "clearing"} => sessions[op.id].status # "none"
    /\ client.pc \in {"none", "opening", "live"}
    /\ client.text \in Histories
    /\ client.status \in Statuses \cup {"closed"}
    /\ file \in Histories /\ kept \in Histories
    /\ saves \in Seq(Histories) /\ Len(saves) = values
    /\ mishaps \in SUBSET Kinds
    /\ Worker!TypeOK

(* An attached client shows what the terminal has shown and whether it runs,  *)
(* whichever of snapshot, buffer and live events it learnt it from; and it    *)
(* shows no running terminal when there is none. (It joins four events it     *)
(* cannot tell apart by their sequence, which begins again with each session, *)
(* and a clear is heard of late. A start that fails sends no snapshot, so     *)
(* with the error the old text stays.)                                        *)
ViewIsHistory ==
    /\ client.pc = "live" /\ op = Free
    /\ Except({"reborn", "swallowed", "abandoned", "evicted"})
    => IF current = 0 THEN client.status # "running"
       ELSE /\ client.status = sessions[current].status
            /\ client.status # "error" => client.text = sessions[current].history

(* The history file is never left behind: when the worker has nothing more   *)
(* to write, the file has the history of the session, or of the last one, so  *)
(* that opening the terminal again shows it; and a deleted history stays      *)
(* deleted.                                                                   *)
HistoryIsSaved ==
    Flushed /\ Except({"evicted", "unflushed"})
        => file = IF current = 0 THEN kept ELSE sessions[current].history

(* Every process can be reached: it belongs to the session in the map, which *)
(* is the one that close, write and the shutdown of the server look up.       *)
ProcessIsReachable ==
    Except({"evicted"}) => \A i \in Sessions : sessions[i].status = "running" => i = current

(* The lock of the thread is always given back, and an attach is answered:   *)
(* no call waits for good for the file (once the output pauses, which the     *)
(* bound on outputs says).                                                    *)
CallsReturn ==
    /\ (op # Free) ~> (op = Free)
    /\ (client.pc = "opening") ~> (client.pc # "opening")
=============================================================================
