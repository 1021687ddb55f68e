------------------------ MODULE TerminalSessionsProofs ------------------------
(* Proofs about TerminalSessions, for any number of calls, outputs and          *)
(* interruptions: the manager uses the keyed worker as it may be used, so what  *)
(* is proved of the worker holds of the history file; a process can be reached; *)
(* the file follows the history; and so does what an attached client shows.     *)
EXTENDS TerminalSessions, SequenceTheorems, WellFoundedInduction, TLAPS

Keyed == INSTANCE KeyedCoalescingWorkerProofs
             WITH Keys <- {Terminal}, MaxValues <- MaxCalls + MaxOutputs

Waiting == latestByKey[Terminal]
Writing == fiber.phase = "process"

(* What opening the terminal is to show: the history of the session, or the  *)
(* last one's.                                                               *)
Memory == IF current = 0 THEN kept ELSE sessions[current].history

SessionSet == [status : Statuses \cup {"none"}, history : Histories, seq : Nat]
Calls == [pc : {"free", "flush", "persist", "spawn", "clearing", "closing", "deleting"},
          kind : {"none", "open", "attach", "restart", "clear", "close", "delete", "forget"},
          id : Sessions \cup {0}, seq : Nat]

(* The kinds of all but the client, whose text is folded from events.        *)
ManagerTypes ==
    /\ sessions \in [Sessions -> SessionSet]
    /\ current \in Sessions \cup {0}
    /\ op \in Calls
    /\ op.pc \in {"persist", "spawn", "clearing"} => op.id \in Sessions
    /\ used \in [calls : Nat, outputs : 0 .. MaxOutputs, interrupts : Nat]
    /\ file \in Histories /\ kept \in Histories
    /\ saves \in Seq(Histories) /\ Len(saves) = values

(* A call that will start a process, or has changed the session, holds the   *)
(* session in the map; one that is to end it has stopped its process.        *)
CallHoldsSession ==
    Except({"evicted"}) =>
        /\ \A i \in Sessions : sessions[i].status = "running" => i = current
        /\ op.pc \in {"persist", "spawn", "clearing"} => op.id = current
        /\ op.pc \in {"flush", "deleting"} => current = 0
        /\ op.pc = "closing" /\ current # 0 => sessions[current].status # "running"

(* The newest history is in what waits, or in what is written last.          *)
NewestIsLast ==
    /\ Waiting \subseteq 1 .. values
    /\ Writing => /\ fiber.value \subseteq 1 .. values
                  /\ \E v \in fiber.value : \A w \in fiber.value : w <= v
    /\ Waiting # {} => values \in Waiting
    /\ Waiting = {} /\ Writing => values \in fiber.value

(* What will be, or is, in the file.                                         *)
FileFollows ==
    Except({"evicted", "unflushed"}) =>
        /\ Waiting # {} \/ Writing => saves[values] = Memory
        /\ Waiting = {} /\ ~Writing => file = Memory
        /\ op.pc = "deleting" => Waiting = {} /\ ~Writing

ManagerInv == ManagerTypes /\ Keyed!KeyedInv /\ CallHoldsSession /\ NewestIsLast /\ FileFollows

LEMMA BoundIsNat == MaxCalls + MaxOutputs \in Nat
BY TerminalAssumption

LEMMA EmptyHistory == <<>> \in Histories
<1>1. \A S : <<>> \in Seq(S)
  BY EmptySeq
<1> QED BY <1>1 DEF Histories

-----------------------------------------------------------------------------
(* The worker below the manager.                                            *)

(* A drained worker neither holds nor writes a history.                      *)
LEMMA FlushedIsIdle ==
  ASSUME Keyed!KeyedInv, Flushed
  PROVE  Waiting = {} /\ ~Writing
<1>1. latestByKey[Terminal] = {} /\ Terminal \notin activeKeys
  BY DEF Flushed, Worker!Drained
<1>2. fiber.phase = "process" => fiber.key = Terminal
  BY DEF Keyed!KeyedInv, Keyed!TypeOK, Keyed!Fibers, Keyed!IdleFiber
<1>3. Terminal \in activeKeys <=> fiber.phase = "process" /\ fiber.key = Terminal
  BY DEF Keyed!KeyedInv, Keyed!ActiveIsProcessed, Keyed!Holds
<1> QED BY <1>1, <1>2, <1>3 DEF Waiting, Writing

(* The manager's steps are steps of the worker, or leave it alone.           *)
LEMMA SavesAreEnqueues == Worker!Enqueue(Terminal) => Keyed!Next
<1> SUFFICES ASSUME Worker!Enqueue(Terminal) PROVE Keyed!Next
  OBVIOUS
<1>1. Keyed!Enqueue(Terminal)
  BY DEF Worker!Enqueue, Keyed!Enqueue, Worker!NeedsOffer, Keyed!NeedsOffer
<1> QED BY <1>1 DEF Keyed!Next

LEMMA WriterMoves == WriterStep => Keyed!Next
<1> SUFFICES ASSUME WriterStep PROVE Keyed!Next
  OBVIOUS
<1>1. Keyed!TakeKey \/ Keyed!ActivateKey \/ Keyed!ProcessKey
  BY DEF WriterStep, Worker!TakeKey, Keyed!TakeKey, Worker!ActivateKey, Keyed!ActivateKey,
         Worker!ProcessKey, Keyed!ProcessKey, Worker!StartProcessing, Keyed!StartProcessing,
         Worker!Working, Keyed!Working, Worker!IdleFiber, Keyed!IdleFiber
<1> QED BY <1>1 DEF Keyed!Next, Keyed!FiberStep

Calling == Attach \/ Continues \/ Clients \/ CallInterrupted

LEMMA WorkerMoves == [Next]_vars => [Keyed!Next]_(Keyed!vars)
<1> SUFFICES ASSUME [Next]_vars PROVE Keyed!Next \/ UNCHANGED worker
  BY DEF worker, Keyed!vars
<1>1. CASE UNCHANGED vars
  BY <1>1 DEF vars, worker
<1>2. CASE WriterStep
  BY <1>2, WriterMoves
<1>3. CASE Attach
  BY <1>3, SavesAreEnqueues DEF Attach, AttachJoins, AttachFails, OpenAbsent, OpenReplaces,
        OpenResumes, StartsAnew, Save, NothingSaved
<1>4. CASE Continues
  BY <1>4, SavesAreEnqueues DEF Continues, OpenReads, Persisted, Spawned, Cleared, Closed,
        Deleted, NothingSaved
<1>5. CASE Clients
  BY <1>5, SavesAreEnqueues DEF Clients, AttachSubscribes, ClientLeaves, OpenAbsent,
        OpenReplaces, OpenResumes, Restart, StartsAnew, Clear, Close, CloseAbsent, Save,
        NothingSaved
<1>6. CASE CallInterrupted \/ (\E i \in Sessions : ProcessOutput(i) \/ ProcessExit(i)) \/ Evict
  BY <1>6, SavesAreEnqueues DEF CallInterrupted, ProcessOutput, ProcessExit, Evict, Save,
        NothingSaved
<1> QED BY <1>1, <1>2, <1>3, <1>4, <1>5, <1>6 DEF Next

(* The manager uses its persist worker as the worker's specification allows, *)
(* whatever is called, interrupted or evicted.                               *)
THEOREM ManagerRunsWorker == Spec => Keyed!Spec
<1>1. Init => Keyed!Init
  BY DEF Init, Worker!Init, Keyed!Init, Worker!IdleFiber, Keyed!IdleFiber
<1> QED BY <1>1, WorkerMoves, PTL DEF Spec, Keyed!Spec

(* When a flush of the terminal returns, each history saved before has been  *)
(* written, alone or merged into a newer one.                                *)
THEOREM FlushedIsWritten == Spec => []Keyed!DrainedIsDone
BY BoundIsNat, ManagerRunsWorker, Keyed!DrainCorrect, PTL

-----------------------------------------------------------------------------
(* The two effects on what is written.                                      *)

(* A saved history is the newest, and waits.                                 *)
LEMMA SaveEffect ==
  ASSUME ManagerTypes, Keyed!KeyedInv, NewestIsLast, NEW h \in Histories, Save(h)
  PROVE  /\ saves' \in Seq(Histories) /\ Len(saves') = values'
         /\ saves'[values'] = h
         /\ Waiting' # {}
         /\ NewestIsLast'
<1>1. saves \in Seq(Histories) /\ Len(saves) = values
  BY DEF ManagerTypes
<1>2. /\ saves' \in Seq(Histories) /\ Len(saves') = Len(saves) + 1
      /\ saves'[Len(saves) + 1] = h
  BY <1>1, AppendProperties DEF Save
<1>3. values \in Nat /\ latestByKey \in [{Terminal} -> SUBSET (Nat \ {0})]
  BY DEF Keyed!KeyedInv, Keyed!TypeOK
<1>4. values' = values + 1 /\ Waiting' = Waiting \cup {values + 1} /\ fiber' = fiber
  BY <1>3 DEF Save, Worker!Enqueue, Waiting
<1>5. NewestIsLast'
  <2>1. Waiting' \subseteq 1 .. values' /\ values' \in Waiting' /\ Waiting' # {}
    BY <1>3, <1>4 DEF NewestIsLast
  <2>2. Writing' <=> Writing
    BY <1>4 DEF Writing
  <2>3. Writing => fiber'.value \subseteq 1 .. values'
    BY <1>3, <1>4 DEF NewestIsLast
  <2> QED BY <1>4, <2>1, <2>2, <2>3 DEF NewestIsLast
<1> QED BY <1>1, <1>2, <1>4, <1>5

(* The newest of the merged histories.                                      *)
LEMMA NewestIsIn ==
  ASSUME NEW numbers, NEW n \in Nat, numbers \subseteq 1 .. n, \E v \in numbers : \A w \in numbers : w <= v
  PROVE  Newest(numbers) \in 1 .. n /\ (n \in numbers => Newest(numbers) = n)
<1>1. Newest(numbers) \in numbers /\ \A w \in numbers : w <= Newest(numbers)
  BY DEF Newest
<1>2. \A v \in numbers : v \in 1 .. n
  OBVIOUS
<1>3. \A v \in 1 .. n : v \in Nat /\ v <= n
  OBVIOUS
<1> DEFINE m == Newest(numbers)
<1>4. m \in numbers /\ \A w \in numbers : w <= m
  BY <1>1
<1> HIDE DEF m
<1>5. m \in 1 .. n
  BY <1>2, <1>4
<1>6. n \in numbers => m = n
  <2>1. m \in Nat /\ m <= n
    BY <1>3, <1>5
  <2> QED BY <1>4, <2>1
<1> QED BY <1>5, <1>6 DEF m

(* The worker writes the newest history it has, and what it takes up is      *)
(* newer.                                                                   *)
LEMMA WriterEffect ==
  ASSUME ManagerInv, WriterStep
  PROVE  ManagerInv'
<1>1. ManagerTypes /\ NewestIsLast /\ Keyed!KeyedInv /\ FileFollows
  BY DEF ManagerInv
<1>2. Keyed!KeyedInv'
  BY BoundIsNat, <1>1, WriterMoves, Keyed!InvStable
<1>3. /\ UNCHANGED <<sessions, current, op, used, kept, mishaps, saves>>
      /\ Memory' = Memory
  BY DEF WriterStep, terminal, Memory
<1>4. CallHoldsSession'
  BY <1>3 DEF ManagerInv, CallHoldsSession, Except
<1>5. values \in Nat /\ latestByKey \in [{Terminal} -> SUBSET (Nat \ {0})] /\ values' = values
  BY <1>1 DEF Keyed!KeyedInv, Keyed!TypeOK, WriterStep, Worker!TakeKey, Worker!ActivateKey,
              Worker!ProcessKey
<1>6. fiber.phase \in {"taken", "process"} => fiber.key = Terminal
  BY <1>1 DEF Keyed!KeyedInv, Keyed!TypeOK, Keyed!Fibers, Keyed!IdleFiber
<1>7. CASE Worker!TakeKey /\ UNCHANGED file
  <2>1. Waiting' = Waiting /\ ~Writing /\ ~Writing'
    BY <1>7 DEF Worker!TakeKey, Waiting, Writing, Worker!Working
  <2>2. ManagerTypes' /\ NewestIsLast' /\ FileFollows'
    BY <1>1, <1>3, <1>5, <1>7, <2>1 DEF ManagerTypes, NewestIsLast, FileFollows, Except
  <2> QED BY <1>2, <1>4, <2>2 DEF ManagerInv
<1>8. ASSUME Worker!StartProcessing(Terminal), Waiting # {}
      PROVE  NewestIsLast' /\ Waiting' = {} /\ Writing' /\ values \in fiber'.value
  <2>1. fiber'.value = Waiting /\ Waiting' = {} /\ Writing'
    BY <1>5, <1>8 DEF Worker!StartProcessing, Worker!Working, Waiting, Writing
  <2>2. Waiting \subseteq 1 .. values /\ values \in Waiting
    BY <1>1, <1>8 DEF NewestIsLast
  <2>3. \E v \in fiber'.value : \A w \in fiber'.value : w <= v
    <3>1. \A w \in Waiting : w <= values
      BY <1>5, <2>2
    <3> QED BY <2>1, <2>2, <3>1
  <2> QED BY <1>5, <2>1, <2>2, <2>3 DEF NewestIsLast
<1>9. CASE Worker!ActivateKey /\ UNCHANGED file
  <2>1. fiber.key = Terminal /\ ~Writing
    BY <1>6, <1>9 DEF Worker!ActivateKey, Writing
  <2>2. CASE Waiting = {}
    <3>1. Waiting' = {} /\ ~Writing'
      BY <1>9, <2>1, <2>2 DEF Worker!ActivateKey, Worker!IdleFiber, Waiting, Writing
    <3>2. ManagerTypes' /\ NewestIsLast' /\ FileFollows'
      BY <1>1, <1>3, <1>5, <1>9, <2>1, <2>2, <3>1 DEF ManagerTypes, NewestIsLast, FileFollows, Except
    <3> QED BY <1>2, <1>4, <3>2 DEF ManagerInv
  <2>3. CASE Waiting # {}
    <3>1. NewestIsLast' /\ Waiting' = {} /\ Writing'
      BY <1>8, <1>9, <2>1, <2>3 DEF Worker!ActivateKey, Waiting
    <3>2. ManagerTypes' /\ FileFollows'
      BY <1>1, <1>3, <1>5, <1>9, <2>3, <3>1 DEF ManagerTypes, FileFollows, Except
    <3> QED BY <1>2, <1>4, <3>1, <3>2 DEF ManagerInv
  <2> QED BY <2>2, <2>3
<1>10. CASE Worker!ProcessKey /\ file' = saves[Newest(fiber.value)]
  <2>1. fiber.key = Terminal /\ Writing
    BY <1>6, <1>10 DEF Worker!ProcessKey, Writing
  <2>2. /\ Newest(fiber.value) \in 1 .. values
        /\ values \in fiber.value => Newest(fiber.value) = values
    BY <1>1, <1>5, <2>1, NewestIsIn DEF NewestIsLast
  <2>3. file' \in Histories
    BY <1>1, <1>10, <2>2, ElementOfSeq DEF ManagerTypes
  <2>4. ManagerTypes'
    BY <1>1, <1>3, <1>5, <2>3 DEF ManagerTypes
  <2>5. CASE Waiting = {}
    <3>1. Waiting' = {} /\ ~Writing'
      BY <1>10, <2>1, <2>5 DEF Worker!ProcessKey, Worker!IdleFiber, Waiting, Writing
    <3>2. file' = saves[values]
      BY <1>1, <1>10, <2>1, <2>2, <2>5 DEF NewestIsLast
    <3>3. NewestIsLast' /\ FileFollows'
      BY <1>1, <1>3, <1>5, <2>1, <2>5, <3>1, <3>2 DEF NewestIsLast, FileFollows, Except
    <3> QED BY <1>2, <1>4, <2>4, <3>3 DEF ManagerInv
  <2>6. CASE Waiting # {}
    <3>1. NewestIsLast' /\ Waiting' = {} /\ Writing'
      BY <1>8, <1>10, <2>1, <2>6 DEF Worker!ProcessKey, Waiting
    <3>2. FileFollows'
      BY <1>1, <1>3, <1>5, <2>6, <3>1 DEF FileFollows, Except
    <3> QED BY <1>2, <1>4, <2>4, <3>1, <3>2 DEF ManagerInv
  <2> QED BY <2>5, <2>6
<1> QED BY <1>7, <1>9, <1>10 DEF WriterStep

(* A step that saves nothing and leaves memory alone leaves the file alone.  *)
LEMMA QuietEffect ==
  ASSUME ManagerInv, NothingSaved, file' = file, mishaps \subseteq mishaps',
         Except({"evicted", "unflushed"})' =>
             /\ Memory' = Memory
             /\ op'.pc = "deleting" => op.pc = "deleting" \/ Flushed
  PROVE  Keyed!KeyedInv' /\ NewestIsLast' /\ FileFollows'
<1>1. UNCHANGED <<saves, worker>>
  BY DEF NothingSaved
<1>2. Keyed!KeyedInv'
  BY <1>1, BoundIsNat, Keyed!InvStable DEF ManagerInv, worker, Keyed!vars
<1>3. Waiting' = Waiting /\ (Writing' <=> Writing) /\ fiber' = fiber /\ values' = values
  BY <1>1 DEF worker, Waiting, Writing
<1>4. NewestIsLast'
  BY <1>3 DEF ManagerInv, NewestIsLast
<1>5. Flushed => Waiting = {} /\ ~Writing
  BY FlushedIsIdle DEF ManagerInv
<1>6. Except({"evicted", "unflushed"})' => Except({"evicted", "unflushed"})
  BY DEF Except
<1>7. FileFollows'
  BY <1>1, <1>3, <1>5, <1>6 DEF ManagerInv, FileFollows
<1> QED BY <1>2, <1>4, <1>7

(* A step that saves what it leaves in memory has the file follow.           *)
LEMMA SavedEffect ==
  ASSUME ManagerInv, NEW h \in Histories, Save(h), mishaps \subseteq mishaps',
         Except({"evicted", "unflushed"})' => Memory' = h /\ op'.pc # "deleting"
  PROVE  /\ Keyed!KeyedInv' /\ NewestIsLast' /\ FileFollows'
         /\ saves' \in Seq(Histories) /\ Len(saves') = values'
<1>1. Keyed!KeyedInv'
  BY BoundIsNat, SavesAreEnqueues, Keyed!InvStable DEF ManagerInv, Save
<1>2. /\ saves' \in Seq(Histories) /\ Len(saves') = values'
      /\ saves'[values'] = h /\ Waiting' # {} /\ NewestIsLast'
  BY SaveEffect DEF ManagerInv
<1>3. FileFollows'
  BY <1>2 DEF FileFollows
<1> QED BY <1>1, <1>2, <1>3

-----------------------------------------------------------------------------
(* Steps that only begin, continue or end a call.                           *)
LEMMA CallEffect ==
  ASSUME ManagerInv, UNCHANGED <<sessions, current, kept, file>>, NothingSaved,
         mishaps \subseteq mishaps',
         used' \in [calls : Nat, outputs : 0 .. MaxOutputs, interrupts : Nat],
         op' \in Calls,
         \/ op' = op
         \/ /\ op'.pc \in {"persist", "spawn", "clearing"} => op'.id = current /\ current # 0
            /\ op'.pc \in {"flush", "closing", "deleting"} => current = 0
            /\ op'.pc = "deleting" /\ ~Flushed => "unflushed" \in mishaps'
  PROVE  ManagerInv'
<1>1. ManagerTypes /\ CallHoldsSession
  BY DEF ManagerInv
<1>2. ManagerTypes'
  BY <1>1 DEF ManagerTypes, NothingSaved, worker
<1>3. CallHoldsSession'
  <2>1. Except({"evicted"})' => Except({"evicted"})
    BY DEF Except
  <2> QED BY <1>1, <2>1 DEF CallHoldsSession
<1>4. Except({"evicted", "unflushed"})' =>
             /\ Memory' = Memory
             /\ op'.pc = "deleting" => op.pc = "deleting" \/ Flushed
  BY DEF Memory, Except
<1>5. Keyed!KeyedInv' /\ NewestIsLast' /\ FileFollows'
  BY <1>4, QuietEffect
<1> QED BY <1>2, <1>3, <1>5 DEF ManagerInv

LEMMA NotedStays == ASSUME NEW kind, NEW happens \in BOOLEAN, Note(kind, happens)
                    PROVE  mishaps \subseteq mishaps' /\ (happens => kind \in mishaps')
BY DEF Note

LEMMA AttachedNotes == ASSUME NEW snapshot, Attached(snapshot) PROVE mishaps \subseteq mishaps'
BY DEF Attached, Note

LEMMA BeginsUses ==
  ASSUME ManagerTypes, NEW kind, Begins(kind)
  PROVE  op = Free /\ used' \in [calls : Nat, outputs : 0 .. MaxOutputs, interrupts : Nat]
BY DEF Begins, ManagerTypes

LEMMA CallSteps ==
  ASSUME ManagerInv,
         \/ AttachSubscribes \/ AttachJoins \/ AttachFails \/ ClientLeaves
         \/ (\E kind \in {"open", "attach"} : OpenAbsent(kind) \/ OpenResumes(kind))
         \/ (\E kind \in {"delete", "forget"} : CloseAbsent(kind))
         \/ Cleared \/ CallInterrupted
  PROVE  ManagerInv'
<1>1. ManagerTypes /\ Free \in Calls
  BY DEF ManagerInv, ManagerTypes, Calls, Free
<1>2. CASE AttachSubscribes \/ ClientLeaves
  <2>1. /\ used' \in [calls : Nat, outputs : 0 .. MaxOutputs, interrupts : Nat]
        /\ op' = op /\ mishaps' = mishaps /\ UNCHANGED <<sessions, current, kept, file>>
        /\ NothingSaved
    BY <1>1, <1>2 DEF AttachSubscribes, ClientLeaves, ManagerTypes
  <2> QED BY <1>1, <2>1, CallEffect DEF ManagerTypes
<1>3. CASE AttachJoins
  BY <1>1, <1>3, BeginsUses, AttachedNotes, CallEffect DEF AttachJoins, ManagerTypes
<1>4. CASE AttachFails
  BY <1>1, <1>4, BeginsUses, CallEffect DEF AttachFails, ManagerTypes
<1>5. ASSUME NEW kind \in {"open", "attach"}, OpenAbsent(kind)
      PROVE  ManagerInv'
  <2>1. op' \in Calls /\ op'.pc = "flush" /\ current = 0
    BY <1>5 DEF OpenAbsent, Holds, Calls
  <2> QED BY <1>1, <1>5, <2>1, BeginsUses, CallEffect DEF OpenAbsent
<1>6. ASSUME NEW kind \in {"open", "attach"}, OpenResumes(kind)
      PROVE  ManagerInv'
  <2>1. op' \in Calls /\ op'.pc = "spawn" /\ op'.id = current /\ current # 0
    BY <1>1, <1>6 DEF OpenResumes, Holds, Calls, ManagerTypes
  <2> QED BY <1>1, <1>6, <2>1, BeginsUses, CallEffect DEF OpenResumes
<1>7. ASSUME NEW kind \in {"delete", "forget"}, CloseAbsent(kind)
      PROVE  ManagerInv'
  <2>1. op' \in Calls /\ op'.pc \in {"deleting", "closing"} /\ current = 0
        /\ (op'.pc = "deleting" => kind = "forget")
    BY <1>7 DEF CloseAbsent, Holds, Calls
  <2>2. mishaps \subseteq mishaps' /\ (kind = "forget" /\ ~Flushed => "unflushed" \in mishaps')
    BY <1>7 DEF CloseAbsent, Note
  <2> QED BY <1>1, <1>7, <2>1, <2>2, BeginsUses, CallEffect DEF CloseAbsent
<1>8. CASE Cleared
  BY <1>1, <1>8, CallEffect DEF Cleared, Note, Free, ManagerTypes
<1>9. CASE CallInterrupted
  <2>1. /\ used' \in [calls : Nat, outputs : 0 .. MaxOutputs, interrupts : Nat]
        /\ op' = Free /\ mishaps \subseteq mishaps'
    BY <1>1, <1>9 DEF CallInterrupted, Note, ManagerTypes
  <2> QED BY <1>1, <1>9, <2>1, CallEffect DEF CallInterrupted, Free
<1> QED BY <1>2, <1>3, <1>4, <1>5, <1>6, <1>7, <1>8, <1>9

-----------------------------------------------------------------------------
(* Steps that change a session and save nothing.                            *)
LEMMA OpenReadsStep == ASSUME ManagerInv, OpenReads PROVE ManagerInv'
<1>1. ManagerTypes /\ CallHoldsSession /\ FileFollows
  BY DEF ManagerInv
<1>2. PICK id \in Sessions :
          /\ sessions[id].status = "none"
          /\ sessions' = [sessions EXCEPT ![id] =
                              [status |-> "starting", history |-> file, seq |-> 0]]
          /\ current' = id
  BY DEF OpenReads, Created
<1>3. [status |-> "starting", history |-> file, seq |-> 0] \in SessionSet
  BY <1>1 DEF ManagerTypes, SessionSet, Statuses
<1>4. op'.pc = "spawn" /\ op'.id = id /\ op' \in Calls
  BY <1>1, <1>2 DEF OpenReads, ManagerTypes, Calls
<1>5. ManagerTypes'
  BY <1>1, <1>2, <1>3, <1>4 DEF ManagerTypes, OpenReads, NothingSaved, worker
<1>6. CallHoldsSession'
  <2>1. Except({"evicted"})' => Except({"evicted"})
    BY DEF Except, OpenReads
  <2>2. \A i \in Sessions : sessions'[i].status = "running" => sessions[i].status = "running"
    BY <1>1, <1>2 DEF ManagerTypes
  <2>3. ~(Sessions \subseteq {}) /\ 0 \notin Sessions
    BY <1>2 DEF Sessions
  <2>4. ASSUME Except({"evicted"}), NEW i \in Sessions PROVE sessions[i].status # "running"
    BY <1>1, <2>3, <2>4 DEF CallHoldsSession, OpenReads
  <2> QED BY <1>2, <1>4, <2>1, <2>2, <2>4 DEF CallHoldsSession
<1>7. Except({"evicted", "unflushed"})' =>
             /\ Memory' = Memory
             /\ op'.pc = "deleting" => op.pc = "deleting" \/ Flushed
  <2>1. ASSUME Except({"evicted", "unflushed"})' PROVE Memory' = Memory
    <3>1. Except({"evicted", "unflushed"}) /\ Except({"evicted"})
      BY <2>1 DEF Except, OpenReads
    <3>2. current = 0 /\ file = Memory
      BY <1>1, <3>1, FlushedIsIdle DEF CallHoldsSession, FileFollows, OpenReads, ManagerInv
    <3>3. Memory' = file
      BY <1>1, <1>2 DEF Memory, ManagerTypes, Sessions
    <3> QED BY <3>2, <3>3
  <2> QED BY <1>4, <2>1
<1>8. Keyed!KeyedInv' /\ NewestIsLast' /\ FileFollows'
  BY <1>7, QuietEffect DEF OpenReads
<1> QED BY <1>5, <1>6, <1>8 DEF ManagerInv

(* A session that keeps its history, in a step that saves nothing.           *)
LEMMA KeptEffect ==
  ASSUME ManagerInv, NEW i \in Sessions, NEW session \in SessionSet,
         session.history = sessions[i].history,
         sessions' = [sessions EXCEPT ![i] = session],
         UNCHANGED <<current, kept, used, file>>, NothingSaved, mishaps \subseteq mishaps',
         op' \in Calls, op'.pc \in {"persist", "spawn", "clearing"} => op'.id \in Sessions,
         CallHoldsSession', op'.pc = "deleting" => op.pc = "deleting"
  PROVE  ManagerInv'
<1>1. ManagerTypes
  BY DEF ManagerInv
<1>2. ManagerTypes'
  BY <1>1 DEF ManagerTypes, NothingSaved, worker
<1>3. Memory' = Memory
  BY <1>1 DEF Memory, ManagerTypes
<1>4. Keyed!KeyedInv' /\ NewestIsLast' /\ FileFollows'
  BY <1>3, QuietEffect
<1> QED BY <1>2, <1>4 DEF ManagerInv

LEMMA Advanced ==
  ASSUME NEW session \in SessionSet, NEW status \in Statuses
  PROVE  LET next == [session EXCEPT !.status = status, !.seq = @ + 1] IN
         next \in SessionSet /\ next.history = session.history /\ next.status = status
<1>1. session.seq + 1 \in Nat /\ status \in Statuses \cup {"none"}
  BY DEF SessionSet
<1> QED BY <1>1 DEF SessionSet

LEMMA PersistedStep == ASSUME ManagerInv, Persisted PROVE ManagerInv'
<1> DEFINE session == [sessions[op.id] EXCEPT !.status = "starting"]
<1>1. ManagerTypes /\ CallHoldsSession /\ op.id \in Sessions
  BY DEF ManagerInv, ManagerTypes, Persisted
<1>2. /\ session \in SessionSet /\ session.history = sessions[op.id].history
      /\ session.status = "starting"
  BY <1>1 DEF ManagerTypes, SessionSet, Statuses
<1>3. sessions' = [sessions EXCEPT ![op.id] = session]
  BY <1>1 DEF Persisted
<1>4. op' \in Calls /\ op'.pc = "spawn" /\ op'.id = op.id
  BY <1>1 DEF Persisted, Goes, ManagerTypes, Calls
<1> HIDE DEF session
<1>5. CallHoldsSession'
  BY <1>1, <1>2, <1>3, <1>4 DEF CallHoldsSession, Persisted, Except, ManagerTypes
<1> QED BY <1>1, <1>2, <1>3, <1>4, <1>5, KeptEffect DEF Persisted

LEMMA SpawnedStep ==
  ASSUME ManagerInv, NEW status \in {"running", "error"}, Spawned(status)
  PROVE  ManagerInv'
<1> DEFINE session == [sessions[op.id] EXCEPT !.status = status, !.seq = @ + 1]
<1>1. ManagerTypes /\ CallHoldsSession /\ op.id \in Sessions /\ op.pc = "spawn"
  BY DEF ManagerInv, ManagerTypes, Spawned
<1>2. session \in SessionSet /\ session.history = sessions[op.id].history
  <2>1. sessions[op.id] \in SessionSet /\ status \in Statuses
    BY <1>1 DEF ManagerTypes, Statuses
  <2> QED BY <2>1, Advanced
<1>3. /\ sessions' = [sessions EXCEPT ![op.id] = session]
      /\ UNCHANGED <<current, kept, used, file>> /\ NothingSaved /\ op' = Free
  BY DEF Spawned
<1>4. mishaps \subseteq mishaps'
  BY DEF Spawned, Attached, Note
<1> HIDE DEF session
<1>5. op' \in Calls /\ op'.pc = "free"
  BY <1>3 DEF Free, Calls
<1>6. CallHoldsSession'
  BY <1>1, <1>3, <1>4, <1>5 DEF CallHoldsSession, Except, ManagerTypes
<1> QED BY <1>1, <1>2, <1>3, <1>4, <1>5, <1>6, KeptEffect

LEMMA ExitStep == ASSUME ManagerInv, NEW i \in Sessions, ProcessExit(i) PROVE ManagerInv'
<1> DEFINE session == [sessions[i] EXCEPT !.status = "exited", !.seq = @ + 1]
<1>1. ManagerTypes /\ CallHoldsSession
  BY DEF ManagerInv
<1>2. /\ session \in SessionSet /\ session.history = sessions[i].history
      /\ session.status = "exited"
  <2>1. sessions[i] \in SessionSet /\ "exited" \in Statuses
    BY <1>1 DEF ManagerTypes, Statuses
  <2> QED BY <2>1, Advanced
<1>3. /\ sessions' = [sessions EXCEPT ![i] = session]
      /\ UNCHANGED <<current, op, kept, used, file, mishaps>> /\ NothingSaved
  BY <1>1 DEF ProcessExit, ManagerTypes
<1> HIDE DEF session
<1>4. CallHoldsSession'
  BY <1>1, <1>2, <1>3 DEF CallHoldsSession, Except, ManagerTypes
<1> QED BY <1>1, <1>2, <1>3, <1>4, KeptEffect DEF ManagerTypes

LEMMA EvictStep == ASSUME ManagerInv, Evict PROVE ManagerInv'
<1>1. ManagerTypes /\ CallHoldsSession /\ current \in Sessions
  BY DEF ManagerInv, ManagerTypes, Evict
<1>2. mishaps \subseteq mishaps' /\ (op # Free => "evicted" \in mishaps')
  BY DEF Evict, Note
<1>3. ManagerTypes'
  BY <1>1 DEF Evict, ManagerTypes, SessionSet, NothingSaved, worker
<1>4. CallHoldsSession'
  <2>1. ASSUME Except({"evicted"})' PROVE op.pc = "free" /\ Except({"evicted"})
    BY <1>2, <2>1 DEF Except, Free
  <2>2. sessions[current].status # "running" /\ sessions' = sessions /\ op' = op /\ current' = 0
    BY DEF Evict
  <2> QED BY <1>1, <2>1, <2>2 DEF CallHoldsSession
<1>5. Memory' = Memory
  BY <1>1 DEF Memory, Evict, Sessions
<1>6. Keyed!KeyedInv' /\ NewestIsLast' /\ FileFollows'
  BY <1>2, <1>5, QuietEffect DEF Evict
<1> QED BY <1>3, <1>4, <1>6 DEF ManagerInv

LEMMA ClosedStep == ASSUME ManagerInv, Closed PROVE ManagerInv'
<1>1. ManagerTypes /\ CallHoldsSession
  BY DEF ManagerInv
<1>2. op' \in Calls /\ op'.pc \in {"free", "deleting"}
  BY <1>1 DEF Closed, ManagerTypes, Calls, Free
<1>3. kept' \in Histories /\ Memory' = Memory /\ current' = 0
  BY <1>1 DEF Closed, ManagerTypes, SessionSet, Memory
<1>4. ManagerTypes'
  BY <1>1, <1>2, <1>3 DEF Closed, ManagerTypes, NothingSaved, worker
<1>5. CallHoldsSession'
  <2>1. sessions' = sessions /\ mishaps' = mishaps /\ op.pc = "closing"
    BY DEF Closed
  <2>2. ASSUME Except({"evicted"}), NEW i \in Sessions PROVE sessions[i].status # "running"
    BY <1>1, <2>1, <2>2 DEF CallHoldsSession, Sessions
  <2> QED BY <1>2, <1>3, <2>1, <2>2 DEF CallHoldsSession, Except
<1>6. Keyed!KeyedInv' /\ NewestIsLast' /\ FileFollows'
  BY <1>3, QuietEffect DEF Closed
<1> QED BY <1>4, <1>5, <1>6 DEF ManagerInv

LEMMA DeletedStep == ASSUME ManagerInv, Deleted PROVE ManagerInv'
<1>1. ManagerTypes /\ CallHoldsSession /\ FileFollows
  BY DEF ManagerInv
<1>2. op' = Free /\ file' = <<>> /\ kept' = <<>>
      /\ UNCHANGED <<sessions, current, used, mishaps, saves, worker>>
  BY DEF Deleted, NothingSaved
<1>3. op' \in Calls /\ op'.pc = "free"
  BY <1>2 DEF Free, Calls
<1>4. ManagerTypes'
  BY <1>1, <1>2, <1>3, EmptyHistory DEF ManagerTypes, worker
<1>5. CallHoldsSession'
  BY <1>1, <1>2, <1>3 DEF CallHoldsSession, Except
<1>6. Keyed!KeyedInv' /\ NewestIsLast'
  BY <1>2, BoundIsNat, Keyed!InvStable
     DEF ManagerInv, NewestIsLast, Waiting, Writing, worker, Keyed!vars
<1>7. FileFollows'
  <2>1. ASSUME Except({"evicted", "unflushed"})
        PROVE  current = 0 /\ Waiting = {} /\ ~Writing
    BY <1>1, <2>1 DEF CallHoldsSession, FileFollows, Deleted, Except
  <2>2. Waiting' = Waiting /\ (Writing' <=> Writing)
    BY <1>2 DEF Waiting, Writing, worker
  <2> QED BY <1>2, <1>3, <2>1, <2>2 DEF FileFollows, Memory, Except
<1> QED BY <1>4, <1>5, <1>6, <1>7 DEF ManagerInv

-----------------------------------------------------------------------------
(* Steps that save.                                                         *)
LEMMA SavingEffect ==
  ASSUME ManagerInv, NEW h \in Histories, Save(h), mishaps' = mishaps,
         UNCHANGED <<kept, file>>,
         used' \in [calls : Nat, outputs : 0 .. MaxOutputs, interrupts : Nat],
         NEW i \in Sessions, NEW session \in SessionSet, session.history = h,
         sessions' = [sessions EXCEPT ![i] = session],
         current' \in Sessions \cup {0},
         Except({"evicted"}) => current' = i,
         op' \in Calls, op'.pc \in {"persist", "spawn", "clearing"} => op'.id \in Sessions,
         CallHoldsSession', Except({"evicted"}) => op'.pc # "deleting"
  PROVE  ManagerInv'
<1>1. ManagerTypes
  BY DEF ManagerInv
<1>2. Except({"evicted", "unflushed"})' => Memory' = h /\ op'.pc # "deleting"
  BY <1>1 DEF Except, Memory, ManagerTypes, Sessions
<1>3. /\ Keyed!KeyedInv' /\ NewestIsLast' /\ FileFollows'
      /\ saves' \in Seq(Histories) /\ Len(saves') = values'
  BY <1>2, SavedEffect
<1>4. ManagerTypes'
  BY <1>1, <1>3 DEF ManagerTypes
<1> QED BY <1>3, <1>4 DEF ManagerInv

LEMMA StoppedSession ==
  ASSUME NEW session \in SessionSet
  PROVE  /\ Stopped(session) \in SessionSet /\ Stopped(session).history = session.history
         /\ Stopped(session).status # "running"
         /\ [Stopped(session) EXCEPT !.history = <<>>] \in SessionSet
         /\ [Stopped(session) EXCEPT !.history = <<>>].history = <<>>
         /\ [Stopped(session) EXCEPT !.history = <<>>].status # "running"
<1> DEFINE status == IF session.status = "running" THEN "exited" ELSE session.status
<1>1. status \in Statuses \cup {"none"} /\ status # "running"
  BY DEF SessionSet, Statuses
<1>2. Stopped(session) = [session EXCEPT !.status = status]
  BY DEF Stopped
<1> HIDE DEF status
<1>3. Stopped(session) \in SessionSet /\ Stopped(session).history = session.history
      /\ Stopped(session).status = status
  BY <1>1, <1>2 DEF SessionSet
<1> QED BY <1>1, <1>3, EmptyHistory DEF SessionSet

LEMMA StartsAnewStep ==
  ASSUME ManagerInv, NEW kind \in {"open", "attach", "restart"}, Begins(kind), current # 0,
         StartsAnew(kind)
  PROVE  ManagerInv'
<1> DEFINE session == [Stopped(sessions[current]) EXCEPT !.history = <<>>]
<1>1. ManagerTypes /\ CallHoldsSession /\ current \in Sessions
  BY DEF ManagerInv, ManagerTypes
<1>2. sessions[current] \in SessionSet
  BY <1>1 DEF ManagerTypes
<1>3. session \in SessionSet /\ session.history = <<>> /\ session.status # "running"
  BY <1>2, StoppedSession
<1>4. /\ sessions' = [sessions EXCEPT ![current] = session] /\ Save(<<>>)
      /\ current' = current /\ mishaps' = mishaps /\ UNCHANGED <<kept, file>>
  BY <1>1 DEF StartsAnew, ManagerTypes
<1>5. op' \in Calls /\ op'.pc = "persist" /\ op'.id = current
  BY <1>1 DEF StartsAnew, Holds, Calls, ManagerTypes
<1> HIDE DEF session
<1>6. CallHoldsSession'
  BY <1>1, <1>3, <1>4, <1>5 DEF CallHoldsSession, Except, ManagerTypes
<1>7. used' \in [calls : Nat, outputs : 0 .. MaxOutputs, interrupts : Nat]
  BY <1>1, BeginsUses
<1> QED BY <1>1, <1>3, <1>4, <1>5, <1>6, <1>7, EmptyHistory, SavingEffect

LEMMA RestartStep == ASSUME ManagerInv, Restart PROVE ManagerInv'
<1>1. CASE current # 0 /\ StartsAnew("restart")
  BY <1>1, StartsAnewStep DEF Restart
<1>2. CASE /\ current = 0 /\ Created(<<>>) /\ Save(<<>>) /\ Holds("persist", "restart", current')
           /\ UNCHANGED <<client, file, kept, mishaps>>
  <2> DEFINE session == [status |-> "starting", history |-> <<>>, seq |-> 0]
  <2>1. ManagerTypes /\ CallHoldsSession /\ op = Free
    BY BeginsUses DEF ManagerInv, Restart
  <2>2. PICK id \in Sessions :
            sessions' = [sessions EXCEPT ![id] = session] /\ current' = id
    BY <1>2 DEF Created
  <2>3. session \in SessionSet /\ session.history = <<>> /\ session.status # "running"
    BY EmptyHistory DEF SessionSet, Statuses
  <2>4. op' \in Calls /\ op'.pc = "persist" /\ op'.id = id
    BY <1>2, <2>2 DEF Holds, Calls
  <2> HIDE DEF session
  <2>5. CallHoldsSession'
    <3>1. ASSUME Except({"evicted"}), NEW i \in Sessions PROVE sessions'[i].status # "running"
      BY <1>2, <2>1, <2>2, <2>3, <3>1 DEF CallHoldsSession, ManagerTypes, Sessions
    <3> QED BY <1>2, <2>2, <2>4, <3>1 DEF CallHoldsSession, Except
  <2>6. used' \in [calls : Nat, outputs : 0 .. MaxOutputs, interrupts : Nat]
    BY <2>1, BeginsUses DEF Restart
  <2> QED BY <1>2, <2>2, <2>3, <2>4, <2>5, <2>6, EmptyHistory, SavingEffect
<1> QED BY <1>1, <1>2 DEF Restart

LEMMA ClearStep == ASSUME ManagerInv, Clear PROVE ManagerInv'
<1> DEFINE session == [sessions[current] EXCEPT !.history = <<>>, !.seq = @ + 1]
<1>1. ManagerTypes /\ CallHoldsSession /\ current \in Sessions
  BY DEF ManagerInv, ManagerTypes, Clear
<1>2. sessions[current] \in SessionSet
  BY <1>1 DEF ManagerTypes
<1>3. /\ session \in SessionSet /\ session.history = <<>>
      /\ session.status = sessions[current].status
  <2>1. sessions[current].seq + 1 \in Nat
    BY <1>2 DEF SessionSet
  <2> QED BY <1>2, <2>1, EmptyHistory DEF SessionSet
<1>4. /\ sessions' = [sessions EXCEPT ![current] = session] /\ Save(<<>>)
      /\ current' = current /\ mishaps' = mishaps /\ UNCHANGED <<kept, file>>
  BY <1>1, <1>2 DEF Clear, ManagerTypes, SessionSet
<1>5. op' \in Calls /\ op'.pc = "clearing" /\ op'.id = current
  BY <1>1, <1>2 DEF Clear, Calls, ManagerTypes, SessionSet
<1> HIDE DEF session
<1>6. CallHoldsSession'
  BY <1>1, <1>3, <1>4, <1>5 DEF CallHoldsSession, Except, ManagerTypes
<1>7. used' \in [calls : Nat, outputs : 0 .. MaxOutputs, interrupts : Nat]
  BY <1>1, BeginsUses DEF Clear
<1> QED BY <1>1, <1>3, <1>4, <1>5, <1>6, <1>7, EmptyHistory, SavingEffect

LEMMA CloseStep ==
  ASSUME ManagerInv, NEW kind \in {"close", "delete", "forget"}, Close(kind)
  PROVE  ManagerInv'
<1> DEFINE session == Stopped(sessions[current])
<1>1. ManagerTypes /\ CallHoldsSession /\ current \in Sessions
  BY DEF ManagerInv, ManagerTypes, Close
<1>2. sessions[current] \in SessionSet
  BY <1>1 DEF ManagerTypes
<1>3. /\ session \in SessionSet /\ session.history = sessions[current].history
      /\ session.status # "running" /\ sessions[current].history \in Histories
  BY <1>2, StoppedSession DEF SessionSet
<1>4. /\ sessions' = [sessions EXCEPT ![current] = session]
      /\ Save(sessions[current].history)
      /\ current' = current /\ mishaps' = mishaps /\ UNCHANGED <<kept, file>>
  BY <1>1 DEF Close, ManagerTypes
<1>5. op' \in Calls /\ op'.pc = "closing"
  BY <1>1, <1>2 DEF Close, Calls, ManagerTypes, SessionSet
<1> HIDE DEF session
<1>6. CallHoldsSession'
  BY <1>1, <1>3, <1>4, <1>5 DEF CallHoldsSession, Except, ManagerTypes
<1>7. used' \in [calls : Nat, outputs : 0 .. MaxOutputs, interrupts : Nat]
  BY <1>1, BeginsUses DEF Close
<1> QED BY <1>1, <1>3, <1>4, <1>5, <1>6, <1>7, SavingEffect

LEMMA OutputStep == ASSUME ManagerInv, NEW i \in Sessions, ProcessOutput(i) PROVE ManagerInv'
<1> DEFINE chunk == used.outputs + 1
           history == Append(sessions[i].history, chunk)
           session == [sessions[i] EXCEPT !.history = Append(@, chunk), !.seq = @ + 1]
<1>1. ManagerTypes /\ CallHoldsSession /\ sessions[i] \in SessionSet
  BY DEF ManagerInv, ManagerTypes
<1>2. chunk \in 1 .. MaxOutputs
  BY <1>1, TerminalAssumption DEF ManagerTypes, ProcessOutput
<1>3. sessions[i].history \in Seq(1 .. MaxOutputs) /\ sessions[i].seq + 1 \in Nat
  BY <1>1 DEF SessionSet, Histories
<1>4. /\ sessions' = [sessions EXCEPT ![i] = session] /\ Save(session.history)
      /\ UNCHANGED <<current, op, file, kept, mishaps>>
      /\ used' = [used EXCEPT !.outputs = chunk]
  BY DEF ProcessOutput
<1> HIDE DEF chunk
<1>5. history \in Histories
  BY <1>2, <1>3, AppendProperties DEF Histories
<1>6. /\ session.history = history /\ session.status = sessions[i].status
      /\ session \in SessionSet
  BY <1>1, <1>3, <1>5 DEF SessionSet
<1>7. used' \in [calls : Nat, outputs : 0 .. MaxOutputs, interrupts : Nat]
  BY <1>1, <1>2, <1>4 DEF ManagerTypes
<1> HIDE DEF session, history
<1>8. Except({"evicted"}) => current = i /\ op.pc # "deleting"
  BY <1>1 DEF ProcessOutput, CallHoldsSession, Sessions
<1>9. CallHoldsSession'
  BY <1>1, <1>4, <1>6 DEF CallHoldsSession, Except, ManagerTypes
<1>10. /\ op' \in Calls /\ op' = op /\ current' = current
       /\ op'.pc \in {"persist", "spawn", "clearing"} => op'.id \in Sessions
       /\ current' \in Sessions \cup {0}
  BY <1>1, <1>4 DEF ManagerTypes
<1> QED BY <1>4, <1>5, <1>6, <1>7, <1>8, <1>9, <1>10, SavingEffect

-----------------------------------------------------------------------------
LEMMA ManagerInit == Init => ManagerInv
<1> SUFFICES ASSUME Init PROVE ManagerInv
  OBVIOUS
<1>1. Keyed!Init
  BY DEF Init, Worker!Init, Keyed!Init, Worker!IdleFiber, Keyed!IdleFiber
<1>2. Keyed!KeyedInv
  BY <1>1, BoundIsNat, Keyed!InitInv
<1>3. saves \in Seq(Histories) /\ Len(saves) = 0
  BY EmptySeq DEF Init
<1>4. ManagerTypes
  BY <1>1, <1>3, EmptyHistory, TerminalAssumption
     DEF Init, Keyed!Init, ManagerTypes, SessionSet, Calls, NoSession, Free
<1>5. Waiting = {} /\ ~Writing
  BY <1>1 DEF Keyed!Init, Keyed!IdleFiber, Waiting, Writing
<1>6. CallHoldsSession /\ NewestIsLast /\ FileFollows
  BY <1>5 DEF Init, CallHoldsSession, NewestIsLast, FileFollows, Memory, NoSession, Free
<1> QED BY <1>2, <1>4, <1>6 DEF ManagerInv

LEMMA ManagerStep == ManagerInv /\ [Next]_vars => ManagerInv'
<1> SUFFICES ASSUME ManagerInv, [Next]_vars PROVE ManagerInv'
  OBVIOUS
<1>1. CASE UNCHANGED vars
  <2>1. UNCHANGED <<sessions, current, op, used, kept, mishaps, file, saves, worker>>
    BY <1>1 DEF vars, terminal
  <2>2. Keyed!KeyedInv'
    BY <2>1, BoundIsNat, Keyed!InvStable DEF ManagerInv, worker, Keyed!vars
  <2> QED BY <2>1, <2>2 DEF worker, ManagerInv, ManagerTypes, CallHoldsSession, NewestIsLast,
                            FileFollows, Waiting, Writing, Memory, Except
<1>2. CASE Attach
  BY <1>2, CallSteps, StartsAnewStep DEF Attach, OpenReplaces
<1>3. CASE Continues
  BY <1>3, CallSteps, OpenReadsStep, PersistedStep, SpawnedStep, ClosedStep, DeletedStep
     DEF Continues
<1>4. CASE Clients
  BY <1>4, CallSteps, StartsAnewStep, RestartStep, ClearStep, CloseStep DEF Clients, OpenReplaces
<1>5. CASE WriterStep
  BY <1>5, WriterEffect
<1>6. CASE CallInterrupted \/ (\E i \in Sessions : ProcessOutput(i) \/ ProcessExit(i)) \/ Evict
  BY <1>6, CallSteps, OutputStep, ExitStep, EvictStep
<1> QED BY <1>1, <1>2, <1>3, <1>4, <1>5, <1>6 DEF Next

LEMMA ManagerInvariant == Spec => []ManagerInv
BY ManagerInit, ManagerStep, PTL DEF Spec

(* Each process belongs to the session in the map, unless a session was      *)
(* evicted while a call worked on it.                                        *)
THEOREM ProcessesReachable == Spec => []ProcessIsReachable
<1>1. ManagerInv => ProcessIsReachable
  BY DEF ManagerInv, CallHoldsSession, ProcessIsReachable
<1> QED BY <1>1, ManagerInvariant, PTL

(* When nothing waits to be written the file holds the history, whichever    *)
(* calls, outputs, ends, interruptions and merges came before.               *)
THEOREM HistorySaved == Spec => []HistoryIsSaved
<1>1. ManagerInv => HistoryIsSaved
  <2> SUFFICES ASSUME ManagerInv, Flushed, Except({"evicted", "unflushed"}) PROVE file = Memory
    BY DEF HistoryIsSaved, Memory
  <2> QED BY FlushedIsIdle DEF ManagerInv, FileFollows
<1> QED BY <1>1, ManagerInvariant, PTL

-----------------------------------------------------------------------------
(* Induction over the natural numbers, for a set instead of a predicate.   *)
LEMMA NatSetInduction ==
  ASSUME NEW S, 0 \in S, \A n \in Nat : n \in S => n + 1 \in S
  PROVE  Nat \subseteq S
<1> SUFFICES ASSUME Nat \ S # {} PROVE FALSE
  OBVIOUS
<1> DEFINE T == Nat \ S
           R == OpToRel(<, Nat)
<1>1. T \subseteq Nat /\ T # {}
  OBVIOUS
<1>2. \E x \in T : \A y \in T : ~(<<y, x>> \in R)
  <2>1. IsWellFoundedOn(R, Nat)
    BY NatLessThanWellFounded
  <2> HIDE DEF T, R
  <2> QED BY <1>1, <2>1, WFMin
<1>3. PICK x \in T : \A y \in T : ~(<<y, x>> \in R)
  BY <1>2
<1>4. x \in Nat /\ x # 0 /\ x - 1 \in Nat
  OBVIOUS
<1>5. <<x - 1, x>> \in R
  BY <1>4 DEF OpToRel
<1>6. x - 1 \in S
  BY <1>3, <1>4, <1>5
<1>7. (x - 1) + 1 = x
  BY <1>4
<1> QED BY <1>3, <1>4, <1>6, <1>7


-----------------------------------------------------------------------------
(* The attached client: what it may be told, and what it makes of it.       *)
Told ==
    [type : {"snapshot"}, from : Sessions, seq : Nat, history : Histories, status : Statuses]
    \cup [type : {"output"}, from : Sessions, seq : Nat, chunk : 1 .. MaxOutputs]
    \cup [type : {"cleared", "closed", "exited", "error"}, from : Sessions, seq : Nat]

Views == [pc : {"none", "opening", "live"}, buffer : Seq(Told), text : Histories,
          status : Statuses \cup {"closed"}]

LEMMA AppliedView ==
  ASSUME NEW view \in Views, NEW event \in Told
  PROVE  /\ Applied(view, event) \in Views
         /\ Applied(view, event).pc = view.pc /\ Applied(view, event).buffer = view.buffer
<1>1. CASE event.type = "snapshot"
  <2>1. event.history \in Histories /\ event.status \in Statuses
    BY <1>1 DEF Told
  <2>2. Applied(view, event) = [view EXCEPT !.text = event.history, !.status = event.status]
    BY <1>1 DEF Applied
  <2> QED BY <2>1, <2>2 DEF Views
<1>2. CASE event.type = "output"
  <2>1. event.chunk \in 1 .. MaxOutputs
    BY <1>2 DEF Told
  <2>2. PICK status : status = IF view.status = "closed" THEN "running" ELSE view.status
    OBVIOUS
  <2>3. PICK text : text = Append(view.text, event.chunk)
    OBVIOUS
  <2>4. text \in Histories
    <3>1. view.text \in Seq(1 .. MaxOutputs)
      BY DEF Views, Histories
    <3> QED BY <2>1, <2>3, <3>1, AppendProperties DEF Histories
  <2>5. Applied(view, event) = [view EXCEPT !.text = text, !.status = status]
    BY <1>2, <2>2, <2>3 DEF Applied
  <2>6. status \in Statuses \cup {"closed"}
    BY <2>2 DEF Views, Statuses
  <2> QED BY <2>4, <2>5, <2>6 DEF Views
<1>3. CASE event.type = "cleared"
  BY <1>3, EmptyHistory DEF Applied, Views
<1>4. CASE event.type \in {"closed", "exited", "error"}
  BY <1>4 DEF Applied, Views, Statuses
<1> QED BY <1>1, <1>2, <1>3, <1>4 DEF Told

(* attachStream folds the snapshot and then what was buffered.               *)
LiveStep(snapshot, f, k) ==
    IF k = 0 THEN Applied(client, snapshot)
    ELSE IF IsFresh(client.buffer[k], snapshot) THEN Applied(f[k - 1], client.buffer[k])
    ELSE f[k - 1]
IsLiveFold(snapshot, f, n) == f = [k \in 0 .. n |-> LiveStep(snapshot, f, k)]

LEMMA LiveFoldExists ==
  ASSUME NEW snapshot, NEW n \in Nat
  PROVE  \E f : IsLiveFold(snapshot, f, n)
<1> DEFINE S == {k \in Nat : \E f : IsLiveFold(snapshot, f, k)}
<1>1. 0 \in S
  <2>1. IsLiveFold(snapshot, [i \in 0 .. 0 |-> Applied(client, snapshot)], 0)
    BY DEF IsLiveFold, LiveStep
  <2> QED BY <2>1
<1>2. ASSUME NEW k \in Nat, k \in S PROVE k + 1 \in S
  <2>1. PICK f : IsLiveFold(snapshot, f, k)
    BY <1>2
  <2> DEFINE g == [i \in 0 .. k + 1 |-> IF i = k + 1 THEN LiveStep(snapshot, f, i) ELSE f[i]]
  <2>2. \A i \in 0 .. k : i \in 0 .. k + 1 /\ i # k + 1 /\ g[i] = f[i]
    OBVIOUS
  <2>3. \A i \in 0 .. k : f[i] = LiveStep(snapshot, f, i)
    BY <2>1 DEF IsLiveFold
  <2>4. \A i \in 0 .. k + 1 : i # 0 => i - 1 \in 0 .. k
    OBVIOUS
  <2>5. ASSUME NEW i \in 0 .. k + 1 PROVE g[i] = LiveStep(snapshot, g, i)
    <3> HIDE DEF g
    <3>1. LiveStep(snapshot, g, i) = LiveStep(snapshot, f, i)
      BY <2>2, <2>4 DEF LiveStep
    <3>2. CASE i = k + 1
      BY <3>1, <3>2 DEF g
    <3>3. CASE i # k + 1
      <4>1. i \in 0 .. k
        BY <3>3
      <4> QED BY <2>2, <2>3, <3>1, <4>1
    <3> QED BY <3>2, <3>3
  <2>6. g = [i \in 0 .. k + 1 |-> g[i]]
    OBVIOUS
  <2> HIDE DEF g
  <2>7. IsLiveFold(snapshot, g, k + 1)
    BY <2>5, <2>6 DEF IsLiveFold
  <2> QED BY <2>7
<1>3. Nat \subseteq S
  <2> HIDE DEF S
  <2> QED BY <1>1, <1>2, NatSetInduction
<1> QED BY <1>3

LEMMA WentLiveIsFold ==
  ASSUME NEW snapshot, Len(client.buffer) \in Nat
  PROVE  \E f : /\ IsLiveFold(snapshot, f, Len(client.buffer))
                /\ WentLive(snapshot) = [f[Len(client.buffer)] EXCEPT !.pc = "live", !.buffer = <<>>]
<1> DEFINE f == CHOOSE f : f = [n \in 0 .. Len(client.buffer) |->
                     IF n = 0 THEN Applied(client, snapshot)
                     ELSE IF IsFresh(client.buffer[n], snapshot)
                          THEN Applied(f[n - 1], client.buffer[n]) ELSE f[n - 1]]
<1>1. WentLive(snapshot) = [f[Len(client.buffer)] EXCEPT !.pc = "live", !.buffer = <<>>]
  BY DEF WentLive
<1>2. PICK g : IsLiveFold(snapshot, g, Len(client.buffer))
  BY LiveFoldExists
<1>3. IsLiveFold(snapshot, f, Len(client.buffer))
  BY <1>2 DEF IsLiveFold, LiveStep
<1> QED BY <1>1, <1>3

(* What it makes of them is a view; and what the snapshot covers adds        *)
(* nothing to it.                                                            *)
LEMMA WentLiveView ==
  ASSUME client \in Views, NEW snapshot \in Told, snapshot.type = "snapshot"
  PROVE  /\ WentLive(snapshot) \in Views
         /\ WentLive(snapshot).pc = "live" /\ WentLive(snapshot).buffer = <<>>
         /\ (\A n \in 1 .. Len(client.buffer) : ~IsFresh(client.buffer[n], snapshot)) =>
                /\ WentLive(snapshot).text = snapshot.history
                /\ WentLive(snapshot).status = snapshot.status
<1>1. client.buffer \in Seq(Told)
  BY DEF Views
<1>2. Len(client.buffer) \in Nat
  BY <1>1, LenProperties
<1>3. PICK n \in Nat : n = Len(client.buffer)
  BY <1>2
<1>4. PICK f : /\ IsLiveFold(snapshot, f, n)
               /\ WentLive(snapshot) = [f[n] EXCEPT !.pc = "live", !.buffer = <<>>]
  BY <1>3, WentLiveIsFold
<1>5. \A k \in 0 .. n : f[k] = LiveStep(snapshot, f, k)
  BY <1>4 DEF IsLiveFold
<1>6. Applied(client, snapshot) \in Views
  BY AppliedView
<1>7. f[n] \in Views
  <2> DEFINE S == {k \in Nat : k <= n => f[k] \in Views}
  <2>1. 0 \in S
    BY <1>5, <1>6 DEF LiveStep
  <2>2. ASSUME NEW k \in Nat, k \in S PROVE k + 1 \in S
    <3> SUFFICES ASSUME k + 1 <= n PROVE f[k + 1] \in Views
      OBVIOUS
    <3>1. k + 1 \in 0 .. n /\ k + 1 # 0 /\ k + 1 \in 1 .. n /\ (k + 1) - 1 = k /\ k <= n
      OBVIOUS
    <3>2. f[k] \in Views
      BY <2>2, <3>1
    <3>3. client.buffer[k + 1] \in Told
      BY <1>1, <1>3, <3>1, ElementOfSeq
    <3>4. Applied(f[k], client.buffer[k + 1]) \in Views
      BY <3>2, <3>3, AppliedView
    <3>5. f[k + 1] = Applied(f[k], client.buffer[k + 1]) \/ f[k + 1] = f[k]
      BY <1>5, <3>1 DEF LiveStep
    <3> QED BY <3>2, <3>4, <3>5
  <2>3. Nat \subseteq S
    <3> HIDE DEF S
    <3> QED BY <2>1, <2>2, NatSetInduction
  <2> QED BY <2>3
<1>8. ASSUME \A k \in 1 .. n : ~IsFresh(client.buffer[k], snapshot)
      PROVE  f[n] = Applied(client, snapshot)
  <2> DEFINE S == {k \in Nat : k <= n => f[k] = Applied(client, snapshot)}
  <2>1. 0 \in S
    BY <1>5 DEF LiveStep
  <2>2. ASSUME NEW k \in Nat, k \in S PROVE k + 1 \in S
    <3> SUFFICES ASSUME k + 1 <= n PROVE f[k + 1] = Applied(client, snapshot)
      OBVIOUS
    <3>1. k + 1 \in 0 .. n /\ k + 1 # 0 /\ k + 1 \in 1 .. n /\ (k + 1) - 1 = k /\ k <= n
      OBVIOUS
    <3>2. f[k] = Applied(client, snapshot)
      BY <2>2, <3>1
    <3> QED BY <1>5, <1>8, <3>1, <3>2 DEF LiveStep
  <2>3. Nat \subseteq S
    <3> HIDE DEF S
    <3> QED BY <2>1, <2>2, NatSetInduction
  <2> QED BY <2>3
<1>9. <<>> \in Seq(Told)
  BY EmptySeq
<1>10. Applied(client, snapshot).text = snapshot.history /\ Applied(client, snapshot).status = snapshot.status
  BY DEF Applied, Views
<1>11. WentLive(snapshot) \in Views /\ WentLive(snapshot).pc = "live" /\ WentLive(snapshot).buffer = <<>>
       /\ WentLive(snapshot).text = f[n].text /\ WentLive(snapshot).status = f[n].status
  BY <1>4, <1>7, <1>9 DEF Views
<1> QED BY <1>3, <1>8, <1>10, <1>11

-----------------------------------------------------------------------------
(* What has been said of a session does not lie beyond it.                   *)
SessionsKnown ==
    /\ current # 0 => sessions[current].status # "none"
    /\ op.pc \in {"persist", "spawn", "clearing"} => sessions[op.id].status # "none"
    /\ op.pc = "clearing" => op.seq <= sessions[op.id].seq
    /\ op.pc = "closing" /\ current # 0 => op.id = current

IsCovered(event) ==
    /\ event.from \in Sessions /\ sessions[event.from].status # "none"
    /\ event.from = current => event.seq <= sessions[event.from].seq
BufferCovered == \A n \in 1 .. Len(client.buffer) : IsCovered(client.buffer[n])

(* What an attached client shows while a call is at its work: a call that    *)
(* will start a process will send a snapshot or an error, one that clears    *)
(* will say so.                                                              *)
Excused == {"reborn", "swallowed", "abandoned", "evicted"}
ViewFollows ==
    client.pc = "live" /\ Except(Excused) =>
        /\ current = 0 => client.status # "running"
        /\ current # 0 /\ op.pc \in {"free", "clearing"} =>
              client.status = sessions[current].status
        /\ current # 0 /\ op.pc = "free" /\ client.status # "error" =>
              client.text = sessions[current].history

ViewInv == client \in Views /\ SessionsKnown /\ BufferCovered /\ ViewFollows

(* Sessions are created, and their sequences only rise.                      *)
SessionsGrow ==
    /\ \A i \in Sessions : sessions[i].status # "none" =>
           /\ sessions'[i].status # "none"
           /\ sessions[i].seq \in Nat /\ sessions'[i].seq \in Nat
           /\ sessions[i].seq <= sessions'[i].seq
    /\ current' \in {0, current} \/ sessions[current'].status = "none"

LEMMA NothingGrows ==
  ASSUME ManagerTypes, sessions' = sessions, current' \in {0, current}
  PROVE  SessionsGrow
BY DEF ManagerTypes, SessionSet, SessionsGrow

LEMMA OneGrows ==
  ASSUME ManagerTypes, NEW i \in Sessions, NEW session \in SessionSet,
         sessions' = [sessions EXCEPT ![i] = session],
         session.status # "none",
         sessions[i].status # "none" => sessions[i].seq <= session.seq,
         current' \in {0, current} \/ (current' = i /\ sessions[i].status = "none")
  PROVE  SessionsGrow
<1>1. \A j \in Sessions : sessions'[j] = IF j = i THEN session ELSE sessions[j]
  BY DEF ManagerTypes
<1>2. session.seq \in Nat /\ \A j \in Sessions : sessions[j].seq \in Nat
  BY DEF ManagerTypes, SessionSet
<1> QED BY <1>1, <1>2 DEF SessionsGrow

(* Only what is published is new in the buffer.                              *)
LEMMA CoveredStays ==
  ASSUME client \in Views, SessionsGrow, NEW event \in Told, IsCovered(event)
  PROVE  IsCovered(event)'
<1>1. event.from \in Sessions /\ event.seq \in Nat
  BY DEF Told
<1>2. event.from = current' => current' = current
  BY DEF IsCovered, SessionsGrow, Sessions
<1> QED BY <1>1, <1>2 DEF IsCovered, SessionsGrow

LEMMA BufferStays ==
  ASSUME client \in Views, BufferCovered, SessionsGrow, client'.buffer \in {client.buffer, <<>>}
  PROVE  BufferCovered'
<1>1. CASE client'.buffer = <<>>
  <2>1. Len(client'.buffer) = 0 /\ 1 .. 0 = {}
    BY <1>1, EmptySeq
  <2> QED BY <2>1 DEF BufferCovered
<1>2. CASE client'.buffer = client.buffer
  <2> SUFFICES ASSUME NEW n \in 1 .. Len(client.buffer) PROVE IsCovered(client.buffer[n])'
    BY <1>2 DEF BufferCovered
  <2>1. client.buffer \in Seq(Told)
    BY DEF Views
  <2>2. PICK event \in Told : event = client.buffer[n]
    BY <2>1, ElementOfSeq
  <2>3. IsCovered(event)
    BY <2>2 DEF BufferCovered
  <2>4. IsCovered(event)'
    BY <2>3, CoveredStays
  <2> QED BY <1>2, <2>2, <2>4 DEF IsCovered
<1> QED BY <1>1, <1>2

LEMMA BufferTold ==
  ASSUME client \in Views, BufferCovered, SessionsGrow, NEW event \in Told,
         client' = Published(event), IsCovered(event)'
  PROVE  client' \in Views /\ BufferCovered' /\ client'.pc = client.pc
<1>1. CASE client.pc = "opening"
  <2>1. client.buffer \in Seq(Told)
    BY DEF Views
  <2>2. client' = [client EXCEPT !.buffer = Append(client.buffer, event)]
    BY <1>1 DEF Published
  <2>3. PICK b \in Seq(Told) : b = client.buffer
    BY <2>1
  <2>4. /\ Append(b, event) \in Seq(Told) /\ Len(Append(b, event)) = Len(b) + 1 /\ Len(b) \in Nat
        /\ Append(b, event)[Len(b) + 1] = event
        /\ \A n \in 1 .. Len(b) : Append(b, event)[n] = b[n]
    BY AppendProperties, LenProperties
  <2>5. client' \in Views /\ client'.buffer = Append(b, event) /\ client'.pc = client.pc
    BY <2>2, <2>3, <2>4 DEF Views
  <2>6. ASSUME NEW n \in 1 .. Len(client'.buffer) PROVE IsCovered(client.buffer[n])'
    <3>1. CASE n \in 1 .. Len(b)
      <4>1. PICK told \in Told : told = b[n]
        BY <3>1, ElementOfSeq
      <4>2. IsCovered(told)
        BY <2>3, <3>1, <4>1 DEF BufferCovered
      <4>3. IsCovered(told)'
        BY <4>2, CoveredStays
      <4>4. client'.buffer[n] = told
        BY <2>4, <2>5, <3>1, <4>1
      <4> QED BY <4>3, <4>4 DEF IsCovered
    <3>2. CASE n = Len(b) + 1
      <4>1. client'.buffer[n] = event
        BY <2>4, <2>5, <3>2
      <4> QED BY <4>1 DEF IsCovered
    <3> QED BY <2>4, <2>5, <3>1, <3>2
  <2> QED BY <2>5, <2>6 DEF BufferCovered
<1>2. CASE client.pc = "live"
  <2>1. client' = Applied(client, event)
    BY <1>2 DEF Published
  <2> QED BY <2>1, AppliedView, BufferStays
<1>3. CASE client.pc = "none"
  <2>1. client' = client
    BY <1>3 DEF Published
  <2> QED BY <2>1, BufferStays
<1> QED BY <1>1, <1>2, <1>3 DEF Views

(* Nothing is asked of the view.                                             *)
LEMMA NotFollowed ==
  ASSUME client'.pc # "live" \/ (current' # 0 /\ op'.pc \notin {"free", "clearing"})
  PROVE  ViewFollows'
BY DEF ViewFollows

(* Mishaps are noted for good.                                               *)
LEMMA ExceptBefore ==
  ASSUME mishaps \subseteq mishaps', NEW kinds, Except(kinds)'
  PROVE  Except(kinds)
BY DEF Except

-----------------------------------------------------------------------------
(* The three ways in which a step touches the view.                         *)

LEMMA ExcusedBefore ==
  ASSUME ManagerInv, mishaps \subseteq mishaps', Except(Excused)'
  PROVE  /\ Except(Excused)
         /\ \A i \in Sessions : sessions[i].status = "running" => i = current
         /\ op.pc \in {"persist", "spawn", "clearing"} => op.id = current
         /\ op.pc \in {"flush", "deleting"} => current = 0
<1>1. Except(Excused)
  BY DEF Except, Excused
<1>2. Except({"evicted"})
  BY <1>1 DEF Except, Excused
<1> QED BY <1>1, <1>2 DEF ManagerInv, CallHoldsSession

LEMMA KnownStays ==
  ASSUME ManagerTypes, SessionsKnown, SessionsGrow, current' \in {0, current},
         op' = op \/ op'.pc \in {"free", "flush", "deleting"}
  PROVE  SessionsKnown'
<1>1. current' # 0 => current' = current /\ current \in Sessions
  BY DEF ManagerTypes
<1>2. op.seq \in Nat /\ (op.pc \in {"persist", "spawn", "clearing"} => op.id \in Sessions)
  BY DEF ManagerTypes, Calls
<1>3. op.pc \in {"persist", "spawn", "clearing"} /\ SessionsKnown => sessions[op.id].status # "none"
  BY DEF SessionsKnown
<1>4. CASE op' = op
  <2>1. current' # 0 => sessions'[current'].status # "none"
    BY <1>1 DEF SessionsGrow, SessionsKnown
  <2>2. op.pc \in {"persist", "spawn", "clearing"} => sessions'[op.id].status # "none"
    BY <1>2, <1>3 DEF SessionsGrow
  <2>3. op.pc = "clearing" => op.seq <= sessions'[op.id].seq
    <3> SUFFICES ASSUME op.pc = "clearing" PROVE op.seq <= sessions'[op.id].seq
      OBVIOUS
    <3>1. /\ sessions[op.id].seq \in Nat /\ sessions'[op.id].seq \in Nat
          /\ sessions[op.id].seq <= sessions'[op.id].seq /\ op.seq <= sessions[op.id].seq
      BY <1>2, <1>3 DEF SessionsGrow, SessionsKnown
    <3> QED BY <1>2, <3>1
  <2>4. op.pc = "closing" /\ current' # 0 => op.id = current'
    BY <1>1 DEF SessionsKnown
  <2> QED BY <1>4, <2>1, <2>2, <2>3, <2>4 DEF SessionsKnown
<1>5. CASE op'.pc \in {"free", "flush", "deleting"}
  BY <1>1, <1>5 DEF SessionsGrow, SessionsKnown
<1> QED BY <1>4, <1>5

(* Not at all: the client hears nothing of the step.                         *)
LEMMA ViewStays ==
  ASSUME ViewInv, SessionsGrow, SessionsKnown', client' = client, ViewFollows'
  PROVE  ViewInv'
BY BufferStays DEF ViewInv

(* The client joins with a snapshot of the session in the map.               *)
LEMMA ViewJoins ==
  ASSUME ViewInv, SessionsGrow, SessionsKnown', NEW id \in Sessions, NEW session \in SessionSet,
         session.status # "none", sessions'[id] = session, current' = current,
         Attached(Snapshot(id, session)), Except(Excused)' => id = current
  PROVE  ViewInv'
<1> DEFINE snapshot == Snapshot(id, session)
<1>1. session.status \in Statuses /\ session.history \in Histories /\ session.seq \in Nat
  BY DEF SessionSet
<1>2. /\ snapshot \in Told /\ snapshot.type = "snapshot" /\ snapshot.from = id
      /\ snapshot.seq = session.seq /\ snapshot.history = session.history
      /\ snapshot.status = session.status
  BY <1>1 DEF Snapshot, Told
<1>3. /\ client' = WentLive(snapshot)
      /\ "reborn" \notin mishaps' =>
             \A n \in 1 .. Len(client.buffer) :
                 IsFresh(client.buffer[n], snapshot) => client.buffer[n].from = snapshot.from
  BY DEF Attached, Note
<1> HIDE DEF snapshot
<1>4. client \in Views /\ BufferCovered
  BY DEF ViewInv
<1>5. /\ client' \in Views /\ client'.buffer = <<>>
      /\ (\A n \in 1 .. Len(client.buffer) : ~IsFresh(client.buffer[n], snapshot)) =>
             client'.text = session.history /\ client'.status = session.status
  BY <1>2, <1>3, <1>4, WentLiveView
<1>6. BufferCovered'
  BY <1>4, <1>5, BufferStays
<1>7. ASSUME Except(Excused)' PROVE client'.text = session.history /\ client'.status = session.status
  <2>1. id = current /\ "reborn" \notin mishaps'
    BY <1>7 DEF Except, Excused
  <2>2. ASSUME NEW n \in 1 .. Len(client.buffer) PROVE ~IsFresh(client.buffer[n], snapshot)
    <3>1. client.buffer \in Seq(Told)
      BY <1>4 DEF Views
    <3>2. PICK event \in Told : event = client.buffer[n]
      BY <3>1, ElementOfSeq
    <3>3. IsCovered(event)
      BY <1>4, <3>2 DEF BufferCovered
    <3>4. IsCovered(event)'
      BY <1>4, <3>3, CoveredStays
    <3>5. event.from = id => event.seq <= session.seq
      BY <2>1, <3>4 DEF IsCovered
    <3>6. event.seq \in Nat
      BY DEF Told
    <3>7. IsFresh(event, snapshot) => event.from = id
      BY <1>2, <1>3, <2>1, <3>2
    <3>8. IsFresh(event, snapshot) <=> event.seq > session.seq
      BY <1>2 DEF IsFresh
    <3> QED BY <1>1, <3>2, <3>5, <3>6, <3>7, <3>8
  <2> QED BY <1>5, <2>2
<1>8. ViewFollows'
  <2> SUFFICES ASSUME Except(Excused)'
               PROVE  /\ current' # 0
                      /\ client'.status = sessions'[current'].status
                      /\ client'.text = sessions'[current'].history
    BY DEF ViewFollows
  <2>1. current' = id /\ id # 0
    BY DEF Sessions
  <2> QED BY <1>7, <2>1
<1> QED BY <1>5, <1>6, <1>8 DEF ViewInv

(* The client is sent an event.                                             *)
LEMMA ViewTold ==
  ASSUME ViewInv, SessionsGrow, SessionsKnown', NEW event \in Told, client' = Published(event),
         IsCovered(event)',
         client.pc = "live" /\ client' = Applied(client, event) => ViewFollows'
  PROVE  ViewInv'
<1>1. client' \in Views /\ BufferCovered' /\ client'.pc = client.pc
  BY BufferTold DEF ViewInv
<1>2. client.pc = "live" => client' = Applied(client, event)
  BY DEF Published
<1>3. ViewFollows'
  BY <1>1, <1>2 DEF ViewFollows
<1> QED BY <1>1, <1>3 DEF ViewInv

-----------------------------------------------------------------------------
(* Calls that change neither the sessions nor the view.                     *)

LEMMA QuietView ==
  ASSUME ManagerInv, ViewInv, UNCHANGED <<sessions, current, client>>, mishaps \subseteq mishaps',
         SessionsKnown',
         Except(Excused)' =>
             \/ op' = op \/ op'.pc \notin {"free", "clearing"} \/ current = 0
  PROVE  ViewInv'
<1>1. SessionsGrow
  BY NothingGrows DEF ManagerInv
<1>2. ViewFollows'
  <2> SUFFICES ASSUME client.pc = "live", Except(Excused)'
               PROVE  /\ current = 0 => client.status # "running"
                      /\ current # 0 /\ op'.pc \in {"free", "clearing"} =>
                            client.status = sessions[current].status
                      /\ current # 0 /\ op'.pc = "free" /\ client.status # "error" =>
                            client.text = sessions[current].history
    BY DEF ViewFollows
  <2>1. Except(Excused)
    BY ExcusedBefore
  <2> QED BY <2>1 DEF ViewInv, ViewFollows
<1> QED BY <1>1, <1>2, ViewStays

LEMMA QuietCalls ==
  ASSUME ManagerInv, ViewInv,
         \/ \E kind \in {"open", "attach"} : OpenAbsent(kind) \/ OpenResumes(kind)
         \/ \E kind \in {"delete", "forget"} : CloseAbsent(kind)
         \/ Deleted \/ CallInterrupted \/ WriterStep \/ UNCHANGED vars
  PROVE  ViewInv'
<1>1. ManagerTypes /\ SessionsKnown
  BY DEF ManagerInv, ViewInv
<1>2. CASE \E kind \in {"open", "attach"} : OpenAbsent(kind)
  <2>1. /\ UNCHANGED <<sessions, current, client, mishaps>> /\ current = 0
        /\ op'.pc = "flush"
    BY <1>2 DEF OpenAbsent, Holds
  <2>2. SessionsKnown'
    BY <2>1 DEF SessionsKnown
  <2> QED BY <2>1, <2>2, QuietView
<1>3. CASE \E kind \in {"open", "attach"} : OpenResumes(kind)
  <2>1. /\ UNCHANGED <<sessions, current, client, mishaps>>
        /\ op'.pc = "spawn" /\ op'.id = current /\ sessions[current].status = "starting"
    BY <1>3 DEF OpenResumes, Holds
  <2>2. SessionsKnown'
    BY <2>1 DEF SessionsKnown
  <2> QED BY <2>1, <2>2, QuietView
<1>4. CASE \E kind \in {"delete", "forget"} : CloseAbsent(kind)
  <2>1. PICK kind \in {"delete", "forget"} : CloseAbsent(kind)
    BY <1>4
  <2>2. /\ UNCHANGED <<sessions, current, client>> /\ current = 0
        /\ op'.pc \in {"deleting", "closing"} /\ mishaps \subseteq mishaps'
    BY <2>1 DEF CloseAbsent, Holds, Note
  <2>3. SessionsKnown'
    BY <2>2 DEF SessionsKnown
  <2> QED BY <2>2, <2>3, QuietView
<1>5. CASE Deleted
  <2>1. UNCHANGED <<sessions, current, client, mishaps>> /\ op' = Free /\ op.pc = "deleting"
    BY <1>5 DEF Deleted
  <2>2. SessionsKnown'
    BY <1>1, <2>1 DEF SessionsKnown, Free
  <2>3. Except(Excused)' => current = 0
    BY <2>1, ExcusedBefore
  <2> QED BY <2>1, <2>2, <2>3, QuietView
<1>6. CASE CallInterrupted
  <2>1. /\ UNCHANGED <<sessions, current, client>> /\ op' = Free /\ mishaps \subseteq mishaps'
        /\ op.pc # "flush" => "abandoned" \in mishaps'
    BY <1>6 DEF CallInterrupted, Note
  <2>2. SessionsKnown'
    BY <1>1, <2>1 DEF SessionsKnown, Free
  <2>3. Except(Excused)' => op.pc = "flush"
    BY <2>1 DEF Except, Excused
  <2>4. Except(Excused)' => current = 0
    BY <2>1, <2>3, ExcusedBefore
  <2> QED BY <2>1, <2>2, <2>4, QuietView
<1>7. CASE WriterStep \/ UNCHANGED vars
  <2>1. UNCHANGED <<sessions, current, client, op, mishaps>>
    BY <1>7 DEF WriterStep, vars, terminal
  <2>2. SessionsKnown'
    BY <1>1, <2>1 DEF SessionsKnown
  <2> QED BY <2>1, <2>2, QuietView
<1> QED BY <1>2, <1>3, <1>4, <1>5, <1>6, <1>7

LEMMA EvictView == ASSUME ManagerInv, ViewInv, Evict PROVE ViewInv'
<1>1. ManagerTypes /\ SessionsKnown /\ ViewFollows
  BY DEF ManagerInv, ViewInv
<1>2. /\ UNCHANGED <<sessions, op, client>> /\ current' = 0 /\ mishaps \subseteq mishaps'
      /\ op # Free => "evicted" \in mishaps'
      /\ current # 0 /\ sessions[current].status # "running"
  BY DEF Evict, Note
<1>3. SessionsGrow /\ SessionsKnown'
  BY <1>1, <1>2, NothingGrows, KnownStays
<1>4. ViewFollows'
  <2> SUFFICES ASSUME client.pc = "live", Except(Excused)' PROVE client.status # "running"
    BY <1>2 DEF ViewFollows
  <2>1. Except(Excused)
    BY <1>2, ExcusedBefore
  <2>2. op = Free
    BY <1>2 DEF Except, Excused
  <2> QED BY <1>1, <1>2, <2>1, <2>2 DEF ViewFollows, Free
<1> QED BY <1>2, <1>3, <1>4, ViewStays

(* The client comes and goes.                                               *)
LEMMA DetachedView == Detached \in Views
<1>1. <<>> \in Seq(Told)
  BY EmptySeq
<1> QED BY <1>1, EmptyHistory DEF Detached, Views

LEMMA ClientMoves ==
  ASSUME ManagerInv, ViewInv, AttachSubscribes \/ AttachFails \/ ClientLeaves
  PROVE  ViewInv'
<1>1. ManagerTypes /\ SessionsKnown /\ client \in Views /\ BufferCovered
  BY DEF ManagerInv, ViewInv
<1>2. UNCHANGED <<sessions, current, op>>
  BY DEF AttachSubscribes, AttachFails, ClientLeaves
<1>3. SessionsGrow /\ SessionsKnown'
  BY <1>1, <1>2, NothingGrows, KnownStays
<1>4. client' \in Views /\ client'.pc # "live" /\ client'.buffer \in {client.buffer, <<>>}
  <2>1. CASE AttachSubscribes
    BY <1>1, <2>1 DEF AttachSubscribes, Views
  <2>2. CASE AttachFails \/ ClientLeaves
    BY <2>2, DetachedView DEF AttachFails, ClientLeaves, Detached
  <2> QED BY <2>1, <2>2
<1>5. BufferCovered' /\ ViewFollows'
  BY <1>1, <1>3, <1>4, BufferStays, NotFollowed
<1> QED BY <1>3, <1>4, <1>5 DEF ViewInv

LEMMA JoinsView == ASSUME ManagerInv, ViewInv, AttachJoins PROVE ViewInv'
<1>1. ManagerTypes /\ SessionsKnown /\ current \in Sessions
  BY DEF ManagerInv, ManagerTypes, ViewInv, AttachJoins
<1>2. UNCHANGED <<sessions, current, op>> /\ Attached(Snapshot(current, sessions[current]))
  BY DEF AttachJoins
<1>3. SessionsGrow /\ SessionsKnown'
  BY <1>1, <1>2, NothingGrows, KnownStays
<1>4. PICK id \in Sessions : id = current
  BY <1>1
<1>5. PICK session \in SessionSet : session = sessions[id]
  BY <1>1 DEF ManagerTypes
<1>6. session.status # "none" /\ sessions'[id] = session
  BY <1>1, <1>2, <1>4, <1>5 DEF SessionsKnown, Sessions
<1>7. Attached(Snapshot(id, session))
  BY <1>2, <1>4, <1>5
<1> QED BY <1>2, <1>3, <1>4, <1>6, <1>7, ViewJoins

-----------------------------------------------------------------------------
(* Calls that change a session and will say so.                             *)

LEMMA ChangesView ==
  ASSUME ManagerInv, ViewInv, client' = client, mishaps \subseteq mishaps',
         NEW i \in Sessions, NEW session \in SessionSet,
         sessions' = [sessions EXCEPT ![i] = session],
         session.status # "none", sessions[i].status # "none" => sessions[i].seq <= session.seq,
         current' = current \/ (current' = i /\ sessions[i].status = "none"),
         op'.pc \in {"persist", "spawn", "closing"},
         op'.pc \in {"persist", "spawn"} => op'.id = i,
         op'.pc = "closing" => op'.id = current',
         Except(Excused)' => current' # 0
  PROVE  ViewInv'
<1>1. ManagerTypes /\ SessionsKnown /\ ViewFollows
  BY DEF ManagerInv, ViewInv
<1>2. SessionsGrow
  BY <1>1, OneGrows
<1>3. sessions'[i] = session
  BY <1>1 DEF ManagerTypes
<1>4. SessionsKnown'
  <2>1. CASE current' = current
    <3>1. current' # 0 => sessions'[current'].status # "none"
      <4>1. current # 0 => current \in Sessions /\ sessions[current].status # "none"
        BY <1>1 DEF ManagerTypes, SessionsKnown
      <4> QED BY <1>2, <2>1, <4>1 DEF SessionsGrow
    <3> QED BY <1>3, <3>1 DEF SessionsKnown
  <2>2. CASE current' = i
    BY <1>3, <2>2 DEF SessionsKnown
  <2> QED BY <2>1, <2>2
<1>5. ViewFollows'
  BY DEF ViewFollows
<1> QED BY <1>2, <1>4, <1>5, ViewStays

LEMMA CreatesView ==
  ASSUME ManagerInv, ViewInv, NEW history \in Histories, Created(history), client' = client,
         mishaps' = mishaps, op'.pc \in {"persist", "spawn"}, op'.id = current'
  PROVE  ViewInv'
<1>1. PICK id \in Sessions :
          /\ sessions[id].status = "none"
          /\ sessions' = [sessions EXCEPT ![id] =
                              [status |-> "starting", history |-> history, seq |-> 0]]
          /\ current' = id
  BY DEF Created
<1>2. PICK session : session = [status |-> "starting", history |-> history, seq |-> 0]
  OBVIOUS
<1>3. session \in SessionSet /\ session.status # "none"
  BY <1>2 DEF SessionSet, Statuses
<1>4. id # 0
  BY DEF Sessions
<1> QED BY <1>1, <1>2, <1>3, <1>4, ChangesView

LEMMA AnewView ==
  ASSUME ManagerInv, ViewInv, NEW kind, current # 0, StartsAnew(kind)
  PROVE  ViewInv'
<1>1. current \in Sessions /\ SessionsKnown
  BY DEF ManagerInv, ManagerTypes, ViewInv
<1>2. PICK i \in Sessions : i = current
  BY <1>1
<1>3. PICK old \in SessionSet : old = sessions[i]
  BY DEF ManagerInv, ManagerTypes
<1>4. PICK session : session = [Stopped(old) EXCEPT !.history = <<>>]
  OBVIOUS
<1>5. /\ session \in SessionSet /\ session.seq = old.seq /\ old.seq \in Nat
      /\ old.status # "none" => session.status # "none"
  <2>1. session \in SessionSet
    BY <1>4, StoppedSession
  <2> QED BY <1>4, <2>1 DEF Stopped, SessionSet
<1>6. old.status # "none"
  BY <1>1, <1>2, <1>3 DEF SessionsKnown, Sessions
<1>7. sessions' = [sessions EXCEPT ![i] = session] /\ UNCHANGED <<current, client, mishaps>>
      /\ op'.pc = "persist" /\ op'.id = i
  BY <1>2, <1>3, <1>4 DEF StartsAnew, Holds
<1>8. sessions[i].seq <= session.seq
  BY <1>3, <1>5
<1> QED BY <1>2, <1>5, <1>6, <1>7, <1>8, ChangesView

LEMMA StartsView ==
  ASSUME ManagerInv, ViewInv,
         OpenReads \/ Restart \/ (\E kind \in {"open", "attach"} : OpenReplaces(kind))
  PROVE  ViewInv'
<1>1. CASE OpenReads
  BY <1>1, CreatesView DEF OpenReads, ManagerInv, ManagerTypes
<1>2. CASE Restart
  BY <1>2, CreatesView, AnewView, EmptyHistory DEF Restart, Holds
<1>3. CASE \E kind \in {"open", "attach"} : OpenReplaces(kind)
  BY <1>3, AnewView DEF OpenReplaces
<1> QED BY <1>1, <1>2, <1>3

LEMMA PersistedView == ASSUME ManagerInv, ViewInv, Persisted PROVE ViewInv'
<1>1. op \in Calls /\ op.id \in Sessions /\ op.pc = "persist" /\ SessionsKnown
  BY DEF ManagerInv, ManagerTypes, ViewInv, Persisted
<1>2. PICK i \in Sessions : i = op.id
  BY <1>1
<1>3. PICK old \in SessionSet : old = sessions[i]
  BY DEF ManagerInv, ManagerTypes
<1>4. PICK session : session = [old EXCEPT !.status = "starting"]
  OBVIOUS
<1>5. session \in SessionSet /\ session.seq = old.seq /\ old.seq \in Nat /\ session.status # "none"
  BY <1>4 DEF SessionSet, Statuses
<1>6. /\ sessions' = [sessions EXCEPT ![i] = session] /\ UNCHANGED <<current, client, mishaps>>
      /\ op'.pc = "spawn" /\ op'.id = i
  BY <1>1, <1>2, <1>3, <1>4 DEF Persisted, Goes, Calls
<1>7. sessions[i].seq <= session.seq
  BY <1>3, <1>5
<1>8. Except(Excused)' => current' # 0
  <2>1. Except(Excused)' => op.id = current
    BY <1>1, <1>6, ExcusedBefore
  <2> QED BY <1>1, <1>6, <2>1 DEF Sessions
<1> QED BY <1>5, <1>6, <1>7, <1>8, ChangesView

LEMMA CloseView ==
  ASSUME ManagerInv, ViewInv, NEW kind, Close(kind)
  PROVE  ViewInv'
<1>1. current \in Sessions /\ SessionsKnown
  BY DEF ManagerInv, ManagerTypes, ViewInv, Close
<1>2. PICK i \in Sessions : i = current
  BY <1>1
<1>3. PICK old \in SessionSet : old = sessions[i]
  BY DEF ManagerInv, ManagerTypes
<1>4. PICK session : session = Stopped(old)
  OBVIOUS
<1>5. /\ session \in SessionSet /\ session.seq = old.seq /\ old.seq \in Nat
      /\ old.status # "none" => session.status # "none"
  <2>1. session \in SessionSet
    BY <1>4, StoppedSession
  <2> QED BY <1>4, <2>1 DEF Stopped, SessionSet
<1>6. old.status # "none" /\ i # 0
  BY <1>1, <1>2, <1>3 DEF SessionsKnown, Sessions
<1>7. sessions' = [sessions EXCEPT ![i] = session] /\ UNCHANGED <<current, client, mishaps>>
      /\ op'.pc = "closing" /\ op'.id = current
  BY <1>2, <1>3, <1>4 DEF Close
<1>8. sessions[i].seq <= session.seq
  BY <1>3, <1>5
<1> QED BY <1>2, <1>5, <1>6, <1>7, <1>8, ChangesView

LEMMA ClearView == ASSUME ManagerInv, ViewInv, Clear PROVE ViewInv'
<1>1. ManagerTypes /\ current \in Sessions /\ SessionsKnown /\ ViewFollows
  BY DEF ManagerInv, ManagerTypes, ViewInv, Clear
<1>2. PICK i \in Sessions : i = current
  BY <1>1
<1>3. PICK old \in SessionSet : old = sessions[i]
  BY <1>1 DEF ManagerTypes
<1>4. PICK session : session = [old EXCEPT !.history = <<>>, !.seq = old.seq + 1]
  OBVIOUS
<1>5. old.status # "none" /\ i # 0
  BY <1>1, <1>2, <1>3 DEF SessionsKnown, Sessions
<1>6. /\ session \in SessionSet /\ session.seq = old.seq + 1 /\ old.seq \in Nat
      /\ session.status = old.status
  <2>1. old.seq \in Nat /\ old.seq + 1 \in Nat
    BY DEF SessionSet
  <2> QED BY <1>4, <2>1, EmptyHistory DEF SessionSet
<1>7. /\ sessions' = [sessions EXCEPT ![i] = session] /\ UNCHANGED <<current, client, mishaps>>
      /\ op = Free /\ op'.pc = "clearing" /\ op'.id = current /\ op'.seq = session.seq
  BY <1>2, <1>3, <1>4, <1>6 DEF Clear, Begins
<1>8. sessions'[i] = session /\ sessions[i].seq <= session.seq
  BY <1>1, <1>3, <1>6, <1>7 DEF ManagerTypes
<1>9. SessionsGrow
  BY <1>1, <1>5, <1>6, <1>7, <1>8, OneGrows
<1>10. SessionsKnown'
  BY <1>2, <1>5, <1>6, <1>7, <1>8 DEF SessionsKnown, SessionSet
<1>11. ViewFollows'
  BY <1>1, <1>2, <1>3, <1>5, <1>6, <1>7, <1>8 DEF ViewFollows, Free, Except
<1> QED BY <1>7, <1>9, <1>10, <1>11, ViewStays

-----------------------------------------------------------------------------
(* Steps the client is told of.                                             *)

LEMMA SpawnedView ==
  ASSUME ManagerInv, ViewInv, NEW status \in {"running", "error"}, Spawned(status)
  PROVE  ViewInv'
<1>1. /\ ManagerTypes /\ SessionsKnown /\ ViewFollows /\ client \in Views
      /\ op \in Calls /\ op.id \in Sessions /\ op.pc = "spawn"
  BY DEF ManagerInv, ManagerTypes, ViewInv, Spawned
<1>2. PICK i \in Sessions : i = op.id
  BY <1>1
<1>3. PICK old \in SessionSet : old = sessions[i]
  BY <1>1 DEF ManagerTypes
<1>4. PICK session : session = [old EXCEPT !.status = status, !.seq = old.seq + 1]
  OBVIOUS
<1>5. /\ session \in SessionSet /\ session.seq = old.seq + 1 /\ old.seq \in Nat /\ session.seq \in Nat
      /\ session.status = status /\ session.status \in Statuses /\ session.status # "none"
      /\ session.history \in Histories
  <2>1. old.seq \in Nat /\ old.seq + 1 \in Nat
    BY DEF SessionSet
  <2> QED BY <1>4, <2>1 DEF SessionSet, Statuses
<1>6. /\ sessions' = [sessions EXCEPT ![i] = session] /\ op' = Free /\ current' = current
      /\ op.kind = "attach" => Attached(Snapshot(i, session))
      /\ op.kind # "attach" =>
             /\ client' = Published(IF status = "running" THEN Snapshot(i, session)
                                    ELSE [type |-> "error", from |-> i, seq |-> session.seq])
             /\ UNCHANGED mishaps
  BY <1>2, <1>3, <1>4 DEF Spawned
<1>7. sessions'[i] = session /\ sessions[i].seq <= session.seq
  BY <1>1, <1>3, <1>5, <1>6 DEF ManagerTypes
<1>8. SessionsGrow
  BY <1>1, <1>5, <1>6, <1>7, OneGrows
<1>9. SessionsKnown'
  BY <1>1, <1>6, <1>8, KnownStays DEF Free
<1>10. mishaps \subseteq mishaps'
  BY <1>6, AttachedNotes
<1>11. Except(Excused)' => i = current
  BY <1>1, <1>2, <1>10, ExcusedBefore
<1>12. CASE op.kind = "attach"
  BY <1>5, <1>6, <1>7, <1>8, <1>9, <1>11, <1>12, ViewJoins
<1>13. CASE op.kind # "attach" /\ status = "running"
  <2>1. PICK event : event = Snapshot(i, session)
    OBVIOUS
  <2>2. /\ event \in Told /\ event.type = "snapshot" /\ event.from = i /\ event.seq = session.seq
        /\ event.status = status /\ event.history = session.history
    BY <1>5, <2>1 DEF Snapshot, Told
  <2>3. client' = Published(event)
    BY <1>6, <1>13, <2>1
  <2>4. IsCovered(event)'
    BY <1>5, <1>7, <2>2 DEF IsCovered
  <2>5. ASSUME client' = Applied(client, event) PROVE ViewFollows'
    <3>1. client'.status = status /\ client'.text = session.history
      BY <1>1, <2>2, <2>5 DEF Applied, Views
    <3> QED BY <1>5, <1>6, <1>7, <1>11, <3>1 DEF ViewFollows, Sessions
  <2> QED BY <1>8, <1>9, <2>2, <2>3, <2>4, <2>5, ViewTold
<1>14. CASE op.kind # "attach" /\ status = "error"
  <2>1. PICK event : event = [type |-> "error", from |-> i, seq |-> session.seq]
    OBVIOUS
  <2>2. event \in Told /\ event.type = "error" /\ event.from = i /\ event.seq = session.seq
    BY <1>5, <2>1 DEF Told
  <2>3. client' = Published(event)
    BY <1>6, <1>14, <2>1
  <2>4. IsCovered(event)'
    BY <1>5, <1>7, <2>2 DEF IsCovered
  <2>5. ASSUME client' = Applied(client, event) PROVE ViewFollows'
    <3>1. client'.status = "error"
      BY <1>1, <2>2, <2>5 DEF Applied, Views
    <3> QED BY <1>5, <1>6, <1>7, <1>11, <1>14, <3>1 DEF ViewFollows, Sessions
  <2> QED BY <1>8, <1>9, <2>2, <2>3, <2>4, <2>5, ViewTold
<1> QED BY <1>12, <1>13, <1>14

LEMMA ClearedView == ASSUME ManagerInv, ViewInv, Cleared PROVE ViewInv'
<1>1. /\ ManagerTypes /\ SessionsKnown /\ ViewFollows /\ client \in Views
      /\ op \in Calls /\ op.id \in Sessions /\ op.pc = "clearing"
  BY DEF ManagerInv, ManagerTypes, ViewInv, Cleared
<1>2. /\ UNCHANGED <<sessions, current>> /\ op' = Free /\ mishaps \subseteq mishaps'
      /\ sessions[op.id].history # <<>> => "swallowed" \in mishaps'
  BY DEF Cleared, Note
<1>3. PICK event : event = [type |-> "cleared", from |-> op.id, seq |-> op.seq]
  OBVIOUS
<1>4. event \in Told /\ event.type = "cleared" /\ event.from = op.id /\ event.seq = op.seq
  BY <1>1, <1>3 DEF Told, Calls
<1>5. client' = Published(event)
  BY <1>3 DEF Cleared
<1>6. SessionsGrow /\ SessionsKnown'
  BY <1>1, <1>2, NothingGrows, KnownStays DEF Free
<1>7. IsCovered(event)'
  BY <1>1, <1>2, <1>4 DEF IsCovered, SessionsKnown
<1>8. ASSUME client.pc = "live", client' = Applied(client, event) PROVE ViewFollows'
  <2>1. client'.status = client.status /\ client'.text = <<>>
    BY <1>1, <1>4, <1>8 DEF Applied, Views
  <2>2. SUFFICES ASSUME Except(Excused)'
        PROVE  /\ current # 0 /\ client.status = sessions[current].status
               /\ sessions[current].history = <<>>
    BY <1>2, <2>1 DEF ViewFollows, Free
  <2>3. Except(Excused) /\ op.id = current
    BY <1>1, <1>2, <2>2, ExcusedBefore
  <2>4. sessions[op.id].history = <<>>
    BY <1>2, <2>2 DEF Except, Excused
  <2>5. current # 0
    BY <1>1, <2>3 DEF Sessions
  <2> QED BY <1>1, <1>8, <2>3, <2>4, <2>5 DEF ViewFollows
<1> QED BY <1>4, <1>5, <1>6, <1>7, <1>8, ViewTold

LEMMA ClosedView == ASSUME ManagerInv, ViewInv, Closed PROVE ViewInv'
<1>1. /\ ManagerTypes /\ SessionsKnown /\ ViewFollows /\ client \in Views
      /\ op \in Calls /\ op.pc = "closing"
  BY DEF ManagerInv, ManagerTypes, ViewInv, Closed
<1>2. UNCHANGED <<sessions, mishaps>> /\ current' = 0 /\ op'.pc \in {"free", "deleting"}
  BY <1>1 DEF Closed, Free, Calls
<1>3. SessionsGrow /\ SessionsKnown'
  BY <1>1, <1>2, NothingGrows, KnownStays
<1>4. CASE current = 0
  <2>1. client' = client
    BY <1>4 DEF Closed
  <2>2. ViewFollows'
    BY <1>1, <1>2, <1>4, <2>1 DEF ViewFollows, Except
  <2> QED BY <1>3, <2>1, <2>2, ViewStays
<1>5. CASE current # 0
  <2>1. op.id = current /\ op.id \in Sessions /\ sessions[op.id].status # "none"
    BY <1>1, <1>5 DEF SessionsKnown, ManagerTypes
  <2>2. PICK event : event = [type |-> "closed", from |-> op.id, seq |-> op.seq]
    OBVIOUS
  <2>3. event \in Told /\ event.type = "closed" /\ event.from = op.id
    BY <1>1, <2>1, <2>2 DEF Told, Calls
  <2>4. client' = Published(event)
    BY <1>5, <2>2 DEF Closed
  <2>5. IsCovered(event)'
    BY <1>2, <2>1, <2>3 DEF IsCovered, Sessions
  <2>6. ASSUME client' = Applied(client, event) PROVE ViewFollows'
    <3>1. client'.status = "closed"
      BY <1>1, <2>3, <2>6 DEF Applied, Views
    <3> QED BY <1>2, <3>1 DEF ViewFollows
  <2> QED BY <1>3, <2>3, <2>4, <2>5, <2>6, ViewTold
<1> QED BY <1>4, <1>5

LEMMA OutputView == ASSUME ManagerInv, ViewInv, NEW i \in Sessions, ProcessOutput(i) PROVE ViewInv'
<1>1. ManagerTypes /\ SessionsKnown /\ ViewFollows /\ client \in Views
  BY DEF ManagerInv, ViewInv
<1>2. PICK old \in SessionSet : old = sessions[i]
  BY <1>1 DEF ManagerTypes
<1>3. PICK chunk : chunk = used.outputs + 1
  OBVIOUS
<1>4. chunk \in 1 .. MaxOutputs
  BY <1>1, <1>3, TerminalAssumption DEF ProcessOutput, ManagerTypes
<1>5. PICK history : history = Append(old.history, chunk)
  OBVIOUS
<1>6. history \in Histories
  <2>1. old.history \in Seq(1 .. MaxOutputs)
    BY DEF SessionSet, Histories
  <2> QED BY <1>4, <1>5, <2>1, AppendProperties DEF Histories
<1>7. PICK session : session = [old EXCEPT !.history = history, !.seq = old.seq + 1]
  OBVIOUS
<1>8. /\ session \in SessionSet /\ session.seq = old.seq + 1 /\ old.seq \in Nat /\ session.seq \in Nat
      /\ session.status = old.status /\ old.status = "running" /\ session.history = history
  <2>1. old.seq \in Nat /\ old.seq + 1 \in Nat /\ old.status = "running"
    BY <1>2 DEF SessionSet, ProcessOutput
  <2> QED BY <1>6, <1>7, <2>1 DEF SessionSet
<1>9. PICK event : event = [type |-> "output", from |-> i, seq |-> session.seq, chunk |-> chunk]
  OBVIOUS
<1>10. /\ sessions' = [sessions EXCEPT ![i] = session] /\ UNCHANGED <<current, op, mishaps>>
       /\ client' = Published(event)
  BY <1>2, <1>3, <1>5, <1>7, <1>9 DEF ProcessOutput
<1>11. sessions'[i] = session /\ sessions[i].seq <= session.seq
  BY <1>1, <1>2, <1>8, <1>10 DEF ManagerTypes
<1>12. SessionsGrow
  BY <1>1, <1>8, <1>10, <1>11, OneGrows
<1>13. SessionsKnown'
  BY <1>1, <1>10, <1>12, KnownStays
<1>14. /\ event \in Told /\ event.type = "output" /\ event.from = i /\ event.seq = session.seq
       /\ event.chunk = chunk
  BY <1>4, <1>8, <1>9 DEF Told
<1>15. IsCovered(event)'
  BY <1>8, <1>11, <1>14 DEF IsCovered
<1>16. ASSUME client.pc = "live", client' = Applied(client, event) PROVE ViewFollows'
  <2>1. /\ client'.status = IF client.status = "closed" THEN "running" ELSE client.status
        /\ client'.text = Append(client.text, chunk)
    BY <1>1, <1>14, <1>16 DEF Applied, Views
  <2>2. SUFFICES ASSUME Except(Excused)'
        PROVE  /\ current # 0
               /\ op.pc \in {"free", "clearing"} => client'.status = sessions'[current].status
               /\ op.pc = "free" => client'.text = sessions'[current].history
    BY <1>10 DEF ViewFollows
  <2>3. Except(Excused) /\ i = current /\ current # 0
    BY <1>2, <1>8, <1>10, <2>2, ExcusedBefore DEF Sessions
  <2>4. op.pc \in {"free", "clearing"} => client.status = "running"
    BY <1>1, <1>2, <1>8, <1>16, <2>3 DEF ViewFollows
  <2>5. op.pc = "free" => client.text = old.history
    BY <1>1, <1>2, <1>16, <2>3, <2>4 DEF ViewFollows
  <2> QED BY <1>5, <1>8, <1>11, <2>1, <2>3, <2>4, <2>5
<1> QED BY <1>12, <1>13, <1>14, <1>10, <1>15, <1>16, ViewTold

LEMMA ExitView == ASSUME ManagerInv, ViewInv, NEW i \in Sessions, ProcessExit(i) PROVE ViewInv'
<1>1. ManagerTypes /\ SessionsKnown /\ ViewFollows /\ client \in Views
  BY DEF ManagerInv, ViewInv
<1>2. PICK old \in SessionSet : old = sessions[i]
  BY <1>1 DEF ManagerTypes
<1>3. PICK session : session = [old EXCEPT !.status = "exited", !.seq = old.seq + 1]
  OBVIOUS
<1>4. /\ session \in SessionSet /\ session.seq = old.seq + 1 /\ old.seq \in Nat /\ session.seq \in Nat
      /\ session.status = "exited" /\ old.status = "running" /\ session.history = old.history
  <2>1. old.seq \in Nat /\ old.seq + 1 \in Nat /\ old.status = "running"
    BY <1>2 DEF SessionSet, ProcessExit
  <2> QED BY <1>3, <2>1 DEF SessionSet, Statuses
<1>5. PICK event : event = [type |-> "exited", from |-> i, seq |-> session.seq]
  OBVIOUS
<1>6. /\ sessions' = [sessions EXCEPT ![i] = session] /\ UNCHANGED <<current, op, mishaps>>
      /\ client' = Published(event)
  BY <1>2, <1>3, <1>4, <1>5 DEF ProcessExit
<1>7. sessions'[i] = session /\ sessions[i].seq <= session.seq
  BY <1>1, <1>2, <1>4, <1>6 DEF ManagerTypes
<1>8. SessionsGrow
  BY <1>1, <1>4, <1>6, <1>7, OneGrows
<1>9. SessionsKnown'
  BY <1>1, <1>6, <1>8, KnownStays
<1>10. event \in Told /\ event.type = "exited" /\ event.from = i /\ event.seq = session.seq
  BY <1>4, <1>5 DEF Told
<1>11. IsCovered(event)'
  BY <1>4, <1>7, <1>10 DEF IsCovered
<1>12. ASSUME client.pc = "live", client' = Applied(client, event) PROVE ViewFollows'
  <2>1. client'.status = "exited" /\ client'.text = client.text
    BY <1>1, <1>10, <1>12 DEF Applied, Views
  <2>2. SUFFICES ASSUME Except(Excused)'
        PROVE  /\ current # 0 /\ sessions'[current].status = "exited"
               /\ op.pc = "free" => client.text = sessions'[current].history
    BY <1>6, <2>1 DEF ViewFollows
  <2>3. Except(Excused) /\ i = current /\ current # 0
    BY <1>2, <1>4, <1>6, <2>2, ExcusedBefore DEF Sessions
  <2>4. op.pc = "free" => client.text = old.history
    BY <1>1, <1>2, <1>4, <1>12, <2>3 DEF ViewFollows
  <2> QED BY <1>4, <1>7, <2>3, <2>4
<1> QED BY <1>6, <1>8, <1>9, <1>10, <1>11, <1>12, ViewTold

-----------------------------------------------------------------------------
LEMMA ViewInit == Init => ViewInv
<1> SUFFICES ASSUME Init PROVE ViewInv
  OBVIOUS
<1>1. client = Detached /\ client \in Views /\ current = 0 /\ op = Free
  BY DetachedView DEF Init
<1>2. Len(client.buffer) = 0 /\ 1 .. 0 = {}
  BY <1>1, EmptySeq DEF Detached
<1>3. BufferCovered
  BY <1>2 DEF BufferCovered
<1>4. SessionsKnown /\ ViewFollows
  BY <1>1 DEF SessionsKnown, ViewFollows, Free, Detached
<1> QED BY <1>1, <1>3, <1>4 DEF ViewInv

LEMMA ViewStep == ManagerInv /\ ViewInv /\ [Next]_vars => ViewInv'
<1> SUFFICES ASSUME ManagerInv, ViewInv, [Next]_vars PROVE ViewInv'
  OBVIOUS
<1>1. CASE UNCHANGED vars \/ WriterStep \/ CallInterrupted
  BY <1>1, QuietCalls
<1>2. CASE Attach
  BY <1>2, JoinsView, ClientMoves, QuietCalls, StartsView DEF Attach
<1>3. CASE Continues
  BY <1>3, StartsView, PersistedView, SpawnedView, ClearedView, ClosedView, QuietCalls
     DEF Continues
<1>4. CASE Clients
  BY <1>4, ClientMoves, QuietCalls, StartsView, ClearView, CloseView DEF Clients
<1>5. CASE \E i \in Sessions : ProcessOutput(i) \/ ProcessExit(i)
  BY <1>5, OutputView, ExitView
<1>6. CASE Evict
  BY <1>6, EvictView
<1> QED BY <1>1, <1>2, <1>3, <1>4, <1>5, <1>6 DEF Next

LEMMA ViewInvariant == Spec => []ViewInv
BY ManagerInvariant, ViewInit, ViewStep, PTL DEF Spec

MishapsNamed == mishaps \in SUBSET Kinds

LEMMA MishapsInvariant == Spec => []MishapsNamed
<1>1. Init => MishapsNamed
  BY DEF Init, MishapsNamed
<1>2. MishapsNamed /\ [Next]_vars => MishapsNamed'
  <2> SUFFICES ASSUME mishaps \in SUBSET Kinds, [Next]_vars PROVE mishaps' \in SUBSET Kinds
    BY DEF MishapsNamed
  <2>1. CASE UNCHANGED vars \/ WriterStep \/ CallInterrupted \/ Evict
    BY <2>1 DEF vars, terminal, WriterStep, CallInterrupted, Evict, Note, Kinds
  <2>2. CASE Attach
    BY <2>2 DEF Attach, AttachJoins, Attached, AttachFails, OpenAbsent, OpenReplaces, StartsAnew,
          OpenResumes, Note, Kinds
  <2>3. CASE Continues
    BY <2>3 DEF Continues, OpenReads, Persisted, Spawned, Attached, Cleared, Closed, Deleted, Note,
          Kinds
  <2>4. CASE Clients
    BY <2>4 DEF Clients, AttachSubscribes, ClientLeaves, OpenAbsent, OpenReplaces, StartsAnew,
          OpenResumes, Restart, Clear, Close, CloseAbsent, Note, Kinds
  <2>5. CASE \E i \in Sessions : ProcessOutput(i) \/ ProcessExit(i)
    BY <2>5 DEF ProcessOutput, ProcessExit
  <2> QED BY <2>1, <2>2, <2>3, <2>4, <2>5 DEF Next
<1> QED BY <1>1, <1>2, PTL DEF Spec

(* Calls, sessions, events, histories and views are what they are taken for, *)
(* and what a call works on exists.                                          *)
THEOREM TypeCorrect == Spec => []TypeOK
<1>1. ManagerInv /\ ViewInv /\ MishapsNamed => TypeOK
  <2> SUFFICES ASSUME ManagerInv, ViewInv, MishapsNamed PROVE TypeOK
    OBVIOUS
  <2>1. Worker!TypeOK
    BY DEF ManagerInv, Keyed!KeyedInv, Keyed!TypeOK, Worker!TypeOK, Keyed!Fibers, Worker!Fibers,
           Keyed!IdleFiber, Worker!IdleFiber
  <2>2. client.pc \in {"none", "opening", "live"} /\ client.text \in Histories
        /\ client.status \in Statuses \cup {"closed"}
    BY DEF ViewInv, Views
  <2>3. /\ op.pc \in {"free", "flush", "persist", "spawn", "clearing", "closing", "deleting"}
        /\ op.kind \in {"none", "open", "attach", "restart", "clear", "close", "delete", "forget"}
        /\ op.id \in Sessions \cup {0}
    BY DEF ManagerInv, ManagerTypes, Calls
  <2>4. /\ sessions \in [Sessions -> [status : Statuses \cup {"none"}, history : Histories, seq : Nat]]
        /\ current \in Sessions \cup {0} /\ file \in Histories /\ kept \in Histories
        /\ saves \in Seq(Histories) /\ Len(saves) = values
    BY DEF ManagerInv, ManagerTypes, SessionSet
  <2>5. /\ current # 0 => sessions[current].status # "none"
        /\ op.pc \in {"persist", "spawn", "clearing"} => sessions[op.id].status # "none"
    BY DEF ViewInv, SessionsKnown
  <2> QED BY <2>1, <2>2, <2>3, <2>4, <2>5 DEF TypeOK, MishapsNamed
<1> QED BY <1>1, ManagerInvariant, ViewInvariant, MishapsInvariant, PTL

(* When no call is at work, an attached client shows the output and the      *)
(* status of the session in the map, however the snapshot, the events        *)
(* buffered before it and the live ones came together; and no running        *)
(* terminal when there is none.                                              *)
THEOREM ViewCorrect == Spec => []ViewIsHistory
<1>1. ViewInv => ViewIsHistory
  BY DEF ViewInv, ViewFollows, ViewIsHistory, Excused, Free
<1> QED BY <1>1, ViewInvariant, PTL
=============================================================================
