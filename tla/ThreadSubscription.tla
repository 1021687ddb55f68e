--------------------------- MODULE ThreadSubscription ---------------------------
(***************************************************************************)
(* One thread watched by one client: the subscribeThread handler of        *)
(* apps/server/src/ws.ts on the server, the state of                       *)
(* packages/client-runtime/src/state/threads.ts with its cached copy on    *)
(* the client, and the socket between them.  The events come from          *)
(* EventFeed, which OrchestrationEngine implements.                        *)
(*                                                                         *)
(* An event is "detail" when isThisThreadDetailEvent holds of it and       *)
(* "other" when not.  A thread's content is represented by the sequence    *)
(* numbers of the detail events folded into it, in the order of folding.   *)
(***************************************************************************)
EXTENDS Integers, Sequences

CONSTANTS
    Batches,      \* the event sequences one command may commit
    MaxGap,       \* THREAD_RESUME_MAX_GAP
    MaxLog,       \* bound: events
    MaxBreaks     \* bound: lost sessions, restarts and closed views

ASSUME ThreadAssumption ==
    /\ Batches \subseteq Seq({"detail", "other"}) \ {<<>>}
    /\ MaxGap \in Nat
    /\ MaxLog \in Nat
    /\ MaxBreaks \in Nat

VARIABLES
    log,        \* the committed events
    head,       \* latestSequence
    published,  \* sequence of the last published event
    sub,        \* the handler of the subscription and its live buffer
    wire,       \* items of the running stream, sent and not yet applied
    old,        \* items of ended streams in the client's queue, not yet applied
    client,     \* the client's state of the thread
    cache,      \* the client's persisted copy
    breaks,     \* lost sessions, restarts and closed views so far
    slips       \* history: the interleavings that can lose an event

vars == <<log, head, published, sub, wire, old, client, cache, breaks, slips>>

Feed == INSTANCE EventFeed WITH committed <- Len(log)

(* The detail events after sequence m and up to n, in order.               *)
DetailsBetween(m, n) ==
    LET details[i \in m..n] == IF i = m THEN <<>>
                               ELSE IF log[i] = "detail" THEN Append(details[i - 1], i)
                               ELSE details[i - 1]
    IN details[n]
DetailsUpTo(n) == DetailsBetween(0, n)

Nothing == [kind |-> "nothing", seq |-> 0]
SnapshotAt_Next(n) == [kind |-> "snapshot", seq |-> n + 1]   \* mutant: it names the next event
SnapshotAt(n) == [kind |-> "snapshot", seq |-> n]
EventAt(n) == [kind |-> "event", seq |-> n]
(* The marker says nothing but "synchronized"; that everything published up *)
(* to n is before it is kept for the properties.                           *)
MarkerFor(n) == [kind |-> "synchronized", seq |-> n]

NoSubscription ==
    [phase |-> "off", attached |-> FALSE, buffer |-> <<>>,
     after |-> 0, target |-> 0]
NoCopy == [data |-> FALSE, cursor |-> 0, shown |-> <<>>]

(* A client that was just opened shows its cached copy.  What the last      *)
(* marker it received stands for (told) is history.                        *)
ClientFrom(copy) ==
    [data |-> copy.data, cursor |-> copy.cursor, shown |-> copy.shown,
     status |-> "cached", awaiting |-> FALSE, pending |-> Nothing, told |-> 0]

Init ==
    /\ log = <<>>
    /\ head = 0
    /\ published = 0
    /\ sub = NoSubscription
    /\ wire = <<>>
    /\ old = <<>>
    /\ client = ClientFrom(NoCopy)
    /\ cache = NoCopy
    /\ breaks = 0
    /\ slips = {}

serverVars == <<log, head, published>>
clientVars == <<old, client, cache>>
historyVars == <<breaks, slips>>

-----------------------------------------------------------------------------
(* The engine.                                                             *)

Commit(batch) ==
    /\ Len(log) + Len(batch) <= MaxLog
    /\ log' = log \o batch
    /\ Feed!CommitBatch
    /\ UNCHANGED <<sub, wire, clientVars, historyVars>>

AdvanceHead ==
    /\ UNCHANGED log
    /\ Feed!AdvanceHead
    /\ UNCHANGED <<sub, wire, clientVars, historyVars>>

(* The forked fiber, once attached, offers the thread's detail events to   *)
(* the live buffer.                                                        *)
Publish ==
    /\ UNCHANGED log
    /\ Feed!PublishNext
    /\ sub' = IF sub.attached /\ log[published'] = "detail"
              THEN [sub EXCEPT !.buffer = Append(@, EventAt(published'))]
              ELSE sub
    /\ UNCHANGED <<wire, clientVars, historyVars>>

-----------------------------------------------------------------------------
(* The handler.                                                            *)

(* makeSubscribeInput, and with data the start of the handler: the live     *)
(* stream is forked without startImmediately, so the fiber that will       *)
(* attach it is only scheduled.  A client without data reads a snapshot    *)
(* over HTTP first.                                                        *)
Request(phase, cursor) == [NoSubscription EXCEPT !.phase = phase, !.after = cursor]
Subscribe ==
    /\ sub.phase = "off"
    /\ sub' = Request(IF client.data THEN "head" ELSE "load", client.cursor)
    /\ client' = [client EXCEPT !.awaiting = TRUE, !.status = "synchronizing"]
    /\ UNCHANGED <<serverVars, wire, old, cache, historyVars>>

(* The HTTP snapshot is applied under applyLock, and the subscription      *)
(* resumes from it.                                                        *)
LoadHttpSnapshot ==
    /\ sub.phase = "load"
    /\ client.pending = Nothing
    /\ client' = [client EXCEPT !.data = TRUE, !.cursor = Len(log), !.shown = DetailsUpTo(Len(log)),
                                !.status = IF client.awaiting THEN "synchronizing" ELSE "live"]
    /\ sub' = Request("head", Len(log))
    /\ UNCHANGED <<serverVars, wire, old, cache, historyVars>>

(* It cannot be read: the subscription starts without a cursor.            *)
MissHttpSnapshot ==
    /\ sub.phase = "load"
    /\ sub' = Request("snapshot", client.cursor)
    /\ UNCHANGED <<serverVars, wire, clientVars, historyVars>>

(* The forked fiber runs for the first time and subscribes to the PubSub.  *)
Attach ==
    /\ sub.phase \notin {"off", "load"}
    /\ ~sub.attached
    /\ sub' = [sub EXCEPT !.attached = TRUE]
    /\ UNCHANGED <<serverVars, wire, clientVars, historyVars>>

NoteLateAttach == slips' = IF sub.attached THEN slips ELSE slips \cup {"late attach"}

(* The cursor can be resumed from.                                         *)
Resumable == head - sub.after \in 0..MaxGap

(* latestSequence is read; it bounds the replay.                           *)
ReadHead ==
    /\ sub.phase = "head"
    /\ sub' = IF Resumable
              THEN [sub EXCEPT !.phase = "replay", !.target = head]
              ELSE [sub EXCEPT !.phase = "snapshot"]
    /\ NoteLateAttach
    /\ UNCHANGED <<serverVars, wire, clientVars, breaks>>

(* The detail events of the rows readEvents(after, target - after) returns.*)
CatchUp ==
    LET rows == DetailsBetween(sub.after, sub.target)
    IN [i \in 1..Len(rows) |-> EventAt(rows[i])]

(* After the catch-up or the snapshot is sent, the completion marker goes  *)
(* behind what the live buffer holds by then.                              *)
WithMarker_First(buffer, n) == <<MarkerFor(n)>> \o buffer   \* mutant: it overtakes live events
WithMarker_Missing(buffer, n) == buffer                     \* mutant: there is no marker
WithMarker(buffer, n) == Append(buffer, MarkerFor(n))

Replay ==
    /\ sub.phase = "replay"
    /\ wire' = wire \o CatchUp
    /\ LET promised == IF published > sub.target THEN published ELSE sub.target IN
        sub' = [sub EXCEPT !.phase = "live", !.buffer = WithMarker(@, promised)]
    /\ UNCHANGED <<serverVars, clientVars, historyVars>>

(* The projections, read in one transaction, are at the end of the log.    *)
SendSnapshot ==
    /\ sub.phase = "snapshot"
    /\ wire' = Append(wire, SnapshotAt(Len(log)))
    /\ sub' = [sub EXCEPT !.phase = "live", !.target = Len(log), !.buffer = WithMarker(@, Len(log))]
    /\ NoteLateAttach
    /\ UNCHANGED <<serverVars, clientVars, breaks>>

SendBuffered ==
    /\ sub.phase = "live"
    /\ sub.buffer # <<>>
    /\ wire' = Append(wire, Head(sub.buffer))
    /\ sub' = [sub EXCEPT !.buffer = Tail(@)]
    /\ UNCHANGED <<serverVars, clientVars, historyVars>>

-----------------------------------------------------------------------------
(* The client.                                                             *)

(* The event is newer than the cursor.                                     *)
Fresh_Repeats(item) == item.seq >= client.cursor    \* mutant: the last event is taken again
Fresh(item) == item.seq > client.cursor

(* applyItemLocked up to the point where lastSequence is set.  A snapshot  *)
(* is taken whatever its sequence.                                         *)
Take(item) ==
    /\ client' =
        CASE item.kind = "synchronized" ->
                [client EXCEPT !.awaiting = FALSE, !.told = item.seq,
                               !.status = IF client.data THEN "live" ELSE @]
          [] item.kind = "snapshot" ->
                [client EXCEPT !.cursor = item.seq, !.pending = item]
          [] item.kind = "event" /\ Fresh(item) ->
                [client EXCEPT !.cursor = item.seq,
                               !.pending = IF client.data THEN item ELSE Nothing]
          [] OTHER -> client
    /\ slips' = IF item.kind = "snapshot" /\ item.seq < client.cursor
                THEN slips \cup {"old snapshot"} ELSE slips

(* switchMap's output is one queue: what an ended stream left in it comes  *)
(* before the items of the next one.                                       *)
Receive ==
    /\ client.pending = Nothing
    /\ \/ old # <<>> /\ old' = Tail(old) /\ Take(Head(old)) /\ UNCHANGED wire
       \/ old = <<>> /\ wire # <<>> /\ wire' = Tail(wire) /\ Take(Head(wire)) /\ UNCHANGED old
    /\ UNCHANGED <<serverVars, sub, cache, breaks>>

(* The rest of applyItemLocked: the content is replaced or extended.  The  *)
(* fiber may yield in between.                                             *)
ApplyPending ==
    /\ client.pending # Nothing
    /\ client' =
        [client EXCEPT !.data = TRUE,
                       !.shown = IF client.pending.kind = "snapshot"
                                 THEN DetailsUpTo(client.pending.seq)
                                 ELSE Append(@, client.pending.seq),
                       !.status = IF client.awaiting THEN "synchronizing" ELSE "live",
                       !.pending = Nothing]
    /\ UNCHANGED <<serverVars, sub, wire, old, cache, historyVars>>

(* The debounced writer stores a pair of content and cursor that setThread *)
(* put in its queue, once the thread's session is settled.                 *)
Persist ==
    /\ client.data
    /\ client.pending = Nothing
    /\ cache' = [data |-> TRUE, cursor |-> client.cursor, shown |-> client.shown]
    /\ UNCHANGED <<serverVars, sub, wire, old, client, historyVars>>

-----------------------------------------------------------------------------
(* Breaks.                                                                 *)

(* The stream ends.                                                        *)
Break ==
    /\ breaks < MaxBreaks
    /\ breaks' = breaks + 1
    /\ sub' = NoSubscription
    /\ wire' = <<>>

(* switchMap interrupts the inner stream only: what that had put into the  *)
(* output queue stays there, and the rest is lost.                         *)
KeepQueued == \E n \in 0..Len(wire) : old' = old \o SubSeq(wire, 1, n)

(* The session is lost or replay or snapshot fail, which takes the status  *)
(* back, or the application comes to the foreground and subscribes again.  *)
(* The item being applied is not affected.                                 *)
LoseSession ==
    /\ sub.phase # "off"
    /\ Break
    /\ KeepQueued
    /\ client' \in {client, [client EXCEPT !.awaiting = FALSE, !.status = "cached"]}
    /\ UNCHANGED <<serverVars, cache, slips>>

(* The server process dies and a new one loads the committed state.        *)
RestartServer ==
    /\ Break
    /\ KeepQueued
    /\ UNCHANGED log
    /\ Feed!Restart
    /\ client' = [client EXCEPT !.awaiting = FALSE, !.status = "cached"]
    /\ UNCHANGED <<cache, slips>>

(* The view is closed.  Its finalizer runs before the fiber that applies   *)
(* items is interrupted, and reads content and cursor without applyLock.   *)
Close ==
    /\ Break
    /\ old' = <<>>
    /\ cache' = IF client.data
                THEN [data |-> TRUE, cursor |-> client.cursor, shown |-> client.shown]
                ELSE cache
    /\ client' = ClientFrom(cache')
    /\ slips' = IF client.data /\ client.pending # Nothing THEN slips \cup {"torn copy"} ELSE slips
    /\ UNCHANGED serverVars

(* The client process is killed, or the thread is busy when it is closed:  *)
(* nothing is stored.                                                      *)
Kill ==
    /\ Break
    /\ old' = <<>>
    /\ client' = ClientFrom(cache)
    /\ UNCHANGED <<serverVars, cache, slips>>

EngineStep == AdvanceHead \/ Publish
HandlerStep == ReadHead \/ Replay \/ SendSnapshot \/ SendBuffered
HttpStep == LoadHttpSnapshot \/ MissHttpSnapshot
ClientStep == Subscribe \/ HttpStep \/ Receive \/ ApplyPending

Next ==
    \/ \E batch \in Batches : Commit(batch)
    \/ EngineStep
    \/ Attach \/ HandlerStep
    \/ ClientStep
    \/ Persist
    \/ LoseSession \/ RestartServer \/ Close \/ Kill

Spec == Init /\ [][Next]_vars

(* The runtime resumes every fiber that can go on, and a client without a  *)
(* subscription makes a new one.                                           *)
FairSpec ==
    /\ Spec
    /\ WF_vars(EngineStep) /\ WF_vars(Attach) /\ WF_vars(HandlerStep)
    /\ WF_vars(Subscribe) /\ WF_vars(HttpStep) /\ WF_vars(Receive) /\ WF_vars(ApplyPending)

-----------------------------------------------------------------------------
(* Properties.                                                             *)

Copies == [data : BOOLEAN, cursor : 0..Len(log), shown : Seq(1..Len(log))]
Items == [kind : {"nothing", "synchronized", "snapshot", "event"}, seq : 0..Len(log)]

(* Every variable holds values of its type, and no item, cursor or promise *)
(* names an event that is not committed.                                   *)
TypeOK ==
    /\ log \in Seq({"detail", "other"}) /\ Len(log) \in 0..MaxLog
    /\ head \in 0..Len(log) /\ published \in 0..head
    /\ sub \in [phase : {"off", "load", "head", "replay", "snapshot", "live"}, attached : BOOLEAN,
                buffer : Seq(Items), after : 0..Len(log), target : 0..Len(log)]
    /\ wire \in Seq(Items) /\ old \in Seq(Items)
    /\ client \in [data : BOOLEAN, cursor : 0..Len(log), shown : Seq(1..Len(log)),
                   status : {"cached", "synchronizing", "live"}, awaiting : BOOLEAN,
                   pending : Items, told : 0..Len(log)]
    /\ cache \in Copies
    /\ breaks \in 0..MaxBreaks
    /\ slips \subseteq {"late attach", "torn copy", "old snapshot"}

(* What the client shows is exactly the thread up to its cursor: no event  *)
(* is missing, applied twice or out of order.                              *)
ContentMatchesCursor ==
    client.data /\ client.pending = Nothing => client.shown = DetailsUpTo(client.cursor)

(* ContentMatchesCursor holds over any number of lost sessions, server     *)
(* restarts, closed and killed clients, unless the live stream was attached*)
(* late, a copy was stored while an item was being applied or a snapshot   *)
(* of an ended stream was applied after a newer one read over HTTP.        *)
OnlySlipsLoseEvents == slips = {} => ContentMatchesCursor

(* A client that says "live" shows every event that was published when the *)
(* last marker it received was queued: no marker overtakes the catch-up or *)
(* the snapshot it completes nor what was buffered meanwhile, and nothing  *)
(* that comes later, an ended stream's items included, takes events away.  *)
LiveIsCaughtUp ==
    slips = {} /\ client.status = "live" =>
        \A n \in 1..client.told :
            log[n] = "detail" => \E i \in 1..Len(client.shown) : client.shown[i] = n

(* "Attach live delivery before reading either replay or snapshot state.   *)
(* Otherwise an event published while the snapshot is loading is lost."    *)
AttachLosesNothing == slips \subseteq {"late attach"} => ContentMatchesCursor

(* "Seed the resume cursor from the cached snapshot so a warm cache can    *)
(* catch up via afterSequence": the cached cursor tells how much of the    *)
(* thread the cached content holds.                                        *)
CacheCanCatchUp == slips \subseteq {"torn copy"} => ContentMatchesCursor

(* When sessions stop breaking, the client says "live" and shows the whole *)
(* thread, for good.                                                       *)
ClientCatchesUp ==
    <>[](/\ client.status = "live"
         /\ slips = {} => client.shown = DetailsUpTo(Len(log)))
=============================================================================
