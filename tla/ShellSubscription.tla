--------------------------- MODULE ShellSubscription ---------------------------
(***************************************************************************)
(* The sidebar of one client: the subscribeShell handler of                *)
(* apps/server/src/ws.ts, which does not send events but the current row   *)
(* of every project and thread an event touched, coalesced over a time     *)
(* window, and the client's state in packages/client-runtime/src/state/    *)
(* shell.ts.  The events come from EventFeed.                              *)
(*                                                                         *)
(* An event activates its aggregate (created, unarchived), removes it      *)
(* (archived, deleted) or changes it.  A row is represented by the         *)
(* sequence of the last event folded into it, or 0 when there is none.     *)
(***************************************************************************)
EXTENDS Integers, Sequences, FiniteSets

CONSTANTS
    Aggregates,   \* projects and threads
    Batches,      \* the event sequences one command may commit
    MaxGap,       \* SHELL_RESUME_MAX_GAP
    MaxLog,       \* bound: events
    MaxBreaks     \* bound: ended subscriptions, lost sessions and restarts

Events == [agg : Aggregates, kind : {"activate", "change", "remove"}]

ASSUME ShellAssumption ==
    /\ Batches \subseteq Seq(Events) \ {<<>>}
    /\ MaxGap \in Nat
    /\ MaxLog \in Nat
    /\ MaxBreaks \in Nat

VARIABLES
    log,        \* the committed events
    head,       \* latestSequence
    published,  \* sequence of the last published event
    sub,        \* the handler: live buffer and the batch being turned into items
    wire,       \* items of the running stream, sent and not yet received
    old,        \* items of ended streams in the client's queue, not yet received
    client,     \* the client's rows, cursor and status
    breaks,     \* breaks so far
    stranded    \* history: aggregates a failed refetch or a rewound cursor left behind

vars == <<log, head, published, sub, wire, old, client, breaks, stranded>>

Feed == INSTANCE EventFeed WITH committed <- Len(log)

(* The row of aggregate a when the projections are at sequence n.          *)
EventsOf(a, n) == {i \in 1..n : log[i].agg = a}
Latest(S) == CHOOSE i \in S : \A j \in S : j <= i
Row(a, n) ==
    LET own == EventsOf(a, n)
        turns == {i \in own : log[i].kind # "change"}
    IN IF turns # {} /\ log[Latest(turns)].kind = "activate" THEN Latest(own) ELSE 0
Rows(n) == [a \in Aggregates |-> Row(a, n)]

(* coalesceShellEvents: the last event of each aggregate, by sequence.     *)
Coalesce_ByFirst(events) ==       \* mutant: no sort; a Map keeps the place of a key's first entry
    LET place(a) == CHOOSE i \in 1..Len(events) :
                        /\ log[events[i]].agg = a
                        /\ \A j \in 1..(i - 1) : log[events[j]].agg # a
        firsts == SelectSeq([i \in 1..Len(events) |-> i], LAMBDA i : place(log[events[i]].agg) = i)
    IN [k \in 1..Len(firsts) |->
            Latest({events[j] : j \in {j \in 1..Len(events) :
                                         log[events[j]].agg = log[events[firsts[k]]].agg}})]
Coalesce(events) ==
    LET IsLast(n) == \A j \in 1..Len(events) : log[events[j]].agg = log[n].agg => events[j] <= n
        kept[i \in 0..Len(events)] ==
            IF i = 0 THEN <<>>
            ELSE IF IsLast(events[i]) THEN Append(kept[i - 1], events[i])
            ELSE kept[i - 1]
    IN kept[Len(events)]

(* The completion marker, among sequence numbers of events.                *)
Marker == 0

NoSubscription ==
    [phase |-> "off", buffer |-> <<>>, batch |-> <<>>, next |-> 0, target |-> 0, promised |-> 0]

Init ==
    /\ log = <<>>
    /\ head = 0
    /\ published = 0
    /\ sub = NoSubscription
    /\ wire = <<>>
    /\ old = <<>>
    /\ client = [data |-> FALSE, session |-> "new", cursor |-> 0,
                 rows |-> [a \in Aggregates |-> 0], status |-> "cached", awaiting |-> FALSE,
                 told |-> 0]
    /\ breaks = 0
    /\ stranded = {}

serverVars == <<log, head, published>>
clientVars == <<old, client>>
historyVars == <<breaks, stranded>>

-----------------------------------------------------------------------------
(* The engine.                                                             *)

Commit(batch) ==
    /\ Len(log) + Len(batch) <= MaxLog
    /\ log' = log \o batch
    /\ Feed!CommitBatch
    /\ UNCHANGED <<sub, wire, clientVars, historyVars>>

AdvanceHead ==
    /\ UNCHANGED log
    /\ Feed!AdvanceHead
    /\ UNCHANGED <<sub, wire, clientVars, historyVars>>

(* The live stream of a requested subscription is attached from its start, *)
(* startImmediately, and buffers every event.                              *)
Attached == sub.phase \notin {"off", "open", "load"}
Publish ==
    /\ UNCHANGED log
    /\ Feed!PublishNext
    /\ sub' = IF Attached THEN [sub EXCEPT !.buffer = Append(@, published')] ELSE sub
    /\ UNCHANGED <<wire, clientVars, historyVars>>

-----------------------------------------------------------------------------
(* The handler.                                                            *)

(* makeSubscribeInput begins: the session becomes activeSubscriptionSession.*)
Subscribe ==
    /\ sub.phase = "off"
    /\ sub' = [NoSubscription EXCEPT !.phase = "open"]
    /\ client' = [client EXCEPT !.session = IF @ = "new" THEN "opened" ELSE @,
                                !.awaiting = TRUE, !.status = "synchronizing"]
    /\ UNCHANGED <<serverVars, wire, old, historyVars>>

(* It resumes from the cursor only when this session is                    *)
(* lastAuthoritativeSession; otherwise it loads a snapshot over HTTP.      *)
Request(cursor) == [NoSubscription EXCEPT !.phase = "head", !.next = cursor]
CanResume == client.session = "loaded"
ChooseStart ==
    /\ sub.phase = "open"
    /\ sub' = IF CanResume THEN Request(client.cursor) ELSE [sub EXCEPT !.phase = "load"]
    /\ UNCHANGED <<serverVars, wire, clientVars, historyVars>>

(* applyItem of a snapshot with rows r at sequence n.  The active session, *)
(* if it is this one, becomes authoritative.                               *)
StatusAfterItem == IF client.awaiting THEN "synchronizing" ELSE "live"
WithSnapshot(n, r) ==
    [client EXCEPT !.data = TRUE, !.session = IF @ = "new" THEN @ ELSE "loaded",
                   !.cursor = n, !.rows = r, !.status = StatusAfterItem]

LoadHttpSnapshot ==
    /\ sub.phase = "load"
    /\ client' = WithSnapshot(Len(log), Rows(Len(log)))
    /\ sub' = Request(Len(log))
    /\ stranded' = {}
    /\ UNCHANGED <<serverVars, wire, old, breaks>>

(* The snapshot cannot be loaded: the server has to send one.              *)
MissHttpSnapshot ==
    /\ sub.phase = "load"
    /\ sub' = [sub EXCEPT !.phase = "snapshot"]
    /\ UNCHANGED <<serverVars, wire, clientVars, historyVars>>

ReadHead ==
    /\ sub.phase = "head"
    /\ sub' = IF head - sub.next \in 0..MaxGap
              THEN [sub EXCEPT !.phase = "replay", !.target = head]
              ELSE [sub EXCEPT !.phase = "snapshot"]
    /\ UNCHANGED <<serverVars, wire, clientVars, historyVars>>

(* One window of readEvents(after, gap) is coalesced.                      *)
ReplayWindow(n) ==
    /\ sub.phase = "replay"
    /\ sub.batch = <<>>
    /\ n \in (sub.next + 1)..sub.target
    /\ sub' = [sub EXCEPT !.batch = Coalesce([i \in 1..(n - sub.next) |-> sub.next + i]),
                          !.next = n]
    /\ UNCHANGED <<serverVars, wire, clientVars, historyVars>>

ReplayEnds ==
    /\ sub.phase = "replay"
    /\ sub.batch = <<>>
    /\ sub.next = sub.target
    /\ sub' = [sub EXCEPT !.phase = "synchronize"]
    /\ UNCHANGED <<serverVars, wire, clientVars, historyVars>>

(* getShellSnapshot reads all projections in one transaction.              *)
SnapshotAt_Next(n) ==             \* mutant: it names the next event
    [kind |-> "snapshot", seq |-> n + 1, rows |-> Rows(n)]
SnapshotAt(n) == [kind |-> "snapshot", seq |-> n, rows |-> Rows(n)]

SendSnapshot ==
    /\ sub.phase = "snapshot"
    /\ wire' = Append(wire, SnapshotAt(Len(log)))
    /\ sub' = [sub EXCEPT !.phase = "synchronize", !.target = Len(log)]
    /\ UNCHANGED <<serverVars, clientVars, historyVars>>

(* synchronizedThenLive: the marker is queued, and everything up to it     *)
(* becomes one batch.                                                      *)
SynchronizeBatch_MarkerFirst ==   \* mutant: the marker overtakes the buffered events
    <<Marker>> \o Coalesce(sub.buffer)
SynchronizeBatch_NoMarker == Coalesce(sub.buffer)    \* mutant: no marker is queued
SynchronizeBatch == Append(Coalesce(sub.buffer), Marker)

Synchronize ==
    /\ sub.phase = "synchronize"
    /\ sub' = [sub EXCEPT !.phase = "live", !.buffer = <<>>, !.batch = SynchronizeBatch,
                          !.promised = IF published > sub.target THEN published ELSE sub.target]
    /\ UNCHANGED <<serverVars, wire, clientVars, historyVars>>

(* A window of n buffered events closes, on time or on size.               *)
LiveWindow(n) ==
    /\ sub.phase = "live"
    /\ sub.batch = <<>>
    /\ n \in 1..Len(sub.buffer)
    /\ sub' = [sub EXCEPT !.batch = Coalesce(SubSeq(sub.buffer, 1, n)),
                          !.buffer = SubSeq(@, n + 1, Len(@))]
    /\ UNCHANGED <<serverVars, wire, clientVars, historyVars>>

(* toShellStreamEvent: a removal needs no read, any other event sends the  *)
(* row as it is now, or its absence.                                       *)
ItemFor(n) ==
    [kind |-> "row", seq |-> n, agg |-> log[n].agg,
     row |-> IF log[n].kind = "remove" THEN 0 ELSE Row(log[n].agg, Len(log))]

(* The marker says nothing but "synchronized"; that everything published up *)
(* to n is before it is kept for the properties.                           *)
MarkerFor(n) == [kind |-> "synchronized", seq |-> n]

SendItem ==
    /\ sub.batch # <<>>
    /\ wire' = Append(wire, IF Head(sub.batch) = Marker
                            THEN MarkerFor(sub.promised)
                            ELSE ItemFor(Head(sub.batch)))
    /\ sub' = [sub EXCEPT !.batch = Tail(@)]
    /\ UNCHANGED <<serverVars, clientVars, historyVars>>

(* retryShellProjectionRead: both reads fail, the item is dropped.         *)
RefetchFails ==
    /\ sub.batch # <<>>
    /\ Head(sub.batch) # Marker
    /\ log[Head(sub.batch)].kind # "remove"
    /\ sub' = [sub EXCEPT !.batch = Tail(@)]
    /\ stranded' = stranded \cup {log[Head(sub.batch)].agg}
    /\ UNCHANGED <<serverVars, wire, clientVars, breaks>>

-----------------------------------------------------------------------------
(* The client.                                                             *)

TakeMarker(item) ==
    /\ item.kind = "synchronized"
    /\ client' = [client EXCEPT !.awaiting = FALSE, !.told = item.seq,
                                !.status = IF client.data THEN "live" ELSE @]
    /\ UNCHANGED stranded

(* A snapshot is taken whatever its sequence.  One of an ended stream may  *)
(* be behind what came over HTTP meanwhile and what the running stream     *)
(* resumes after: the events in between are not sent again.                *)
TakeSnapshot(item) ==
    /\ item.kind = "snapshot"
    /\ client' = WithSnapshot(item.seq, item.rows)
    /\ stranded' = stranded \cup {log[n].agg : n \in (item.seq + 1)..client.cursor}

(* A row is taken when its sequence is new; without rows it is ignored.    *)
TakeRow(item) ==
    /\ item.kind = "row"
    /\ client' = IF ~client.data THEN client
                 ELSE IF item.seq > client.cursor
                 THEN [client EXCEPT !.cursor = item.seq, !.rows[item.agg] = item.row,
                                     !.status = StatusAfterItem]
                 ELSE [client EXCEPT !.status = StatusAfterItem]
    /\ UNCHANGED stranded

(* applyItem runs on switchMap's output, one queue: what an ended stream   *)
(* left in it comes before the items of the next one.                      *)
Take(item) == TakeMarker(item) \/ TakeSnapshot(item) \/ TakeRow(item)
Receive ==
    /\ \/ old # <<>> /\ old' = Tail(old) /\ Take(Head(old)) /\ UNCHANGED wire
       \/ old = <<>> /\ wire # <<>> /\ wire' = Tail(wire) /\ Take(Head(wire)) /\ UNCHANGED old
    /\ UNCHANGED <<serverVars, sub, breaks>>

-----------------------------------------------------------------------------
(* Breaks.                                                                 *)

(* The stream ends.                                                        *)
Break ==
    /\ breaks < MaxBreaks
    /\ breaks' = breaks + 1
    /\ sub' = NoSubscription
    /\ wire' = <<>>

(* switchMap interrupts the inner stream only: what that had put into the  *)
(* output queue stays there, and the rest is lost.                         *)
KeepQueued == \E n \in 0..Len(wire) : old' = old \o SubSeq(wire, 1, n)

(* A replay or the read of a snapshot fails; behind what was sent before,  *)
(* setStreamError takes the status back.                                   *)
FailStream ==
    /\ sub.phase \in {"replay", "snapshot"}
    /\ Break
    /\ old' = old \o wire
    /\ client' = [client EXCEPT !.awaiting = FALSE, !.status = "cached"]
    /\ UNCHANGED <<serverVars, stranded>>

(* The application comes to the foreground and subscribes again.           *)
Resubscribe ==
    /\ sub.phase # "off"
    /\ Break
    /\ KeepQueued
    /\ UNCHANGED <<serverVars, client, stranded>>

(* The session is lost; the next one has opened no subscription.           *)
Disconnected == [client EXCEPT !.awaiting = FALSE, !.status = "cached", !.session = "new"]
LoseSession ==
    /\ Break
    /\ KeepQueued
    /\ client' = Disconnected
    /\ UNCHANGED <<serverVars, stranded>>

RestartServer ==
    /\ Break
    /\ KeepQueued
    /\ UNCHANGED log
    /\ Feed!Restart
    /\ client' = Disconnected
    /\ UNCHANGED stranded

EngineStep == AdvanceHead \/ Publish
HandlerStep ==
    \/ ReadHead \/ ReplayEnds \/ SendSnapshot \/ Synchronize
    \/ \E n \in 1..MaxLog : ReplayWindow(n) \/ LiveWindow(n)
    \/ SendItem
HttpStep == LoadHttpSnapshot \/ MissHttpSnapshot

Next ==
    \/ \E batch \in Batches : Commit(batch)
    \/ EngineStep
    \/ HandlerStep \/ RefetchFails
    \/ Subscribe \/ ChooseStart \/ HttpStep \/ Receive
    \/ FailStream \/ Resubscribe \/ LoseSession \/ RestartServer

Spec == Init /\ [][Next]_vars

(* The runtime resumes every fiber that can go on, and a client without a  *)
(* subscription makes a new one.                                           *)
FairSpec ==
    /\ Spec
    /\ WF_vars(EngineStep) /\ WF_vars(HandlerStep)
    /\ WF_vars(Subscribe \/ ChooseStart) /\ WF_vars(HttpStep) /\ WF_vars(Receive)

-----------------------------------------------------------------------------
(* Properties.                                                             *)

Items ==
    [kind : {"synchronized"}, seq : 0..Len(log)]
    \cup [kind : {"snapshot"}, seq : 0..Len(log), rows : [Aggregates -> 0..Len(log)]]
    \cup [kind : {"row"}, seq : 1..Len(log), agg : Aggregates, row : 0..Len(log)]

(* Every variable holds values of its type, and no item, cursor or promise *)
(* names an event that is not committed.                                   *)
TypeOK ==
    /\ log \in Seq(Events)
    /\ head \in 0..Len(log) /\ published \in 0..head
    /\ sub \in [phase : {"off", "open", "load", "head", "replay", "snapshot", "synchronize", "live"},
                buffer : Seq(1..Len(log)), batch : Seq(0..Len(log)),
                next : 0..Len(log), target : 0..Len(log), promised : 0..Len(log)]
    /\ wire \in Seq(Items) /\ old \in Seq(Items)
    /\ client \in [data : BOOLEAN, session : {"new", "opened", "loaded"}, cursor : 0..Len(log),
                   rows : [Aggregates -> 0..Len(log)],
                   status : {"cached", "synchronizing", "live"}, awaiting : BOOLEAN,
                   told : 0..Len(log)]
    /\ breaks \in 0..MaxBreaks
    /\ stranded \subseteq Aggregates

(* No stale row is stranded behind the cursor: when a row differs from its *)
(* projection, an event of the same aggregate lies after the cursor, so    *)
(* the subscription, or the next one that resumes, will send the row again.*)
(* A refetch that failed twice makes an exception for its own aggregate,   *)
(* and a snapshot of an ended stream for those it rewinds the cursor over. *)
StaleRowsAreAhead ==
    client.data =>
        \A a \in Aggregates \ stranded :
            client.rows[a] # Row(a, Len(log)) => \E n \in (client.cursor + 1)..Len(log) : log[n].agg = a

(* "Anything buffered while snapshot/replay work was in flight is          *)
(* delivered before the client is told it is synchronized": a row of a     *)
(* live sidebar is as new as everything published when the last marker it  *)
(* received was queued, and nothing that comes later, items of an ended    *)
(* stream included, takes it back.                                         *)
LiveRowsKeepPromise ==
    client.status = "live" =>
        \A a \in Aggregates \ stranded :
            \E n \in client.told..Len(log) : client.rows[a] = Row(a, n)

(* When sessions stop breaking, the sidebar is live and current for good.  *)
SidebarCatchesUp ==
    <>[](/\ client.status = "live"
         /\ \A a \in Aggregates \ stranded : client.rows[a] = Row(a, Len(log)))
=============================================================================
