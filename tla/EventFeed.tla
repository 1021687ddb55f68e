------------------------------- MODULE EventFeed -------------------------------
(***************************************************************************)
(* What the engine promises its readers about the event log, and nothing   *)
(* about commands: events are committed in batches, then latestSequence    *)
(* moves to the end of the log, then the events of the batch are published *)
(* one by one, and only then is the next batch committed.  The projections *)
(* commit with the events, so a snapshot can be ahead of latestSequence    *)
(* and of what was published, never behind.                                *)
(***************************************************************************)
EXTENDS Naturals

VARIABLES
    committed,   \* length of the event log, and sequence of every projection
    head,        \* latestSequence of the running engine
    published    \* sequence of the last event put on the PubSub

feedVars == <<committed, head, published>>

FeedInit ==
    /\ committed = 0
    /\ head = 0
    /\ published = 0

(* A transaction commits, when everything before it is published.          *)
CommitBatch ==
    /\ head = committed
    /\ published = head
    /\ committed' \in Nat
    /\ committed' > committed
    /\ UNCHANGED <<head, published>>

AdvanceHead ==
    /\ head < committed
    /\ head' = committed
    /\ UNCHANGED <<committed, published>>

PublishNext ==
    /\ published < head
    /\ published' = published + 1
    /\ UNCHANGED <<committed, head>>

(* The process dies: what it had not published is never published.         *)
Stop ==
    /\ published' = head
    /\ UNCHANGED <<committed, head>>

(* A new process loads the committed state.                                *)
Restart ==
    /\ head' = committed
    /\ published' = committed
    /\ UNCHANGED committed

FeedNext == CommitBatch \/ AdvanceHead \/ PublishNext \/ Stop \/ Restart

FeedSpec == FeedInit /\ [][FeedNext]_feedVars
=============================================================================
