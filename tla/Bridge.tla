------------------------------- MODULE Bridge -------------------------------
(***************************************************************************)
(* The outbound half of the bridge: syncOnce polls the gateway's event     *)
(* stream, queues the documents of new events for the adapters they are    *)
(* routed to, and publishes a batch of the queue to the foreign systems    *)
(* behind a circuit breaker.                                               *)
(*                                                                         *)
(* Runs of syncOnce are started by an interval timer and may overlap: they *)
(* interleave where the code awaits.  The cursor and the breakers are the  *)
(* bridge's memory, the stream is the gateway's; the queue is in SQLite.   *)
(***************************************************************************)
EXTENDS Integers, Sequences, FiniteSets

CONSTANTS
    Msgs,         \* the documents
    Adapters,     \* the adapters' ids
    Matches,      \* [Msgs -> SUBSET Adapters]: matchesRoutingTarget
    Restricted,   \* the documents the gateway shows only to a valid token
    Syncs,        \* the runs of syncOnce that may overlap
    Batch,        \* sync.batch_size
    Window,       \* outcomes kept for the breaker's rate (100 in the code)
    Threshold,    \* failure_rate_threshold, as <<numerator, denominator>>
    CoolDown,     \* cool_down_ms, in ticks
    MaxEvents,    \* bound: events on the stream
    MaxCaptures,  \* bound: replays the gateway answers
    MaxFaults     \* bound: failing calls, and restarts of the bridge or the gateway

ASSUME BridgeAssumption ==
    /\ Matches \in [Msgs -> SUBSET Adapters] /\ Restricted \subseteq Msgs
    /\ Batch \in Nat \ {0} /\ Window \in Nat \ {0}
    /\ Threshold \in Nat \X Nat /\ CoolDown \in Nat
    /\ MaxEvents \in Nat /\ MaxCaptures \in Nat
    /\ MaxFaults \in Nat

VARIABLES
    clock,      \* the latest instant of an event
    emitted,    \* how many events were published
    stream,     \* the gateway's channel log
    expired,    \* whether the bridge's token has expired
    cursor,     \* lastStreamAt
    queue,      \* bridge_outbound_queue, in the order of dequeueBridgeOutbound
    nextId,     \* its autoincrement counter
    instant,    \* the ids stamped available in the current millisecond
    published,  \* the <<adapter, document>> pairs a foreign system has received
    synced,     \* foreign_sync_state: the adapter last published to, by document
    dead,       \* bridge_dead_letter
    breaker,    \* for each adapter the outcomes, and the ticks it stays open
    sync,       \* where each run of syncOnce is and its local variables
    skipped,    \* history: events whose document could not be fetched
    captures, faults

gateway == <<clock, emitted, stream, expired>>
tables  == <<queue, nextId, instant, synced, dead>>
bounds  == <<captures, faults>>
vars    == <<gateway, cursor, tables, published, breaker, sync, skipped, bounds>>

Event == [no: Nat, at: Nat, msg: Msgs, type: {"archive.appended", "message.rejected"}]

Row == [id: Nat, adapter: Adapters, msg: Msgs]

Rows(q) == {q[i] : i \in DOMAIN q}

Local ==
    [at: {"idle", "replay", "capture", "fetch", "enqueue", "dequeue", "items",
          "publish", "sent", "failed"},
     since: Nat, events: SUBSET Event, targets: SUBSET Adapters, items: Seq(Row)]

TypeOK ==
    /\ clock \in Nat /\ emitted \in Nat /\ cursor \in Nat
    /\ stream \in SUBSET Event /\ expired \in BOOLEAN
    /\ queue \in Seq(Row) /\ nextId \in Nat /\ instant \in SUBSET Nat
    /\ published \in SUBSET (Adapters \X Msgs)
    /\ synced \in SUBSET (Adapters \X Msgs)
    /\ dead \in SUBSET (Adapters \X Msgs)
    /\ breaker \in [Adapters -> [outcomes: Seq(BOOLEAN), paused: Nat]]
    /\ \A a \in Adapters : Len(breaker[a].outcomes) <= Window
    /\ sync \in [Syncs -> Local]
    /\ skipped \in SUBSET Event
    /\ captures \in Nat /\ faults \in Nat

Idle == [at |-> "idle", since |-> 0, events |-> {}, targets |-> {}, items |-> <<>>]

Closed == [outcomes |-> <<>>, paused |-> 0]

Init ==
    /\ clock = 0 /\ emitted = 0 /\ stream = {}
    /\ cursor = 0 /\ expired = FALSE
    /\ queue = <<>> /\ nextId = 1 /\ instant = {}
    /\ published = {} /\ synced = {} /\ dead = {}
    /\ breaker = [a \in Adapters |-> Closed]
    /\ sync = [s \in Syncs |-> Idle]
    /\ skipped = {}
    /\ captures = 0 /\ faults = 0

At(s, location) == sync[s].at = location
Goto(s, location) == sync' = [sync EXCEPT ![s].at = location]

MayFail == faults < MaxFaults /\ faults' = faults + 1 /\ UNCHANGED captures

-----------------------------------------------------------------------------
(* The gateway: the docket worker publishes, the stream is replayed.       *)

Emit(m, type) ==
    /\ emitted < MaxEvents
    /\ clock' \in {clock, clock + 1} /\ emitted' = emitted + 1
    /\ stream' = stream \cup {[no |-> emitted', at |-> clock', msg |-> m, type |-> type]}
    /\ UNCHANGED <<expired, cursor, tables, published, breaker, sync, skipped, bounds>>

\* The bridge's token is made once, by the constructor, for one hour; its end
\* shows only where something is restricted.
TokenExpires ==
    /\ Restricted # {} /\ ~expired
    /\ expired' = TRUE
    /\ UNCHANGED <<clock, emitted, stream, cursor, tables, published, breaker, sync, skipped,
                   bounds>>

\* A document is asked for without the token, then with it.
Unreadable(m) == expired /\ m \in Restricted

\* ReliableChannel.replay: the events at or after an instant.
ReplayFrom_mutant_exclusive(since) == {e \in stream : e.at > since}

ReplayFrom(since) == {e \in stream : e.at >= since}

-----------------------------------------------------------------------------
(* captureOutboundEvents.                                                  *)

\* The timer fires at most once in a millisecond.
Poll(s) ==
    /\ At(s, "idle")
    /\ sync' = [sync EXCEPT ![s] = [Idle EXCEPT !.at = "replay", !.since = cursor]]
    /\ instant' = {}
    /\ UNCHANGED <<gateway, cursor, queue, nextId, synced, dead, published, breaker, skipped,
                   bounds>>

AfterEvent(rest) == IF rest = {} THEN "dequeue" ELSE "capture"

Replay(s) ==
    LET events == ReplayFrom(sync[s].since) IN
    /\ At(s, "replay") /\ captures < MaxCaptures
    /\ captures' = captures + 1
    /\ sync' = [sync EXCEPT ![s] = [Idle EXCEPT !.events = events, !.at = AfterEvent(events)]]
    /\ UNCHANGED <<gateway, cursor, tables, published, breaker, skipped, faults>>

\* The endpoint is unavailable: capture gives up, the queue is still served.
ReplayFails(s) ==
    /\ At(s, "replay")
    /\ sync' = [sync EXCEPT ![s] = [Idle EXCEPT !.at = "dequeue"]]
    /\ UNCHANGED <<gateway, cursor, tables, published, breaker, skipped, bounds>>

\* e is the event the loop of s is at.
Current(s, e) == e \in sync[s].events /\ \A f \in sync[s].events : e.no <= f.no

EventDone(s, e) ==
    LET rest == sync[s].events \ {e} IN
    sync' = [sync EXCEPT ![s].events = rest, ![s].targets = {}, ![s].at = AfterEvent(rest)]

\* The cursor moves to the event before the event is dealt with.
TakeEvent(s, e) ==
    /\ At(s, "capture") /\ Current(s, e)
    /\ cursor' = e.at
    /\ IF e.type = "archive.appended" THEN Goto(s, "fetch") ELSE EventDone(s, e)
    /\ UNCHANGED <<gateway, tables, published, breaker, skipped, bounds>>

\* fetchMessage: the document is there, or the event is passed over.
FetchForCapture(s, e) ==
    /\ At(s, "fetch") /\ Current(s, e) /\ ~Unreadable(e.msg)
    /\ IF Matches[e.msg] = {}
       THEN EventDone(s, e)
       ELSE sync' = [sync EXCEPT ![s].targets = Matches[e.msg], ![s].at = "enqueue"]
    /\ UNCHANGED <<gateway, cursor, tables, published, breaker, skipped, bounds>>

FetchForCaptureFails(s, e) ==
    /\ At(s, "fetch") /\ Current(s, e)
    /\ MayFail \/ (Unreadable(e.msg) /\ UNCHANGED bounds)
    /\ EventDone(s, e)
    /\ skipped' = skipped \cup {e}
    /\ UNCHANGED <<gateway, cursor, tables, published, breaker>>

\* A row is stamped in the millisecond of the stamp before it, or later.
Stamp(id) == instant' \in {instant \cup {id}, {id}}

\* enqueueBridgeOutbound, for one adapter after the other.
EnqueueOutbound(s, e, a) ==
    /\ At(s, "enqueue") /\ Current(s, e) /\ a \in sync[s].targets
    /\ queue' = Append(queue, [id |-> nextId, adapter |-> a, msg |-> e.msg])
    /\ nextId' = nextId + 1 /\ Stamp(nextId)
    /\ IF sync[s].targets = {a}
       THEN EventDone(s, e)
       ELSE sync' = [sync EXCEPT ![s].targets = @ \ {a}]
    /\ UNCHANGED <<gateway, cursor, published, synced, dead, breaker, skipped, bounds>>

-----------------------------------------------------------------------------
(* The queue and the breaker.                                              *)

\* dequeueBridgeOutbound takes no claim on the rows it returns.
DequeueOutbound(s) ==
    /\ At(s, "dequeue")
    /\ sync' = [sync EXCEPT
            ![s] = [Idle EXCEPT !.at = "items",
                                !.items = SubSeq(queue, 1, IF Len(queue) < Batch
                                                           THEN Len(queue) ELSE Batch)]]
    /\ UNCHANGED <<gateway, cursor, tables, published, breaker, skipped, bounds>>

Item(s) == Head(sync[s].items)

ItemDone(s) == sync' = [sync EXCEPT ![s].items = Tail(@), ![s].at = "items"]

Without(q, i) == SubSeq(q, 1, i - 1) \o SubSeq(q, i + 1, Len(q))

MarkFailed_mutant_dropped(id) ==
    /\ \/ \E i \in DOMAIN queue : queue[i].id = id /\ queue' = Without(queue, i)
       \/ (\A r \in Rows(queue) : r.id # id) /\ UNCHANGED queue
    /\ UNCHANGED instant

MarkFailed_mutant_inplace(id) == UNCHANGED <<queue, instant>>

\* markBridgeOutboundResult 'failed': available at once, behind the others;
\* among the rows stamped in the same millisecond the id decides.
MarkFailed(id) ==
    \/ /\ Stamp(id)
       /\ \E i \in DOMAIN queue :
          LET rest == Without(queue, i) IN
          /\ queue[i].id = id
          /\ \E k \in 0..Len(rest) :
             /\ \A j \in 1..Len(rest) : j > k <=> (rest[j].id \in instant' /\ rest[j].id > id)
             /\ queue' = SubSeq(rest, 1, k) \o <<queue[i]>> \o SubSeq(rest, k + 1, Len(rest))
    \/ (\A r \in Rows(queue) : r.id # id) /\ UNCHANGED <<queue, instant>>

\* markBridgeOutboundResult 'sent'; another run may have deleted the row.
MarkSent(id) ==
    /\ \/ \E i \in DOMAIN queue : queue[i].id = id /\ queue' = Without(queue, i)
       \/ (\A r \in Rows(queue) : r.id # id) /\ UNCHANGED queue
    /\ instant' = instant \ {id}

\* The last Window outcomes.
Record(a, outcome) ==
    LET all == Append(breaker[a].outcomes, outcome) IN
    IF Len(all) > Window THEN Tail(all) ELSE all

RateExceeded(outcomes) ==
    Cardinality({i \in DOMAIN outcomes : ~outcomes[i]}) * Threshold[2]
        > Threshold[1] * Len(outcomes)

RecordSuccess(a) == breaker' = [breaker EXCEPT ![a].outcomes = Record(a, TRUE)]

RecordFailure(a) ==
    breaker' = [breaker EXCEPT
        ![a].outcomes = Record(a, FALSE),
        ![a].paused = IF RateExceeded(Record(a, FALSE)) THEN CoolDown ELSE @]

IsBreakerOpen_mutant_noHalfOpen(a) == RateExceeded(breaker[a].outcomes)

IsBreakerOpen(a) == breaker[a].paused > 0

\* The cool-down passes.
Tick ==
    /\ \E a \in Adapters : breaker[a].paused > 0
    /\ breaker' = [a \in Adapters |->
                    [breaker[a] EXCEPT !.paused = IF @ > 0 THEN @ - 1 ELSE 0]]
    /\ UNCHANGED <<gateway, cursor, tables, published, sync, skipped, bounds>>

-----------------------------------------------------------------------------
(* The loop over the batch.                                                *)

Finish(s) ==
    /\ At(s, "items") /\ sync[s].items = <<>>
    /\ sync' = [sync EXCEPT ![s] = Idle]
    /\ UNCHANGED <<gateway, cursor, tables, published, breaker, skipped, bounds>>

TakeItem(s) ==
    /\ At(s, "items") /\ sync[s].items # <<>>
    /\ IF IsBreakerOpen(Item(s).adapter)
       THEN MarkFailed(Item(s).id) /\ ItemDone(s)
       ELSE Goto(s, "publish") /\ UNCHANGED <<queue, instant>>
    /\ UNCHANGED <<gateway, cursor, nextId, synced, dead, published, breaker, skipped, bounds>>

\* 'message-not-found'.
FetchItemFails(s) ==
    /\ At(s, "publish")
    /\ MayFail \/ (Unreadable(Item(s).msg) /\ UNCHANGED bounds)
    /\ MarkFailed(Item(s).id)
    /\ RecordFailure(Item(s).adapter)
    /\ ItemDone(s)
    /\ UNCHANGED <<gateway, cursor, nextId, synced, dead, published, skipped>>

\* The document is fetched and published.
PublishOutbound(s) ==
    /\ At(s, "publish") /\ ~Unreadable(Item(s).msg)
    /\ published' = published \cup {<<Item(s).adapter, Item(s).msg>>}
    /\ Goto(s, "sent")
    /\ UNCHANGED <<gateway, cursor, tables, breaker, skipped, bounds>>

\* The table's key is the document: another adapter's row is replaced.
UpsertForeignSyncState(a, m) == {p \in synced : p[2] # m} \cup {<<a, m>>}

\* upsertForeignSyncState, mark 'sent', recordSuccess: no other task of the
\* event loop runs between these synchronous calls.
Sent(s) ==
    /\ At(s, "sent")
    /\ synced' = UpsertForeignSyncState(Item(s).adapter, Item(s).msg)
    /\ MarkSent(Item(s).id)
    /\ RecordSuccess(Item(s).adapter)
    /\ ItemDone(s)
    /\ UNCHANGED <<gateway, cursor, nextId, dead, published, skipped, bounds>>

\* The catch block: mark 'failed', append a dead letter, recordFailure.
Failed(s) ==
    /\ At(s, "failed")
    /\ MarkFailed(Item(s).id)
    /\ dead' = dead \cup {<<Item(s).adapter, Item(s).msg>>}
    /\ RecordFailure(Item(s).adapter)
    /\ ItemDone(s)
    /\ UNCHANGED <<gateway, cursor, nextId, synced, published, skipped, bounds>>

-----------------------------------------------------------------------------
(* Failures.                                                               *)

\* An archive call throws during the capture, which swallows it.
CaptureFails(s) ==
    /\ At(s, "enqueue") /\ MayFail
    /\ sync' = [sync EXCEPT ![s] = [Idle EXCEPT !.at = "dequeue"]]
    /\ UNCHANGED <<gateway, cursor, tables, published, breaker, skipped>>

\* The publication throws, or one of the writes after it.
PublishFails(s) ==
    /\ MayFail
    /\ \/ At(s, "publish") /\ ~Unreadable(Item(s).msg) /\ UNCHANGED synced
       \/ /\ At(s, "sent")
          /\ synced' \in {synced, UpsertForeignSyncState(Item(s).adapter, Item(s).msg)}
    /\ Goto(s, "failed")
    /\ UNCHANGED <<gateway, cursor, queue, nextId, instant, dead, published, breaker, skipped>>

\* An exception leaves syncOnce: from the queue's query, from the mark
\* 'circuit-open', or from the catch block.
SyncFails(s) ==
    /\ MayFail
    /\ \/ At(s, "dequeue") /\ UNCHANGED <<queue, instant>>
       \/ /\ At(s, "items") /\ sync[s].items # <<>> /\ IsBreakerOpen(Item(s).adapter)
          /\ UNCHANGED <<queue, instant>>
       \/ At(s, "failed") /\ (MarkFailed(Item(s).id) \/ UNCHANGED <<queue, instant>>)
    /\ sync' = [sync EXCEPT ![s] = Idle]
    /\ UNCHANGED <<gateway, cursor, nextId, synced, dead, published, breaker, skipped>>

RestartBridge ==
    /\ MayFail
    /\ cursor' = 0 /\ expired' = FALSE
    /\ breaker' = [a \in Adapters |-> Closed]
    /\ sync' = [s \in Syncs |-> Idle]
    /\ UNCHANGED <<clock, emitted, stream, tables, published, skipped>>

\* The channel's log is in the gateway's memory.
RestartGateway ==
    /\ MayFail
    /\ stream' = {}
    /\ UNCHANGED <<clock, emitted, expired, cursor, tables, published, breaker, sync, skipped>>

-----------------------------------------------------------------------------

CaptureStep(s, e) ==
    \/ TakeEvent(s, e) \/ FetchForCapture(s, e) \/ FetchForCaptureFails(s, e)
    \/ \E a \in Adapters : EnqueueOutbound(s, e, a)

SyncStep(s) ==
    \/ Poll(s) \/ Replay(s) \/ ReplayFails(s)
    \/ \E e \in sync[s].events : CaptureStep(s, e)
    \/ DequeueOutbound(s) \/ Finish(s) \/ TakeItem(s)
    \/ FetchItemFails(s) \/ PublishOutbound(s) \/ Sent(s) \/ Failed(s)

Failure(s) == CaptureFails(s) \/ PublishFails(s) \/ SyncFails(s)

Next ==
    \/ \E m \in Msgs, type \in {"archive.appended", "message.rejected"} : Emit(m, type)
    \/ \E s \in Syncs : SyncStep(s) \/ Failure(s)
    \/ Tick \/ TokenExpires \/ RestartBridge \/ RestartGateway

Spec == Init /\ [][Next]_vars

\* The interval timer starts run after run, a started run goes on, and the
\* cool-down passes; failures and restarts owe nothing.
FairSpec == Spec /\ WF_vars(Tick) /\ \A s \in Syncs : WF_vars(SyncStep(s))

-----------------------------------------------------------------------------
(* Properties.                                                             *)

\* With queue q and publications pub, m is queued for a or has reached it.
Reached(q, pub, a, m) ==
    (\E r \in Rows(q) : r.adapter = a /\ r.msg = m) \/ <<a, m>> \in pub

\* An event to be forwarded has reached every adapter it is routed to.
Delivered(q, pub, e) ==
    e.type = "archive.appended" => \A a \in Matches[e.msg] : Reached(q, pub, a, e.msg)

\* No document is lost between the stream and the foreign systems: whatever
\* overlapping runs, failing calls and restarts do, an event behind the cursor
\* is queued or published for every adapter, unless its document could not be
\* fetched (captureOutboundEvents moves the cursor first; syncOnce claims no
\* rows; the inclusive replay makes up for both).
NoDocumentLost ==
    \A e \in stream \ skipped : e.at < cursor => Delivered(queue, published, e)

\* A row leaves bridge_outbound_queue only when its document has been
\* published to its adapter, also when two runs hold the same row and one of
\* them fails (markBridgeOutboundResult).
RowsLeavePublished ==
    \A r \in Rows(queue) :
        r \in Rows(queue)' \/ <<r.adapter, r.msg>> \in published'

QueueDurable == [][RowsLeavePublished]_queue

\* A row of a that can no longer be read fails for ever, and opens a's breaker
\* each time.
Blocked(a) == \E r \in Rows(queue) : r.adapter = a /\ Unreadable(r.msg)

Waits(id) == \E r \in Rows(queue) : r.id = id /\ ~Blocked(r.adapter)

\* The adapters an event is queued for, at most.
MostTargets ==
    CHOOSE n \in 0..Cardinality(Adapters) :
        /\ \A m \in Msgs : Cardinality(Matches[m]) <= n
        /\ \E m \in Msgs : Cardinality(Matches[m]) = n

\* Once the foreign systems recover the queue is drained: no row stays for
\* ever, although failed rows go behind the others, the breaker fails what it
\* meets while it is open, and with an expired token the rows of another
\* adapter fail again and again and fill batch after batch (syncOnce).  Only a
\* row of its own adapter that can no longer be read may hold a row back.
QueueDrains ==
    \A id \in 1..(MaxCaptures * MaxEvents * MostTargets) : Waits(id) ~> ~Waits(id)

-----------------------------------------------------------------------------
(* The inductive invariant behind NoDocumentLost and QueueDurable.         *)

Known == stream \cup UNION {sync[s].events : s \in Syncs}

\* Events carry distinct numbers, and instants in the order of the numbers.
Timeline ==
    /\ cursor <= clock /\ \A s \in Syncs : sync[s].since <= clock
    /\ \A e \in Known : e.no <= emitted /\ e.at <= clock
    /\ \A e, f \in Known : (e.no < f.no => e.at <= f.at) /\ (e.no = f.no => e = f)

\* An id names one row, in the queue or in the hands of a run.
Distinct(q) == \A i, j \in DOMAIN q : q[i].id = q[j].id => i = j

HeldOK(items, q, n) ==
    \A i \in Rows(items) : i.id < n /\ \A r \in Rows(q) : r.id = i.id => r = i

UniqueIds ==
    /\ Distinct(queue) /\ \A r \in Rows(queue) : r.id < nextId
    /\ \A s \in Syncs : HeldOK(sync[s].items, queue, nextId)

\* What a run with locals l relies on, over the events ev that count, the
\* queue q and the publications pub.
Relies(l, ev, q, pub) ==
    /\ l.at = "replay" =>
        \A f \in ev : f.at < l.since => Delivered(q, pub, f)
    /\ \A e \in l.events : \A f \in ev \ l.events : f.no < e.no => Delivered(q, pub, f)
    /\ l.at = "enqueue" =>
        \A e \in l.events : (\A f \in l.events : e.no <= f.no) =>
            \A a \in Matches[e.msg] \ l.targets : Reached(q, pub, a, e.msg)
    /\ l.at \in {"publish", "sent", "failed"} => l.items # <<>>
    /\ l.at = "sent" => <<Head(l.items).adapter, Head(l.items).msg>> \in pub

\* Every step of a run, of the gateway and of the environment keeps this.
BridgeInv ==
    /\ TypeOK
    /\ Timeline
    /\ UniqueIds
    /\ NoDocumentLost
    /\ \A s \in Syncs : Relies(sync[s], stream \ skipped, queue, published)
=============================================================================
