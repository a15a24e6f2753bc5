------------------------------- MODULE Docket -------------------------------
(***************************************************************************)
(* The life of a submitted message: the gateway's POST /messages and       *)
(* POST /messages/:id/approvals handlers, the docket worker, the pipeline  *)
(* both run (processDocketMessage, finalizePendingMessage) and the archive *)
(* tables they write.                                                      *)
(*                                                                         *)
(* Processes are the docket worker and the request handlers in flight.     *)
(* They are coroutines of one event loop: they interleave where the code   *)
(* awaits, so one action is the code between two awaited archive calls.    *)
(* Every method of SqliteArchive is synchronous, so one call is one step.  *)
(* Laws, schemas, keys and signatures decide between outcomes; each such   *)
(* decision is a nondeterministic choice.                                  *)
(***************************************************************************)
EXTENDS ArchiveLog, Sequences

CONSTANTS
    Msgs,         \* the messages that may be submitted
    NoMsg,        \* the message of an idle process
    Offices,      \* the offices that may approve
    Worker,       \* the docket worker
    Handlers,     \* the request handlers that may be in flight at once
    Dest,         \* [Msgs -> SUBSET Offices]: payload.routing.destination
    RouteTable,   \* [Msgs -> SUBSET Offices]: the routing law for the genre
    LawAcks,      \* [Msgs -> Nat]: required_acks_by_genre, 0 when not listed
    Blueprints,   \* the messages of genre 'blueprint_change'
    PbftGated,    \* the ti_definitions of a node in consort mode with pbft
    MaxRequests,  \* bound: approval requests received
    Faulty,       \* the <<process, location>> pairs whose call may throw
    MaxFaults,    \* bound: calls that throw
    MaxCrashes    \* bound: process restarts

ASSUME DocketAssumption ==
    /\ NoMsg \notin Msgs
    /\ Worker \notin Handlers
    /\ IsFiniteSet(Offices)
    /\ Dest \in [Msgs -> SUBSET Offices]
    /\ RouteTable \in [Msgs -> SUBSET Offices]
    /\ LawAcks \in [Msgs -> Nat]
    /\ MaxRequests \in Nat /\ MaxFaults \in Nat /\ MaxCrashes \in Nat

Procs == {Worker} \cup Handlers

\* stageOrder: caoni, shenfu-1 .. shenfu-4, pizhun.
Stages == 1..6

VARIABLES
    stored,     \* messages: the ids present
    docket,     \* docket: the queued message ids, oldest first
    log,        \* transitions: a log for each message
    seals,      \* seals: how many rows of each stage a message has
    approvals,  \* office_approvals: the offices that approved a message
    indexed,    \* archived_at and the law and ti_definition indexes
    amendment,  \* constitutionalAmendmentInProgress, in memory
    events,     \* the channel's log, in memory
    proc,       \* where each process is and its local variables
    requests, faults, crashes

archive == <<stored, docket, log, seals, approvals, indexed>>
memory  == <<amendment, events>>
bounds  == <<requests, faults, crashes>>
vars    == <<archive, memory, proc, bounds>>

Locations ==
    {"idle", "enqueue", "route", "review", "authorize", "tally", "finalize",
     "seal", "sealing", "snapshot", "sealFailed", "count", "append",
     "catch", "catchCount", "catchAppend", "done", "publish"}

Edge == [from: MessageState, to: MessageState]

Local == [at: Locations, msg: Msgs \cup {NoMsg}, edge: Edge, seqNo: Nat,
          sealNo: 0..6]

Event == [msg: Msgs, seq: Nat, type: {"message.rejected", "archive.appended"}]

Idle ==
    [at |-> "idle", msg |-> NoMsg, edge |-> [from |-> "pending", to |-> "pending"],
     seqNo |-> 0, sealNo |-> 0]

TypeOK ==
    /\ stored \in SUBSET Msgs
    /\ docket \in Seq(Msgs)
    /\ DOMAIN log = Msgs /\ \A m \in Msgs : IsLog(log[m])
    /\ seals \in [Msgs -> [Stages -> Nat]]
    /\ approvals \in [Msgs -> SUBSET Offices]
    /\ indexed \in SUBSET Msgs
    /\ amendment \in BOOLEAN
    /\ events \in SUBSET Event
    /\ proc \in [Procs -> Local]
    /\ requests \in Nat /\ faults \in Nat /\ crashes \in Nat

Init ==
    /\ stored = {} /\ docket = <<>>
    /\ log = [m \in Msgs |-> EmptyLog]
    /\ seals = [m \in Msgs |-> [s \in Stages |-> 0]]
    /\ approvals = [m \in Msgs |-> {}]
    /\ indexed = {}
    /\ amendment = FALSE /\ events = {}
    /\ proc = [p \in Procs |-> Idle]
    /\ requests = 0 /\ faults = 0 /\ crashes = 0

-----------------------------------------------------------------------------
(* Control of a process.                                                   *)

At(p, location) == proc[p].at = location
Msg(p) == proc[p].msg
State(m) == SnapshotState(log[m])

Goto(p, location) == proc' = [proc EXCEPT ![p].at = location]

\* appendNextTransition is called: count the rows, then append.
Propose(p, from, to) ==
    proc' = [proc EXCEPT ![p].edge = [from |-> from, to |-> to],
                         ![p].at = "count"]

\* A handler answers its client; the worker goes on to its epilogue.
Return(p) ==
    IF p = Worker THEN Goto(p, "done") ELSE proc' = [proc EXCEPT ![p] = Idle]

\* An exception that leaves the pipeline: the worker's catch block, or a 500.
Raise_mutant_swallow(p) == proc' = [proc EXCEPT ![p] = Idle]

Raise(p) ==
    IF p = Worker THEN Goto(p, "catch") ELSE proc' = [proc EXCEPT ![p] = Idle]

-----------------------------------------------------------------------------
(* POST /messages.  Admission and idempotency are decided before the       *)
(* first write; a resubmitted id fails on the primary key and changes      *)
(* nothing.                                                                *)

AppendMessage_mutant_upsert(h, m) ==
    /\ At(h, "idle")
    /\ stored' = stored \cup {m}
    /\ proc' = [proc EXCEPT ![h] = [Idle EXCEPT !.at = "enqueue", !.msg = m]]
    /\ UNCHANGED <<docket, log, seals, approvals, indexed, memory, bounds>>

AppendMessage(h, m) ==
    /\ At(h, "idle") /\ m \notin stored
    /\ stored' = stored \cup {m}
    /\ proc' = [proc EXCEPT ![h] = [Idle EXCEPT !.at = "enqueue", !.msg = m]]
    /\ UNCHANGED <<docket, log, seals, approvals, indexed, memory, bounds>>

EnqueueDocket(h) ==
    /\ At(h, "enqueue")
    /\ docket' = Append(docket, Msg(h))
    /\ proc' = [proc EXCEPT ![h] = Idle]
    /\ UNCHANGED <<stored, log, seals, approvals, indexed, memory, bounds>>

-----------------------------------------------------------------------------
(* POST /messages/:id/approvals and finalizePendingMessage.                *)

\* requiredAcksByLaw and protocolRequiredAcks, for a message sent to dest.
RequiredAcks(m, dest) ==
    IF LawAcks[m] > 0 THEN LawAcks[m]
    ELSE IF dest = {} THEN 1 ELSE Cardinality(dest)

\* The number of acknowledgements is checked only when more than one is due.
AcksMet(m, dest, approved) ==
    RequiredAcks(m, dest) > 1 => Cardinality(approved) >= RequiredAcks(m, dest)

\* The PBFT gate: without the gate, or when the proposal reaches a quorum.
PbftOutcomes(m) == IF m \in PbftGated THEN BOOLEAN ELSE {TRUE}

AddOfficeApproval(h, m, office) ==
    /\ At(h, "idle") /\ requests < MaxRequests
    /\ m \in stored /\ office \in Dest[m]
    /\ approvals' = [approvals EXCEPT ![m] = @ \cup {office}]
    /\ proc' = [proc EXCEPT ![h] = [Idle EXCEPT !.at = "tally", !.msg = m]]
    /\ requests' = requests + 1
    /\ UNCHANGED <<stored, docket, log, seals, indexed, memory, faults, crashes>>

TallyApprovals(h) ==
    /\ At(h, "tally")
    /\ IF Cardinality(approvals[Msg(h)]) < RequiredAcks(Msg(h), Dest[Msg(h)])
       THEN proc' = [proc EXCEPT ![h] = Idle]
       ELSE Goto(h, "finalize")
    /\ UNCHANGED <<archive, memory, bounds>>

\* Nothing is read of the message's state here.
FinalizePending(h) ==
    /\ At(h, "finalize")
    /\ \E committed \in PbftOutcomes(Msg(h)) :
        IF AcksMet(Msg(h), Dest[Msg(h)], approvals[Msg(h)]) /\ committed
        THEN Goto(h, "seal")
        ELSE proc' = [proc EXCEPT ![h] = Idle]
    /\ UNCHANGED <<archive, memory, bounds>>

\* The protocol law is missing, ambiguous or invalid: nothing is written.
LawRefusesApproval(h) ==
    /\ At(h, "tally") \/ At(h, "finalize")
    /\ proc' = [proc EXCEPT ![h] = Idle]
    /\ UNCHANGED <<archive, memory, bounds>>

-----------------------------------------------------------------------------
(* processDocketLoop and processDocketMessage.                             *)

\* The row is deleted before the message is processed.
DequeueDocket ==
    /\ At(Worker, "idle") /\ docket # <<>>
    /\ docket' = Tail(docket)
    /\ proc' = [proc EXCEPT ![Worker] = [Idle EXCEPT !.at = "route", !.msg = Head(docket)]]
    /\ UNCHANGED <<stored, log, seals, approvals, indexed, memory, bounds>>

\* The destinations after applyRoutingLaw; they are not written back.
Materialized(m) == IF Dest[m] = {} THEN RouteTable[m] ELSE Dest[m]

RoutingAllows(m) ==
    Dest[m] = {} \/ RouteTable[m] = {} \/ Dest[m] \subseteq RouteTable[m]

ApplyRoutingLaw ==
    /\ At(Worker, "route")
    /\ \/ RoutingAllows(Msg(Worker)) /\ Propose(Worker, "pending", "validated")
       \/ Propose(Worker, "pending", "rejected")
    /\ UNCHANGED <<archive, memory, bounds>>

\* shenfu, shenfuSchema, reviewByLaw and classificationCheck.
Review ==
    /\ At(Worker, "review")
    /\ \E to \in {"reviewed", "rejected"} : Propose(Worker, "validated", to)
    /\ UNCHANGED <<archive, memory, bounds>>

\* authorizeByLaw, requiredAcksByLaw, getOfficeApprovals and the PBFT gate.
Authorize_mutant_storedDest ==
    /\ At(Worker, "authorize")
    /\ \/ Propose(Worker, "reviewed", "rejected")
       \/ \E committed \in PbftOutcomes(Msg(Worker)) :
            IF AcksMet(Msg(Worker), Dest[Msg(Worker)], approvals[Msg(Worker)]) /\ committed
            THEN Goto(Worker, "seal")
            ELSE Propose(Worker, "reviewed", "pending")
    /\ UNCHANGED <<archive, memory, bounds>>

Authorize ==
    /\ At(Worker, "authorize")
    /\ \/ Propose(Worker, "reviewed", "rejected")
       \/ \E committed \in PbftOutcomes(Msg(Worker)) :
            IF AcksMet(Msg(Worker), Materialized(Msg(Worker)), approvals[Msg(Worker)]) /\ committed
            THEN Goto(Worker, "seal")
            ELSE Propose(Worker, "reviewed", "pending")
    /\ UNCHANGED <<archive, memory, bounds>>

-----------------------------------------------------------------------------
(* applySealsAndArchive, run by the worker and by the handlers.            *)

\* createSealChain and verifySealChain; a failure is mapped to a rejection.
CreateSealChain(p) ==
    /\ At(p, "seal")
    /\ \E location \in {"sealing", "sealFailed"} :
         proc' = [proc EXCEPT ![p].sealNo = 0, ![p].at = location]
    /\ UNCHANGED <<archive, memory, bounds>>

\* The loop over the seals is over.
ChainStored_mutant_offByOne(sealNo) == sealNo >= 5

ChainStored(sealNo) == sealNo = 6

\* seal_id holds the stage and the millisecond the seal was made: a second
\* chain of the same message may collide with a stored row.
AppendSeal(p) ==
    LET stage == proc[p].sealNo + 1 IN
    /\ At(p, "sealing")
    /\ \/ /\ seals' = [seals EXCEPT ![Msg(p)][stage] = @ + 1]
          /\ proc' = [proc EXCEPT
                        ![p].sealNo = stage,
                        ![p].at = IF ChainStored(stage) THEN "snapshot" ELSE "sealing"]
       \/ /\ seals[Msg(p)][stage] > 0
          /\ Raise(p)
          /\ UNCHANGED seals
    /\ UNCHANGED <<stored, docket, log, approvals, indexed, memory, bounds>>

\* current = snapshotState(id), then current -> authorized.
SnapshotForArchive_mutant_direct(p) ==
    /\ At(p, "snapshot")
    /\ Propose(p, State(Msg(p)), "archived")
    /\ UNCHANGED <<archive, memory, bounds>>

SnapshotForArchive(p) ==
    /\ At(p, "snapshot")
    /\ Propose(p, State(Msg(p)), "authorized")
    /\ UNCHANGED <<archive, memory, bounds>>

\* The mapped seal failure: current -> rejected.
SnapshotForReject(p) ==
    /\ At(p, "sealFailed")
    /\ Propose(p, State(Msg(p)), "rejected")
    /\ UNCHANGED <<archive, memory, bounds>>

\* appendNextTransition, first await.
CountTransitions(p) ==
    /\ At(p, "count")
    /\ proc' = [proc EXCEPT ![p].seqNo = NextSeq(log[Msg(p)]), ![p].at = "append"]
    /\ UNCHANGED <<archive, memory, bounds>>

\* What follows an appended transition.
AfterAppend(p) ==
    CASE proc[p].edge.to = "validated"  -> Goto(p, "review")
      [] proc[p].edge.to = "reviewed"   -> Goto(p, "authorize")
      [] proc[p].edge.to = "authorized" -> Propose(p, "authorized", "archived")
      [] OTHER                          -> Return(p)

\* The INSERT and, for 'archived', archived_at and indexArchivedMessage.
WriteRow(p, prev) ==
    LET m == Msg(p) edge == proc[p].edge IN
    /\ log' = [log EXCEPT ![m] = InsertRow(@, proc[p].seqNo, edge, prev)]
    /\ indexed' = IF edge.to = "archived" THEN indexed \cup {m} ELSE indexed

\* The archive links the row to the last one when the caller gives no hash.
ArchiveLink(m) == LastSeq(log[m])

\* appendNextTransition, second await.
AppendTransition(p) ==
    /\ At(p, "append")
    /\ IF Accepts(log[Msg(p)], proc[p].seqNo, proc[p].edge)
       THEN WriteRow(p, ArchiveLink(Msg(p))) /\ AfterAppend(p)
       ELSE Raise(p) /\ UNCHANGED <<log, indexed>>
    /\ UNCHANGED <<stored, docket, seals, approvals, memory, bounds>>

-----------------------------------------------------------------------------
(* The catch block of the worker and the end of its loop body.             *)

CatchSnapshot_mutant_skipPending ==
    /\ At(Worker, "catch")
    /\ proc' = [proc EXCEPT
            ![Worker].edge = [from |-> State(Msg(Worker)), to |-> "rejected"],
            ![Worker].at = IF State(Msg(Worker)) \in {"pending", "rejected"}
                           THEN "done" ELSE "catchCount"]
    /\ UNCHANGED <<archive, memory, bounds>>

CatchSnapshot ==
    /\ At(Worker, "catch")
    /\ proc' = [proc EXCEPT
            ![Worker].edge = [from |-> State(Msg(Worker)), to |-> "rejected"],
            ![Worker].at = IF State(Msg(Worker)) = "rejected" THEN "done" ELSE "catchCount"]
    /\ UNCHANGED <<archive, memory, bounds>>

CatchCount ==
    /\ At(Worker, "catchCount")
    /\ proc' = [proc EXCEPT ![Worker].seqNo = NextSeq(log[Msg(Worker)]),
                            ![Worker].at = "catchAppend"]
    /\ UNCHANGED <<archive, memory, bounds>>

\* The catch block passes the prevTransitionHash of the last row it read,
\* not the hash of that row.
CatchLink_mutant_genesis(m) == 0

CatchLink(m) == IF LastSeq(log[m]) = 0 THEN 0 ELSE log[m][LastSeq(log[m])].prev

\* When this append throws too, the item is lost: it left the docket.
CatchAppend ==
    /\ At(Worker, "catchAppend")
    /\ IF Accepts(log[Msg(Worker)], proc[Worker].seqNo, proc[Worker].edge)
       THEN WriteRow(Worker, CatchLink(Msg(Worker))) /\ Goto(Worker, "done")
       ELSE proc' = [proc EXCEPT ![Worker] = Idle] /\ UNCHANGED <<log, indexed>>
    /\ UNCHANGED <<stored, docket, seals, approvals, memory, bounds>>

\* ReliableChannel.publish drops an event whose id it has seen.
EventType_mutant_archived(to) == "archive.appended"

EventType(to) == IF to = "rejected" THEN "message.rejected" ELSE "archive.appended"

Publish(m, to) ==
    LET last == LastSeq(log[m]) IN
    events' = IF last = 0 \/ \E e \in events : e.msg = m /\ e.seq = last
              THEN events
              ELSE events \cup {[msg |-> m, seq |-> last, type |-> EventType(to)]}

\* getMessage, then the flag.  The gateway reads the flag only for blueprint
\* changes drafted by workers, which canDraftGenre has refused before.
NoteAmendment ==
    LET m == Msg(Worker) to == proc[Worker].edge.to IN
    /\ At(Worker, "done")
    /\ amendment' = IF m \in Blueprints THEN to = "pending" ELSE amendment
    /\ Goto(Worker, "publish")
    /\ UNCHANGED <<archive, events, bounds>>

\* getTransitions, then the event for the last row.
FinishItem ==
    /\ At(Worker, "publish")
    /\ Publish(Msg(Worker), proc[Worker].edge.to)
    /\ proc' = [proc EXCEPT ![Worker] = Idle]
    /\ UNCHANGED <<archive, amendment, bounds>>

-----------------------------------------------------------------------------
(* Failures.                                                               *)

\* An awaited call throws before it writes.  In the worker's catch block
\* and epilogue the exception reaches the outer catch and the item is lost.
Fault(p) ==
    /\ <<p, proc[p].at>> \in Faulty /\ faults < MaxFaults
    /\ faults' = faults + 1
    /\ ~At(p, "idle")
    /\ IF p = Worker /\ proc[p].at \in {"catch", "catchCount", "catchAppend", "done", "publish"}
       THEN proc' = [proc EXCEPT ![p] = Idle]
       ELSE Raise(p)
    /\ UNCHANGED <<archive, memory, requests, crashes>>

\* The process restarts: only the archive survives.
Restart ==
    /\ crashes < MaxCrashes
    /\ crashes' = crashes + 1
    /\ proc' = [p \in Procs |-> Idle]
    /\ amendment' = FALSE /\ events' = {}
    /\ UNCHANGED <<requests, faults>>

Crash == Restart /\ UNCHANGED archive

\* The crash falls between the INSERT of an 'archived' row and the
\* statements that index the message: they are not one transaction.
CrashInAppend(p) ==
    /\ At(p, "append") /\ proc[p].edge.to = "archived"
    /\ Accepts(log[Msg(p)], proc[p].seqNo, proc[p].edge)
    /\ Restart
    /\ log' = [log EXCEPT ![Msg(p)] =
                InsertRow(@, proc[p].seqNo, proc[p].edge, ArchiveLink(Msg(p)))]
    /\ UNCHANGED <<stored, docket, seals, approvals, indexed>>

-----------------------------------------------------------------------------

WorkerStep ==
    \/ DequeueDocket \/ ApplyRoutingLaw \/ Review \/ Authorize
    \/ CatchSnapshot \/ CatchCount \/ CatchAppend
    \/ NoteAmendment \/ FinishItem

HandlerStep(h) ==
    \/ EnqueueDocket(h) \/ TallyApprovals(h)
    \/ FinalizePending(h) \/ LawRefusesApproval(h)

PipelineStep(p) ==
    \/ CreateSealChain(p) \/ AppendSeal(p)
    \/ SnapshotForArchive(p) \/ SnapshotForReject(p)
    \/ CountTransitions(p) \/ AppendTransition(p)

Client(h) ==
    \E m \in Msgs :
        \/ AppendMessage(h, m)
        \/ \E office \in Offices : AddOfficeApproval(h, m, office)

Next ==
    \/ WorkerStep
    \/ \E h \in Handlers : Client(h) \/ HandlerStep(h)
    \/ \E p \in Procs : PipelineStep(p) \/ Fault(p) \/ CrashInAppend(p)
    \/ Crash

Spec == Init /\ [][Next]_vars

\* The event loop runs every coroutine whose awaited call has returned and
\* the worker is polled by a timer; clients, faults and crashes owe nothing.
Fairness ==
    /\ WF_vars(WorkerStep \/ PipelineStep(Worker))
    /\ \A h \in Handlers : WF_vars(HandlerStep(h) \/ PipelineStep(h))

FairSpec == Spec /\ Fairness

-----------------------------------------------------------------------------
(* Properties.                                                             *)

\* The sequence numbers of a message's transitions are 1..n without a gap,
\* although every writer counts the rows in one await and inserts in another
\* (appendNextTransition, and the worker's catch block).
ContiguousLog ==
    \A m \in Msgs : DOMAIN log[m] = 1..Cardinality(DOMAIN log[m])

\* Every row a log holds before a step, it holds after it.
RowsKept ==
    \A m \in Msgs :
        /\ DOMAIN log[m] \subseteq DOMAIN log'[m]
        /\ \A i \in DOMAIN log[m] : log'[m][i] = log[m][i]

\* A transition row, once inserted, is never replaced or removed, whatever
\* other writers, faults and restarts do (appendTransition; the paper's
\* "append-only" archive).
AppendOnly == [][RowsKept]_log

\* A message that was ever authorized has stored seals of all six stages,
\* even when finalizers race or the process restarts while a chain is being
\* stored (applySealsAndArchive stores the chain before it authorizes).
AuthorizedIsSealed ==
    \A m \in Msgs :
        Entered(log[m], "authorized") # {} => \A s \in Stages : seals[m][s] > 0

\* A message is authorized only once the offices owed an acknowledgement, after
\* routing, have approved it: by the worker or by an approval handler, which
\* reads the stored destinations (requiredAcksByLaw, protocolRequiredAcks).
AuthorizedIsApproved ==
    \A m \in Msgs :
        Entered(log[m], "authorized") # {} => AcksMet(m, Materialized(m), approvals[m])

\* Every 'archived' row follows an 'authorized' row of the same message, so
\* no interleaving archives what was not authorized first.
ArchivedWasAuthorized ==
    \A m \in Msgs : \A i \in Entered(log[m], "archived") :
        \E j \in Entered(log[m], "authorized") : j < i

\* An event on the stream tells of a decision that is in the log no later
\* than the row it names, although handlers may append between the decision
\* and the publication (the end of processDocketLoop's body).
EventsTellDecisions ==
    \A e \in events : \E i \in DOMAIN log[e.msg] :
        /\ i <= e.seq
        /\ log[e.msg][i].to \in
             (IF e.type = "message.rejected" THEN {"rejected"} ELSE {"pending", "archived"})

\* A row names the row before it, or it is a rejection that names what the
\* row before it names: the worker's catch block passes that row's own
\* prevTransitionHash on, every other writer leaves the link to the archive.
LinksFollowRows ==
    \A m \in Msgs : \A i \in DOMAIN log[m] :
        \/ log[m][i].prev = i - 1
        \/ /\ i - 1 \in DOMAIN log[m]
           /\ log[m][i].to = "rejected"
           /\ log[m][i].prev = log[m][i - 1].prev

\* The writers of transitions, which count the rows in one await and insert in
\* another, fault, restart and race one another, change a log as AtomicLog
\* says: by one row at its end that the guard allows in the state it is put
\* on.  Links are the matter of LinksFollowRows: here each row has the link
\* the archive would give it.
Relinked ==
    [m \in Msgs |-> [i \in DOMAIN log[m] |-> [log[m][i] EXCEPT !.prev = i - 1]]]

Serial == INSTANCE AtomicLog WITH Messages <- Msgs, States <- MessageState,
                                  Allowed <- AllowedTransitions, Edges <- Edge,
                                  log <- Relinked

WritersAreSerial == Serial!Spec

\* Where a message can be: on the docket, in the hands of the handler that
\* stored it or of the worker, or decided.
Queued(m) == \E i \in DOMAIN docket : docket[i] = m

InHand(m) ==
    \/ \E h \in Handlers : At(h, "enqueue") /\ Msg(h) = m
    \/ ~At(Worker, "idle") /\ Msg(Worker) = m

Tracked(m) == Queued(m) \/ InHand(m) \/ DOMAIN log[m] # {}

\* A stored message is not forgotten: it is on the docket, in hand or decided,
\* and only a call that throws or a restart can lose it, and only while it is
\* in hand (dequeueDocket deletes the row first; POST /messages stores first).
OnlyFailuresForget ==
    [][\A m \in Msgs :
          /\ m \in stored' \ stored => Tracked(m)'
          /\ Tracked(m) =>
                \/ Tracked(m)'
                \/ InHand(m) /\ <<faults, crashes>>' # <<faults, crashes>>]_vars

\* The docket is fed and emptied as Intake says, whatever the worker and the
\* handlers do with a message in between and wherever they are stopped.
Waiting == {Msg(h) : h \in {g \in Handlers : At(g, "enqueue")}}

Entry == INSTANCE Intake WITH Messages <- Msgs, waiting <- Waiting

DocketIsIntake == Entry!Spec

\* A queued message is eventually decided: some transition is recorded for
\* it (processDocketLoop), even when one call throws on the way.
QueuedIsDecided ==
    \A m \in Msgs : (\E i \in DOMAIN docket : docket[i] = m) ~> DOMAIN log[m] # {}

\* No message stays for ever in the middle of the pipeline: an exception in
\* the worker is turned into a rejection, and a lost race leaves the message
\* to the process that won it (the catch block of processDocketLoop).
NoStranding ==
    \A m \in Msgs :
        State(m) \in {"validated", "reviewed", "authorized"}
            ~> State(m) \in {"pending", "rejected", "archived"}

-----------------------------------------------------------------------------
(* The inductive invariant behind the safety properties.                   *)

\* What the locals l of a process rely on in an archive with the tables lg,
\* sl and ap: established by its earlier steps, kept by those of the others.
Appending(l, to) == l.at \in {"count", "append"} /\ l.edge.to = to

Relies(l, lg, sl, ap) ==
    /\ l.at # "idle" => l.msg \in Msgs
    /\ l.at = "idle" => l.sealNo = 0
    /\ l.at = "sealing" => l.sealNo < 6
    /\ l.at \in {"catchCount", "catchAppend"} => l.edge.to = "rejected"
    /\ l.at \in {"tally", "finalize"} => Dest[l.msg] # {}
    /\ l.at = "snapshot" \/ Appending(l, "authorized") => l.sealNo = 6
    /\ l.at \in {"seal", "sealing", "snapshot"} \/ Appending(l, "authorized")
          => AcksMet(l.msg, Materialized(l.msg), ap[l.msg])
    /\ Appending(l, "archived") => Entered(lg[l.msg], "authorized") # {}
    /\ l.at \in {"append", "catchAppend"} => l.seqNo \in 1..NextSeq(lg[l.msg])
    /\ \A s \in 1..l.sealNo : sl[l.msg][s] > 0

\* The safety properties of the archive together with what the processes rely
\* on: every step of the worker, the handlers and the environment keeps it.
DocketInv ==
    /\ TypeOK
    /\ ContiguousLog
    /\ AuthorizedIsSealed
    /\ AuthorizedIsApproved
    /\ ArchivedWasAuthorized
    /\ \A p \in Procs : Relies(proc[p], log, seals, approvals)

-----------------------------------------------------------------------------
(* Claims of the repository that the code does not keep.                   *)

\* packages/core/src/kinds.ts: `rejected: []` and `archived: []`, no
\* transition leaves a final state.
FinalStatesAreFinal ==
    [][\A m \in Msgs : State(m) \in {"rejected", "archived"} => State(m)' = State(m)]_log
=============================================================================
