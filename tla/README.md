# Wenyan in TLA+

Wenyan is a document protocol: a message is submitted to a gateway, travels
through a pipeline of reviews governed by archived laws, is sealed six times and
ends archived or rejected in an append-only archive. The same Worker serves an
application for checking documents against rules with the help of AI providers.
This directory holds TLA+ models of both, the TLC runs that check them on small
instances and TLAPS proofs of the properties that matter most. File and line references are to the
repository's `packages/`.

## 1. The system

### Components, their state and operations

| Component | Source | State | Operations |
|---|---|---|---|
| Lifecycle table | `core/src/kinds.ts` | none | `canTransition` |
| Archive (SQLite) | `archive/src/sqlite.ts` | tables messages, transitions, seals, docket, office_approvals, edict_index, ti_definition_index, idempotency, bridge queue, dead letters, checkpoints | one synchronous method per operation; `appendTransition` guards, inserts and, for `archived`, indexes |
| Archive (D1) | `archive/src/cloudflare.ts` | the same tables | the same methods, several awaited statements each |
| Pipeline | `pipeline/src/index.ts` | none of its own | `processDocketMessage`, `finalizePendingMessage`, both through `appendNextTransition` and `applySealsAndArchive` |
| Gateway | `gateway/src/index.ts` | in memory: the worker's guard, the amendment flag, quarantined actors, the channel | POST /messages, POST /messages/:id/approvals, the docket worker `processDocketLoop`, emergency, stream and mesh routes |
| Law and schema caches | `pipeline/src/law-resolver.ts`, `archive/src/ti-resolver.ts` | a map from law type or genre to value and expiry | `get`, `invalidate`, `preload` |
| Seals | `seal/src/chain.ts`, `seal/src/crypto.ts` | none | `createSealChain`, `verifySealChain` |
| Channel | `channel/src/index.ts` | a log of events, the ids seen | `publish`, replay, stream |
| Bridge | `bridge/src/gateway.ts`, `bridge/src/sync.ts` | cursor, outbound queue, outcome window, conflict log | `captureOutboundEvents`, `syncOnce`, `onInbound`, conflict resolution |
| PBFT | `consensus/src/index.ts` | message log, view number | propose, the four `on*` handlers, `commitIfThreshold` |
| Peer sync, Merkle | `archive/src/sync.ts`, `archive/src/merkle-dag.ts` | none of its own | `syncWithPeer`, roots and proofs |
| CRDT | `crdt/src/index.ts` | vector clocks, sets | merge, compare |
| Gossip | `gossip/src/index.ts` | member table, seen messages | SWIM probes, Plumtree delivery |
| Censorate, imperial works | `censorate/src`, `imperial-works/src` | site status, checkpoints, quarantine | detectors, emergency routing, role rules |
| Genesis | `genesis/src/apply.ts` | the first archived documents | `applyGenesis` |
| Server | `server/src/index.ts` | per isolate: the opened archive, the memoised start | opens the archive on the first request, wires the gateway |
| Workspaces, projects, rules, rule sets | `server/src/routes`, `server/src/utils/workspaces`, `server/src/utils/rules` | D1 tables with foreign keys and cascades | one handler per route, one to five statements each |
| Documents | `server/src/services/documents`, `server/src/queues/docx-conversion.ts` | documents, content, the conversion queue | upload, conversion, status, analysis, deletion |
| Issues and AI analysis | `server/src/routes/issues.ts`, `server/src/routes/projects/[id]/issues` | issues and their links, jobs, markers | CRUD, analyze, job status, consume |

### How they interact

POST /messages admits a message (law, schema, idempotency), stores it and puts
its id on the docket. One worker, polled by a timer, takes the oldest id and runs
the pipeline: routing law, review, authorization. If all acknowledgements are
there it stores a chain of six seals and appends `authorized` and `archived`;
otherwise it appends `reviewed -> pending` and the message waits. POST
/approvals records an office's approval and, when enough are there, runs
`finalizePendingMessage` **in the request**, beside the worker. Every transition
is appended by reading the number of rows in one await and inserting in another.
When an edict or ti_definition is archived its writer drops the cached law; the
laws decide later reviews. The worker publishes an event for each item; the
bridge polls those events and forwards the messages.

The application's handlers share only the database: a handler checks who owns the
workspace in one statement and reads or writes in later ones. An upload of a
.docx file inserts a row and sends a message to a queue, whose consumer converts
the file and updates the row. An analysis hands a prompt to an external job
runner; a later request consumes the answer and turns it into issues.

### What is hard

* Worker and approval handlers finalize the same message with no lock: they
  interleave at every await, and the only defence is the primary key
  `(message_id, seq)` and the guard of `appendTransition`.
* The worker deletes the docket row before it processes the item, and its catch
  block, which turns exceptions into rejections, itself awaits and can fail.
* The six seals, the two last transitions and the index are separate writes.
* The caches are filled by lookups that started before an invalidation.
* Routed destinations are computed but not stored; handlers read the stored ones.
* The bridge's polls overlap, its cursor moves before the event is dealt with, and
  its queue gives the same row to two runs.
* Restarts lose everything in memory.
* On D1 every statement is an await of its own: isolates migrate the same archive at
  the same time, and the guard, the hash link and the insert of a transition are
  three statements.
* The idempotency row is written last, so a retry may overlap the request it repeats.
* The application has no transactions either: access checks, clones, conversions and
  the consumption of an analysis are sequences of statements, any of which may fail
  or find that a cascade has removed what the one before it read.

`PROJECT.json` lists these hazards with their lines and the properties aimed at
them.

### What makes each component correct

* Transition log: append-only, contiguous, only known edges.
* Docket and pipeline: nothing is archived without authorization, nothing is
  authorized without its seals and acknowledgements, whatever interleaves or
  fails; a queued message is decided; none stays mid-pipeline; events tell what
  was decided; a message is forgotten only by a failure while it is in hand; the
  docket is fed once per stored message and emptied from its head.
* Law caches: a served law is stale by at most the TTL; an invalidation takes
  effect at once where the archive is synchronous.
* Bridge: what is behind the cursor is queued or published, a queued row leaves only
  published, and a row that can be delivered is delivered once the foreign systems
  recover, whatever else fails for ever.
* D1 archive: appends look atomic; migrations are restartable and may overlap; an
  archived message is indexed; an audit bundle is complete.
* Submission: a message is handed to the worker at most once, an accepted one is stored
  and queued, a queued one is taken.
* Workspaces: a workspace is read and written by its owner only; a failed clone leaves
  nothing; the personal workspace stays; the effective rules are complete.
* Documents: an uploaded .docx file is readable; an accepted one is converted or shows an
  error.
* Issues: a job marked as consumed is stored in full and once; the output asked of a provider
  fits its window; an answer is read in the format it was written in.
* Not stated here: one decision per view (PBFT); converging replicas (sync, CRDT).

## 2. Modules

| Module | Models |
|---|---|
| `ArchiveLog` | the lifecycle table and the transitions table: guard, insert, reads. Operators only. |
| `Docket` | the life of a message: submission after admission, approvals, the docket worker, the pipeline, seals, failures and restarts |
| `MCDocket` | instances of `Docket` |
| `Docket_proofs` | its inductive invariant and theorems |
| `LawCache` | the law and schema indexes, the queries for the law in force, both caches and their invalidation |
| `MCLawCache` | instances of `LawCache` |
| `LawCache_proofs` | its inductive invariant and theorems |
| `Bridge` | the outbound bridge: capture of the gateway's events, outbound queue, publication, circuit breaker, dead letters |
| `MCBridge` | instances of `Bridge` |
| `Bridge_proofs` | its inductive invariant and theorems |
| `AtomicLog` | what an archive promises the writers of transitions: an abstract specification, which `D1Archive` and `Docket` implement |
| `Intake` | what the gateway promises about a message's way onto the docket and off it: an abstract specification, which `Submission` and `Docket` implement |
| `D1Archive` | the D1 archive used by several isolates: opening, migrating, messages, transitions, indexes, the audit export; refines `AtomicLog` |
| `MCD1Archive` | its instance |
| `D1Archive_proofs` | the refinement, the chain of migrations, the back-fills, the audit bundle, the indexes, and the invariants behind them |
| `Submission` | POST /messages, idempotency, the gateway's runtime and the docket loop around `Docket` |
| `MCSubmission` | its instance |
| `Submission_proofs` | its inductive invariant and theorems |
| `Workspaces` | the routes of workspaces, projects, rules and rule sets |
| `MCWorkspaces` | its instance |
| `Workspaces_proofs` | its inductive invariant and theorems, the action properties among them |
| `Documents` | upload, conversion by the queue, status, analysis, deletion, configuration |
| `MCDocuments` | its instance |
| `Documents_proofs` | its inductive invariant and theorems |
| `Issues` | issues, analysis jobs, consumption, the token budget |
| `MCIssues` | its instance |
| `Issues_proofs` | its inductive invariant and theorems; the token budget for every window, prompt and request |

`Submission` ends where `Docket` begins (a message on the docket): `Intake` is the
interface, and each of the two is shown to implement it, the one with all that
comes before the docket, the other with all that comes after. `Docket` takes
the laws as constants and `LawCache` models how they change. `ArchiveLog` is
shared by `Docket` and `D1Archive`. `Issues` reads the effective rules in one
step; `Workspaces` has the three queries behind it.

### ArchiveLog and Docket

A log is a function from sequence numbers to rows `[from, to, prev]`, where
`prev` is the row whose hash the row carries (0 for genesis). `Accepts` is the
code's guard, read as written: `appendTransition` throws when the edge is not
allowed **and** `fromState` differs from the current state (sqlite.ts 494), so an
edge outside the table is accepted from the current state. The primary key is the other
conjunct.

A process is the worker or one request handler in flight. They are coroutines of
one event loop, so an action is the code between two awaited archive calls, and a
call of `SqliteArchive`, all of whose methods are synchronous, is one step. A
process's location names the await it stands at; its locals are the message, the
edge it is about to append, the count it read and the seals it has stored.

| Actions | Code |
|---|---|
| `AppendMessage`, `EnqueueDocket` | gateway 513-657, from the first write |
| `AddOfficeApproval`, `TallyApprovals`, `FinalizePending`, `LawRefusesApproval` | gateway 659-713, pipeline 408-455 |
| `DequeueDocket`, `ApplyRoutingLaw`, `Review`, `Authorize` | gateway 406-426, pipeline 457-555 |
| `CreateSealChain`, `AppendSeal`, `SnapshotForArchive`, `SnapshotForReject` | pipeline 375-455 |
| `CountTransitions`, `AppendTransition` | pipeline 159-168, sqlite 492-539 |
| `CatchSnapshot`, `CatchCount`, `CatchAppend` | gateway 427-453 |
| `NoteAmendment`, `FinishItem` | gateway 454-505 |
| `Fault`, `Crash`, `CrashInAppend` | any awaited call throws; restart; restart between the INSERT and the indexing |

Abstractions. What laws, schemas, keys and signatures decide is a
nondeterministic choice between the code's outcomes; destinations and approvals
are sets (a destination listed twice counts once); the laws that bear on
acknowledgements are constants, while `LawCache` models how they change. The PBFT
gate is a choice for the messages in `PbftGated`; the shipped server disables it
(server 417-422), a library user may not. The flag `amendment` is kept although
the only guard that reads it is unreachable: `canDraftGenre` refuses workers
before it. A seal's id holds its stage and millisecond, so a second chain of the
same message may or may not collide: both happen.

Refinement mappings. For `AtomicLog` a log is mapped to itself with every row
linked to the one before it (`Relinked`): how the rows are really linked is
`LinksFollowRows`, since the worker's catch block passes its predecessor's own link on. For
`Intake` the waiting messages are those of the handlers between `appendMessage` and
`enqueueDocket` (`Waiting`, in `Submission` likewise); the docket and the stored
messages map to themselves.

### LawCache

Documents are numbered; each has a key (law type or target genre), an effective
date, a precedence and the document it supersedes. `Resolve` is `getCurrentLaw`
and `getCurrentTiDefinition`: in force and not superseded by one in force, in the
SQL's order, and an error for two edicts of equal rank. A reader is a message in
process with the instant of its snapshot. With SQLite a lookup that misses is one
step (`MissSync`): the query is synchronous and the continuations that store its
answer run before another task. With D1 it is three (`Miss`, `Query`, `Fill`) and
anything may fall between; the expiry is counted from the first. A writer
archives a document and then, in a later step, invalidates; handlers invalidate
only edicts (pipeline 148-157), the worker both (gateway 458-489).

### Bridge

A run of `syncOnce` is a process; the interval timer starts them without waiting for
the one before, so several interleave where they await. The stream is a set of
numbered events with instants; the single docket worker stamps an event as it
publishes it, so later events do not carry earlier instants, but several may
share one. The queue is kept in the order in which `dequeueBridgeOutbound`
returns it: `available_at`, then id; a failed row goes behind the others, except
before rows with larger ids marked in the same millisecond. The cool-down is counted in ticks.

| Actions | Code (`bridge/src/gateway.ts`) |
|---|---|
| `Emit` | gateway 494-505, the worker publishes |
| `Poll`, `Replay`, `ReplayFails`, `TakeEvent`, `FetchForCapture`, `FetchForCaptureFails`, `EnqueueOutbound`, `CaptureFails` | `captureOutboundEvents`, 356-396 |
| `DequeueOutbound`, `TakeItem`, `FetchItemFails`, `PublishOutbound`, `Sent`, `Failed`, `PublishFails`, `Finish`, `SyncFails` | `syncOnce`, 194-245 |
| `Tick`, and `RecordSuccess`, `RecordFailure`, `IsBreakerOpen` | the breaker, 421-445 |
| `TokenExpires`, and `Unreadable` | `createBridgeToken`, 133 and 398-419; `fetchMessage`, 380-396 |
| `RestartBridge`, `RestartGateway` | cursor and breakers, or the stream, start anew |

Abstractions. `attempts`, `last_error` and `status` decide nothing (both stored
states are dequeued and no limit on attempts is applied) and are left out, as are the
command line's run for a single adapter and a row whose adapter is no longer
configured. Dead letters are a set; nothing in `syncOnce` reads them. A publication
that throws after the foreign system received it is the path from `sent` to
`failed`. The event's type is the worker's choice: a document that is only put to
pending is also announced as `archive.appended`. The gateway shows a document of
`Restricted` only to a valid token; the bridge's is made once and valid for an hour, so
from `TokenExpires` on every fetch of such a document fails until the bridge is restarted.
That is no counted failure: besides `MaxFaults` calls that happen to fail, these fail always.

### AtomicLog and D1Archive

`AtomicLog` is the contract: the rows of a message are a sequence, and one step
appends a row whose guard holds for the state it is put on and whose link is the
row before it. `D1Archive` is `cloudflare.ts` with one action per awaited
statement. An isolate is cold, opens the archive on its first request
(`FirstRequest`, `CreateTables`, `AddColumns`, `CreateIndexes` twice over, since
`createRepository` calls `initialize` and `migrate` calls it again), climbs the
versions (`ReadLatest`, `RunBackFill`, `RecordVersion`, or `RecordFirst` for a new
archive) and is then ready, or has failed for good: the start is memoised. A ready
isolate stores messages (`AppendMessage`), appends transitions
(`NumberTransition`, `CheckTransition`, `ReadPrevious`, `InsertTransition`) and,
for `archived`, marks and indexes (`MarkArchived`, `RefreshColumns`,
`IndexMessage`). `Throw` and `Evict` may fall at any statement. The audit export
reads messages, transitions and proofs in separate steps.

Abstractions. A message's row is the set of its columns that hold what they
should; a migration hash is the sequence of versions that went into it; the two
indexes are one set, since a message has one genre. The archive starts new or as a
release of version 1 or 2 left it. Writers leave the hash link to the archive; the
one that passes its own (the worker's catch block) is in `Docket`. `backfilled` and
`torn` are history: they name the appends cut short after the last back-fill that
could have picked them up.

### Submission

A request is at one of the awaits of POST /messages; `Arrive` holds the size
limits and the assignment of the runtime, `Preload` the await behind it, and
`Throw` any awaited call that rejects, after which what the calls before it did
stays. Validation, the admission law and the detectors are choices between the
code's outcomes; quarantined actors and the site's status are state. The loop
dequeues, processes and dequeues again (`Dequeue`, `Process`, `EndLoop`); `Tick` and
`GetMessage` start it. `Restart` loses the runtime, the timer, the quarantine and the
requests under way. It is one process on the SQLite archive.

### Workspaces, Documents, Issues

A request has passed authentication and validation. An action is one awaited
statement or call with the code up to the next; statements enforce the schema's
foreign keys, cascades and unique indexes. `CallThrows` and `Stop` end a request at
any await. In `Documents` the producer, the queue, the conversion service and the
file store are external: a call may succeed, be refused or throw, also after it
took effect, and a message whose worker stopped is delivered again. A JSON upload may
name any file type, with a content, a url or neither (schemas.ts 3-9, upload.ts 159-191): its
row has a `storage_key` but no file behind it, it gets no message and is answered 200, so
neither `UploadedIsReadable` nor `AcceptedIsQueued` is about it. In `Issues`
the job runner and the provider are external; the token arithmetic of
`analyze.post.ts` is translated as it is, and whether a provider is recognised
depends on the marker and, without it, on the url. A provider is called at its default
host or at a host of the user's own; a base url that names another provider's host is left
out. `wanted` and `withdrawn` are history: which findings a marker stands for, and which
jobs lost rows or links while a consumer was between the clearing and the marker, or later.

## 3. Runs

| Run | Instance | Shows |
|---|---|---|
| `docket_crash` | two messages (one routed by law and behind the gate), one handler, one throwing call anywhere, one restart anywhere | `AuthorizedIsSealed`, `AuthorizedIsApproved`, `LinksFollowRows`, `OnlyFailuresForget`; `WritersAreSerial` (the refinement of `AtomicLog`), `DocketIsIntake` (of `Intake`) |
| `docket_live` | one message to two offices, worker and two handlers, two approval requests, one throwing call in the worker's pipeline | `ArchivedWasAuthorized`, `EventsTellDecisions` under all interleavings; `QueuedIsDecided`, `NoStranding` under fairness |
| `law_d1` | an edict and a ti_definition, two readers, worker and handler, asynchronous archive | `BoundedStaleness` |
| `law_sqlite` | three edicts, one a successor and two of equal rank, synchronous archive | `TypeOK` (an ambiguity is never cached), `EdictAppliedAtOnce` |
| `bridge_run` | two overlapping runs, two documents, two events, one failing call or restart anywhere | `NoDocumentLost`, `QueueDurable` |
| `bridge_live` | two runs, two events of different adapters, a batch of one, one failing call or restart, a token that may expire at any time, one document restricted | `QueueDrains` under fairness |
| `d1_archive` | two isolates, a new or a legacy archive, two edicts, one without a law type, two rows per log beyond the legacy ones' | `AppendsAreAtomic` (the refinement of `AtomicLog`), `MigrationsChained`, `RecordedIsFilled`, `ArchivedIsIndexed`, `BundleComplete` |
| `submission` | a submission, its retry under the same key, a safety incident, a key that expires, a restart at any point | `ProcessedOnce`, `AnsweredIsQueued`, `SubmissionIsIntake` (the refinement of `Intake`), and `QueuedIsTaken` under fairness |
| `workspaces` | two users; a request of any kind, one that deletes or unlinks, one that logs in or links; one fault | `TypeOK`, `OwnerOnly`, `PersonalKept`, `FailedCloneLeavesNothing`, `EffectiveComplete` |
| `documents` | three requests, two documents, one fault | `TypeOK`, `UploadedIsReadable`, `SettledOnceAcknowledged`, `AcceptedIsQueued`, and `ConversionEnds` under fairness |
| `issues` | an analysis, a consumer and a request of any other kind, two findings over two documents and two rules, one deletion, one fault | `TypeOK`, `MarkedIsComplete`, `NoDuplicates`, `BudgetFits`, `ReadAsWritten` |

One run shows the code at odds with what the repository says:

| Run | Claim | What happens |
|---|---|---|
| `docket_final_left` | `kinds.ts`: no transition leaves `rejected` or `archived` | after two approvals a handler finalizes a pending message and stores its seals; the worker rejects the message by the routing law; the handler reads the state `rejected`, and `rejected -> authorized` is accepted (pipeline 398-399): `appendTransition` accepts any edge from the current state |

That is the shortest way. A longer one is the worker's catch block: the worker loses a race to
a handler, its append throws, and the catch block reads the state `archived` and rejects the
message from it (gateway 437-448).

Other differences met while modelling, not kept as runs.

Protocol:

* Approvals that arrive before the worker finalize a message that was never
  reviewed (pipeline 444; the protocol says reviewed before authorized).
* The worker's catch block passes its predecessor's own link, so the row it writes
  skips that row in the hash chain (gateway 448; the changelog says the archive
  adapters own the chain). `LinksFollowRows` allows exactly this.
* A message in hand when its handler or the worker fails may be forgotten: stored, but
  neither queued nor decided (gateway 612, sqlite 578). `OnlyFailuresForget` says it
  happens in no other way.
* With D1 a law looked up before an edict is archived is cached after the
  invalidation (law-resolver 87; changelog: immediate law application), and a
  ti_definition archived by an approval handler leaves the cached answer in place
  (gateway 473; rituals3: accepted after archival). `BoundedStaleness` bounds both.
* Two finalizers, or a finalizer after a failed one, store a stage's seal twice
  (pipeline 391; "exactly 6 seals" in rituals-0.5.0); a message rejected after
  archival stays in the law index; a cached law outlives its successor's effective
  date (law-resolver 65); the law is selected by `effective_date` alone, so a
  message in process can meet a law sealed after its snapshot (sqlite 756).
* An event whose document cannot be fetched is passed over for good (bridge
  365-368), which `NoDocumentLost` excepts by name (`skipped`), while rituals-0.5.0
  says the bridge must not lose documents; failed rows are retried at once, without
  backoff or limit, and out of order.
* An hour after the bridge has started its token expires (bridge 133, 398-419): restricted
  documents can no longer be fetched until it is restarted. New events about them are
  passed over; their rows fail for ever, and each failure may open the breaker of their
  adapter (206-216, 428-438), so that a readable row behind them may find it open every
  time. `QueueDrains` excepts the rows of such an adapter (`Blocked`).
* A retry that overlaps the first request, or follows one that failed between
  `appendMessage` and `putIdempotency`, is answered 500 by the primary key, while
  rituals (45-61) expects 200. A crash between `appendMessage` and `enqueueDocket`
  leaves a message that is never queued. The site's status is read several awaits
  before the message is stored.
* When `preload` fails no poll timer is ever started, although the loop's comment
  (gateway 507) counts on the next tick.
* D1: `dequeueDocket` selects and deletes in two statements, so two isolates may take
  one row; `appendSeal` can store an older `seal_chain_json` and `getMerkleRoot` an
  older root; the proofs of a bundle may have different roots; one archived edict
  without `law_type` makes the back-fill of version 3 throw at every start; `tryExec`
  swallows every error, not only an existing column; a start that failed, also by
  losing a migration race, is memoised for the isolate's life; a fresh archive stays
  at version 1 until the next isolate.

Application:

* A clone of a workspace that is deleted meanwhile answers 201 without rules; a
  project whose creation fails midway stays without its rules; PATCH of a rule deleted
  meanwhile answers 200 without a row; two overlapping first logins create two personal
  workspaces (`ensurePersonalWorkspace.ts`:13 says it creates one if there is none);
  the effective rules may name a rule that was not attached at any one instant.
* A document posted as JSON with `fileType` docx and no content shows as uploaded
  although there is nothing to read (upload.ts 171-181).
* A document stays "processing" when its message was not sent, when the failure could
  not be written, and after an analysis request; `handleDocxConversionQueue` is not
  part of this Worker's default export.
* Overlapping consumptions of one job store findings twice, or lose them for good: two
  consumers pass the check of the marker (consume.post.ts 89), one stores every finding,
  the other clears the rows (151-155) and stops, and the first writes the marker (255). The
  job is marked, has no issues and is not consumed again. `MarkedIsComplete` excepts the jobs
  whose rows were taken away in between (`withdrawn`), by another consumer, a user, another
  analysis or a cascade; that is as much as the code keeps; `replace_ai` also deletes
  issues users have marked as non-issues; a failure after the old issues were cleared
  loses them; overlapping PATCHes merge their links; PATCH with only `documentIds`
  answers 500; the issue routes have no access check; 403 is answered as 500 by
  analyze and consume.
* An issue with two documents is answered without any: the linked documents are
  selected with `and(id = a, id = b)` (routes/issues.ts 286; the comment at 277 says
  they are fetched for the response).

### Bounds

`MaxRequests`, `MaxFaults`, `MaxCrashes`, `MaxTime` bound what clients and the
environment do; nothing bounds the code. Two handlers and the worker are enough
for three concurrent writers of one log; two approvals are enough for a handler
to finalize while the other one races it. One fault and one restart
reach every await. `MaxTime` 2 with `Ttl` 1 gives entries that expire and are
read again. For the bridge, two runs and two captures give both overlapping and
repeated captures of an event; in `bridge_run`, `Batch` and `Window` 2 give a batch with a
failing and a good row and a window that is full. In `bridge_live` `Batch` and `Window` are 1:
one row that can no longer be read fills every batch it is in and its breaker opens at each
failure, so the row of the other adapter is delivered only because failed rows go behind
the others and breakers close again. The bridge's `MaxFaults` counts failing calls and
restarts of either side together: one of them, anywhere. For the D1 archive two isolates are the two writers
of a race, and `MaxRows` 2 lets a message be authorized and archived. In `submission` a
key lives no longer than the instant it was stored (`Ttl` 0, `MaxTime` 1), so it both
hits and expires. In the application's runs `MaxId`, `MaxDoc`, `MaxIssue`, `MaxJob` and
`MaxChanges` leave room for one row of each kind beside those at the start, and one
fault reaches every await. The proofs remove
the bounds for the safety properties.

Deadlock is not checked: when every message is decided and the clients are done,
the system rests.

### Fairness

`FairSpec` asks for weak fairness of the worker and of each handler: the event
loop resumes every coroutine whose awaited call has settled, SQLite calls settle
at once, and the worker is polled by a timer. Clients, faults and restarts owe
nothing. In `docket_live` only calls of the worker's pipeline throw: the code does
not promise more, since an exception in its catch block or epilogue loses the
item, and a handler's leaves the decision to another approval.

The bridge's `FairSpec` asks for weak fairness of each run and of the clock: the interval
timer starts run after run, awaited calls settle, the cool-down passes. Failures
are bounded (`MaxFaults`), which is what recovery of the foreign systems means
here; `QueueDrains` would not be true of a system that always fails. The fetches that
fail for want of a token are not among them: they fail for ever, as steps of the run.

In `Submission` the timer and the loop are weakly fair: `setInterval` keeps ticking and
awaited calls settle. Requests owe nothing, so a client may stop anywhere; what is
queued is taken as long as the timer runs, which a failed `preload` or a restart
without a further request prevents, hence the condition in `QueuedIsTaken`.

In `Documents` the consumer of each message is weakly fair: the queue delivers what it
holds, again when it was not acknowledged, and the number of failures is bounded.

## 4. Proofs

Every invariant, action property and refinement that a passing run checks is also a theorem, for every value
of the constants that the named assumption of its module allows; the theorems speak of
`Spec`, without fairness. The assumptions say what kind of thing the constants are
(types, finiteness, seed tables that keep the foreign keys), never how the system behaves.

`Docket_proofs` proves `Spec => []DocketInv` for any messages, offices, handlers,
laws and bounds. The safety properties are not inductive by themselves: that an
insertion leaves no gap depends on the count its writer has read; that an
authorization is sealed, on the seals that writer has stored; that it is
approved, on the tally that writer has made. `Relies` states what each process has
established and `DocketInv` joins it to the properties. The argument is
rely-guarantee: rows, seals and approvals only grow (lemmas on `InsertRow` and
`Accepts`), so no step falsifies what another process relies on; a stale
count is at most the next number, and the primary key refuses a smaller
one. From it follow `DocketTypeOK`, `LogIsContiguous`, `AuthorizedSealed`,
`AuthorizedApproved`, `ArchivedAuthorized` and `ArchiveAppendOnly`. `WritersRefine` puts
the log's share together: worker, handlers and catch block implement `AtomicLog`. Only
appends write a log (`OnlyAppendsWrite`); one that gets through has the next number,
because the primary key refuses a stale one, so inserting is appending
(`InsertIsAppend`), on the state the guard has just read. `LinksInOrder` proves
`LinksFollowRows` from the same classification. `DocketImplementsIntake` needs that at most one handler
stands between the two writes of a message (`OneWaiter`): `appendMessage` stores an id once.

`EventsAreTrue` and `NothingForgotten` rest
on `DecisionInv`: when the loop body is at its end, the row of the decision it
is about to publish is in the log, and rows stay; so the event, which names the last
row, comes no earlier, whatever handlers have appended since, and the worker
goes idle without a failure only with a decided message in hand. Assumptions:
`DocketAssumption` (types of the constants, finitely many offices).

`LawCache_proofs` proves `Spec => []CacheInv` (`CacheInvariant`) and from it `StalenessIsBounded` and
`LawCacheTypeOK`, for any documents, readers, writers and TTL and for both
kinds of archive. `BoundedStaleness` speaks of what is served or cached; the
strengthening adds what is still on its way: an answer was computed from an index
at least as old as its lookup, and no instant lies in the future. Its two facts
are that archiving only adds later documents and that a reading good since an
instant is good since any earlier one. `EdictTakesEffect` is about the synchronous archive
(`SyncArchive`): there no lookup waits (`NoneWaits`), so nothing is read before an
archiving and cached after its invalidation; on D1 this does happen, and the
TTL is all that bounds it. A document of another key takes no part in a lookup
(`OtherKey`), so invalidating the writer's own key is enough. Assumptions: `LawAssumption`.

`Bridge_proofs` proves `Spec => []BridgeInv` and from it `NoDocumentIsLost` and
`QueueIsDurable`, for any documents, adapters, batch size, breaker and number of
overlapping runs. That an event behind the cursor has reached its adapters depends on what
each run has in hand: the events before its current one are delivered, the
cursor it polled with was good, the adapters it has passed are queued, and a run
about to delete a row has published it (`Relies`). `Timeline` (instants follow the
numbers) makes the cursor's move sound, `UniqueIds` makes the row deleted by id the
row that was published. The argument is again that publications and rows only
stay or are replaced by publications (`Keeps`), which no step of another run
undoes. `BridgeTypeOK` follows too. Assumptions: `BridgeAssumption` (types of the constants).

`D1Archive_proofs` proves `Spec => AppendsAreAtomic`: for any isolates, messages and
edges, and with exceptions and evictions at every statement, the D1 archive
implements `AtomicLog`. That the INSERT is an append depends on what its isolate read
two statements earlier; `AppendInv` says that an append whose number is still the next
one was numbered, guarded and linked by the rows that are still there (`Current`),
because another isolate's row would have taken the number. Initial logs map to
initial logs, inserting at the next number is appending (`InsertIsAppend`), and every
other statement leaves the logs alone. Assumptions: `D1Assumption`.

On top of `AppendInv` come four invariants, one per concern. `MigrateInv`: the versions
recorded are 1..n, linked, and an isolate fills or records a version only on top
of the last row it read, which is then the version before (`MigrationsAreChained`); the
primary key refuses the slower of two isolates. `FillInv`: the statements behind an isolate have
reached every stored message, also those stored since, because inserts write the
columns themselves (`RecordedVersionsAreFilled`). `MarkInv`: `archived_at` is set behind the
archiving row and never before, so what the export has read of the messages has its row
by the time rows are read (`BundlesAreComplete`). `IndexInv` needs all of them: once a
back-fill of `archived_at` has run, a message nobody is working on is marked and,
after the statements that follow it, indexed, unless its append was cut short later
(`ArchivedAreIndexed`).

`Submission_proofs` proves `HandedOnce` and `PositiveIsQueued` for any requests, messages,
keys and key lifetimes. What was taken and what is queued are one sequence, which only
`enqueueDocket` extends. That it has no message twice depends on the requests in flight: the
primary key of messages lets one request through, so at most one stands before
`enqueueDocket` for a message, and that message was not handed over yet. A request
behind `enqueueDocket`, an idempotency row and a positive answer are about messages that
were. The same invariant gives `SubmissionImplementsIntake`: a request that queues
its message is the only one waiting with it, and no step but its own, an exception or a
restart ends its wait. Assumptions: `SubmissionAssumption`.

`Workspaces_proofs` proves `WorkspacesInv` for any users, requests, rules and seed, and from
it `WorkspacesTypeOK`, `FailedClonesLeaveNothing`, `RowsAreTheOwners` and
`PersonalWorkspacesStay`. The check of a handler is statements away from what it
writes; `Local` says what is left of it: the workspace it checked is the user's or gone,
the project it checked is in that workspace or gone, the copy a clone made is its
own and not personal. Other requests keep it so because ids are given out once and a row
keeps its owner, its kind and its workspace (`Evolve`). Each statement is
shown once to keep the tables consistent, to change nothing but its user's rows and to keep
personal workspaces (`Effect`), and each handler is put together from these.
`EffectiveRulesComplete` is an action property over three queries: `AttachedInv` says
that what stayed attached in one way since the first query is among what was found, or is
found by a query still to come. Assumptions: `WorkspacesAssumption`.

`Documents_proofs` proves `DocumentsInv`, and from it `DocumentsTypeOK`, `UploadedReadable`,
`AcknowledgedIsSettled` and `AcceptedQueued`. That an acknowledged document is settled is not
inductive: it has to be so one step earlier, when the consumer stands before
the acknowledgement (`Reported`). `UploadedReadable` is about the documents whose file was
stored (`DocxFile`): they begin as processing, and only the write of the markdown shows
them as uploaded. `Holding` says of a request that the document it is
about to enqueue is a .docx file with an id given out, or deleted. Assumptions:
`DocumentsAssumption`.

`Issues_proofs` proves `FinalBudgetFits` (slack, floor and cap of the output budget never
ask for more than the window has left, for every window, prompt and request) and
`IssuesInv`, from which follow `IssuesTypeOK`, `MarkedJobsAreComplete`,
`FindingsAreStoredOnce`, `BudgetsFit` and `AnswersAreReadAsWritten`. That no finding
is stored twice needs to know how far a request has come: while it stores a job that
nobody else stores, the rows of the job are those of the findings before the one it is at
(`Ahead`). It starts so because `replace_ai` deletes every row of origin "ai", and
a row that names a job has that origin (an incremental run makes the job contended); and two requests that store
the same job have made it contended (`Apart`). `MarkedJobsAreComplete` needs `Complete`:
unless the job is withdrawn, a request between the clearing and the marker has a linked row for each
selected finding before the one it is at (`Covered`), and a marked job for each finding it stands
for; a step either keeps the rows and links of a job (`StoredStays`) or takes some away, and
then withdraws the job if it is marked or in such a request's hands. A job keeps its provider, and the format the
url tells is the provider's. Assumptions: `IssuesAssumption`.

Model-checked only, since fairness is out of the prover's reach: `QueuedIsDecided`
and `NoStranding` of `Docket`, `QueueDrains` of `Bridge`, `ConversionEnds` of `Documents`,
`QueuedIsTaken` of `Submission`. `FinalStatesAreFinal`, the one run that ends in a
violation, is refuted by TLC.

## 5. Not modelled, and the plan

The command line and tracing are I/O around the protocol. Cryptography is
abstracted to its outcome. Sessions and tokens, AI providers, models, keys and user
settings are single statements per request or outside services. PBFT, gossip and peer
synchronization are switched off by the server in this release (server 417-430). Of the
D1 archive the seals, the docket, the approvals, the bridge's tables, the read log and
the Merkle root are not modelled; of the gateway, the read, audit, stream and mesh
routes. In order:

1. The rest of the D1 archive: docket, seals and approvals with several isolates.
2. `Pbft`: message log, views, threshold; the gate of the pipeline.
3. The bridge's inbound half with its conflict resolution; `PeerSync`: partial
   application.
4. `Crdt`: merge and order over bounded clocks; membership; genesis; checkpoints.
