----------------------------- MODULE D1Archive ------------------------------
(***************************************************************************)
(* The archive on a D1 database (packages/archive/src/cloudflare.ts) as    *)
(* the isolates of a Worker use it.  Every isolate opens the archive on    *)
(* its first request (packages/server/src/index.ts): it creates tables and *)
(* columns and climbs the ladder of schema versions.  Then it stores       *)
(* messages and appends transitions.  Every awaited statement is a step of *)
(* its own: there is no transaction, another isolate may run between any   *)
(* two statements, a statement may throw, and an isolate may be evicted    *)
(* at any await and start again.                                           *)
(*                                                                         *)
(* A message's row is reduced to the set of its columns that hold what     *)
(* they should: "archived_at" is in the set once it is not NULL, the other *)
(* ones once they were computed from the payload.  edict_index and         *)
(* ti_definition_index are one set of message ids: a message has one genre *)
(* and so belongs to one of the two.                                       *)
(***************************************************************************)
EXTENDS ArchiveLog, Sequences

CONSTANTS Isolates,     \* isolates of the Worker
          Messages,     \* message ids
          Genre,        \* genre of a message
          Keyed,        \* messages whose law_type / target_genre is a string
          Edges,        \* the [from, to] pairs the writers ask for
          MaxRows,      \* bound on the rows of a message's log
          NoJob         \* an isolate that appends nothing

ASSUME D1Assumption ==
    /\ Keyed \subseteq Messages
    /\ Genre \in [Messages -> {"edict", "ti_definition", "petition"}]
    /\ Edges \subseteq [from: MessageState, to: MessageState]
    /\ MaxRows \in Nat
    /\ NoJob \notin [msg: Messages, edge: Edges, seq: Nat, prev: Nat]

VARIABLES
    schema,             \* what initialize() has created so far
    columns,            \* columns[m]: filled columns; {} when m is not stored
    stored,             \* messages with a row
    log,                \* log[m]: rows of the transitions table
    index,              \* message ids in edict_index and ti_definition_index
    migrations,         \* archive_migrations: version -> [hash, prev]
    at,                 \* at[i]: where isolate i is, [pc, v, k]
    latest,             \* latest[i]: the migration row i read last
    job,                \* job[i]: the append isolate i is in
    bundle,             \* the audit export under way
    backfilled,         \* history: a back-fill of archived_at has run
    torn                \* history: messages whose append was cut short after

vars == <<schema, columns, stored, log, index, migrations, at, latest, job,
          bundle, backfilled, torn>>
archive == <<schema, columns, stored, log, index, migrations>>
history == <<backfilled, torn>>
-----------------------------------------------------------------------------
(***************************************************************************)
(* The schema.                                                             *)
(***************************************************************************)

\* The columns of messages that a back-fill or indexArchivedMessage fills.
Columns == {"genre", "submitted_at", "archived_at", "constitutional",
            "superseded_by", "origin_node_id", "vector_clock", "content_hash"}

\* migrate(): the statements each version runs before its row is recorded.
BackFill_mutant_indexFirst ==
    [v \in 1 .. 7 |->
        CASE v = 3 -> <<"genre", "submitted_at", "edict_index",
                        "ti_definition_index", "archived_at">>
          [] v = 4 -> <<"constitutional", "superseded_by">>
          [] v = 5 -> <<"origin_node_id", "vector_clock", "content_hash">>
          [] OTHER -> <<>>]

BackFill ==
    [v \in 1 .. 7 |->
        CASE v = 3 -> <<"genre", "submitted_at", "archived_at",
                        "edict_index", "ti_definition_index">>
          [] v = 4 -> <<"constitutional", "superseded_by">>
          [] v = 5 -> <<"origin_node_id", "vector_clock", "content_hash">>
          [] OTHER -> <<>>]

\* What a version promises of every stored message once it is recorded.
Promised(v) == ({BackFill[v][k] : k \in DOMAIN BackFill[v]} \cap Columns)
                   \ {"archived_at"}

\* migration_hash = sha256(prev : tag): a hash stands for the versions that
\* went into it.
NoMigration == [version |-> 0, hash |-> <<>>]
MigrationHash(prev, v) == Append(prev, v)

\* SELECT version, migration_hash ... ORDER BY version DESC LIMIT 1.
LatestMigration ==
    IF DOMAIN migrations = {} THEN NoMigration
    ELSE LET v == CHOOSE x \in DOMAIN migrations :
                      \A y \in DOMAIN migrations : y <= x
         IN  [version |-> v, hash |-> migrations[v].hash]

\* The version whose back-fill a reader may count on.
Recorded == LatestMigration.version

InsertMigration(v, prev) ==
    migrations' = [x \in DOMAIN migrations \cup {v} |->
                      IF x = v THEN [hash |-> MigrationHash(prev, v), prev |-> prev]
                      ELSE migrations[x]]

IsArchived(m) == Entered(log[m], "archived") # {}
HasIndex(m) == m \in Keyed /\ Genre[m] \in {"edict", "ti_definition"}
-----------------------------------------------------------------------------
(***************************************************************************)
(* Where an isolate is: "cold" before its first request, "failed" when the *)
(* memoised start has rejected, "ready" between operations.                *)
(***************************************************************************)
Starting == {"tables", "columns", "indexes", "read", "first", "fill", "record"}
Appending == {"guard", "prev", "insert"}
Archiving == {"mark", "refresh", "index"}

Go(i, pc, v, k) == at' = [at EXCEPT ![i] = [pc |-> pc, v |-> v, k |-> k]]
At(i, pc) == at[i].pc = pc

\* The next thing migrate() does when version v is behind it.
After(v) == IF v = 7 THEN [pc |-> "ready", v |-> 0, k |-> 0]
            ELSE [pc |-> "read", v |-> v + 1, k |-> 0]

Idle == [pc |-> "ready", v |-> 0, k |-> 0]
Cold == [pc |-> "cold", v |-> 0, k |-> 0]
Failed == [pc |-> "failed", v |-> 0, k |-> 0]

\* An append that ends early once its row is in the table.
Tears(i) ==
    /\ torn' = IF at[i].pc \in Archiving /\ backfilled
               THEN torn \cup {job[i].msg} ELSE torn
    /\ UNCHANGED backfilled
-----------------------------------------------------------------------------
(***************************************************************************)
(* An archive is new, or holds what a release of version 1 or 2 left: its  *)
(* messages have none of the later columns, and some of them are archived. *)
(***************************************************************************)
LegacyLog(done) ==
    IF ~done THEN EmptyLog
    ELSE [k \in 1 .. 2 |->
             IF k = 1 THEN [from |-> "pending", to |-> "authorized", prev |-> 0]
             ELSE [from |-> "authorized", to |-> "archived", prev |-> 1]]

LegacyMigrations(v) ==
    [x \in 1 .. v |-> [hash |-> [k \in 1 .. x |-> k],
                       prev |-> [k \in 1 .. x - 1 |-> k]]]

NoBundle == [pc |-> "idle", msgs |-> {}, rows |-> {}, proofs |-> {}]

Init ==
    /\ \/ /\ schema = {} /\ stored = {} /\ migrations = LegacyMigrations(0)
          /\ log = [m \in Messages |-> EmptyLog]
       \/ /\ schema = {"tables"}
          /\ stored \in SUBSET Messages
          /\ \E v \in 1 .. 2 : migrations = LegacyMigrations(v)
          /\ \E done \in SUBSET stored :
                 log = [m \in Messages |-> LegacyLog(m \in done)]
    /\ columns = [m \in Messages |-> {}]
    /\ index = {}
    /\ at = [i \in Isolates |-> Cold]
    /\ latest = [i \in Isolates |-> NoMigration]
    /\ job = [i \in Isolates |-> NoJob]
    /\ bundle = NoBundle
    /\ backfilled = FALSE
    /\ torn = {}
-----------------------------------------------------------------------------
(***************************************************************************)
(* Opening the archive: createRepository() calls initialize() and then     *)
(* migrate(), which calls initialize() again.                              *)
(***************************************************************************)
FirstRequest(i) ==
    /\ At(i, "cold")
    /\ Go(i, "tables", 0, 0)
    /\ UNCHANGED <<archive, latest, job, bundle, history>>

\* CREATE TABLE IF NOT EXISTS: the columns come with a new table only.
CreateTables(i) ==
    /\ At(i, "tables")
    /\ schema' = IF "tables" \in schema THEN schema
                 ELSE {"tables", "columns"}
    /\ Go(i, "columns", at[i].v, 0)
    /\ UNCHANGED <<columns, stored, log, index, migrations, latest, job,
                   bundle, history>>

\* tryExec swallows every error of ALTER TABLE, so a failure that is not
\* "duplicate column" goes unnoticed here.
AddColumns(i) ==
    /\ At(i, "columns")
    /\ schema' \in {schema, schema \cup {"columns"}}
    /\ Go(i, "indexes", at[i].v, 0)
    /\ UNCHANGED <<columns, stored, log, index, migrations, latest, job,
                   bundle, history>>

\* CREATE INDEX IF NOT EXISTS throws on a column that is not there.
CreateIndexes(i) ==
    /\ At(i, "indexes")
    /\ IF "columns" \in schema
       THEN /\ schema' = schema \cup {"indexes"}
            /\ IF at[i].v = 0 THEN Go(i, "tables", 1, 0)
               ELSE Go(i, "read", 2, 0)
       ELSE /\ at' = [at EXCEPT ![i] = Failed]
            /\ UNCHANGED schema
    /\ UNCHANGED <<columns, stored, log, index, migrations, latest, job,
                   bundle, history>>

\* What migrate() does about version v after it has read the last row.
Climb(i, v) ==
    IF Recorded = 0 THEN Go(i, "first", 1, 0)
    ELSE IF Recorded >= v THEN at' = [at EXCEPT ![i] = After(v)]
    ELSE IF BackFill[v] = <<>> THEN Go(i, "record", v, 0)
    ELSE Go(i, "fill", v, 1)

\* migrate() reads the last row again before every version.
ReadLatest_mutant_once(i) ==
    /\ At(i, "read")
    /\ latest' = [latest EXCEPT ![i] =
                     IF at[i].v = 2 THEN LatestMigration ELSE @]
    /\ Climb(i, at[i].v)
    /\ UNCHANGED <<archive, job, bundle, history>>

ReadLatest(i) ==
    /\ At(i, "read")
    /\ latest' = [latest EXCEPT ![i] = LatestMigration]
    /\ Climb(i, at[i].v)
    /\ UNCHANGED <<archive, job, bundle, history>>

\* A new archive gets version 1 and migrate() returns: the later versions
\* wait for the next isolate.
RecordFirst(i) ==
    /\ At(i, "first")
    /\ IF 1 \in DOMAIN migrations
       THEN /\ at' = [at EXCEPT ![i] = Failed]
            /\ UNCHANGED migrations
       ELSE /\ InsertMigration(1, <<>>)
            /\ at' = [at EXCEPT ![i] = Idle]
    /\ UNCHANGED <<schema, columns, stored, log, index, latest, job, bundle,
                   history>>

\* UPDATE messages SET archived_at = (SELECT MAX(...) ...) for the messages
\* that have none.
FillArchivedAt ==
    columns' = [m \in Messages |->
                   IF m \in stored /\ IsArchived(m)
                   THEN columns[m] \cup {"archived_at"} ELSE columns[m]]

\* INSERT ... SELECT from the archived messages of a genre.  The index has
\* NOT NULL columns: one message without a key makes the statement throw.
Indexed(genre) ==
    {m \in stored : "genre" \in columns[m] /\ "archived_at" \in columns[m]
                    /\ Genre[m] = genre}

FillStatement(s) ==
    CASE s = "archived_at" ->
             /\ FillArchivedAt
             /\ backfilled' = TRUE
             /\ UNCHANGED <<index, torn>>
      [] s \in {"edict_index", "ti_definition_index"} ->
             LET rows == Indexed(IF s = "edict_index" THEN "edict"
                                 ELSE "ti_definition")
             IN  /\ rows \subseteq Keyed
                 /\ index' = index \cup rows
                 /\ UNCHANGED <<columns, history>>
      [] OTHER ->
             /\ columns' = [m \in Messages |->
                               IF m \in stored THEN columns[m] \cup {s}
                               ELSE columns[m]]
             /\ UNCHANGED <<index, history>>

RunBackFill(i) ==
    /\ At(i, "fill")
    /\ LET v == at[i].v
           k == at[i].k
       IN  /\ FillStatement(BackFill[v][k])
           /\ IF k = Len(BackFill[v]) THEN Go(i, "record", v, 0)
              ELSE Go(i, "fill", v, k + 1)
    /\ UNCHANGED <<schema, stored, log, migrations, latest, job, bundle>>

\* INSERT INTO archive_migrations: version is the primary key, so the loser
\* of two isolates on the same version throws.
RecordVersion(i) ==
    /\ At(i, "record")
    /\ LET v == at[i].v IN
       IF v \in DOMAIN migrations
       THEN /\ at' = [at EXCEPT ![i] = Failed]
            /\ UNCHANGED migrations
       ELSE /\ InsertMigration(v, latest[i].hash)
            /\ at' = [at EXCEPT ![i] = After(v)]
    /\ UNCHANGED <<schema, columns, stored, log, index, latest, job, bundle,
                   history>>
-----------------------------------------------------------------------------
(***************************************************************************)
(* What a ready isolate does.                                              *)
(***************************************************************************)

\* appendMessage: one INSERT that fills everything but archived_at.
AppendMessage_mutant_oldColumns(i, m) ==
    /\ At(i, "ready")
    /\ m \notin stored
    /\ stored' = stored \cup {m}
    /\ columns' = [columns EXCEPT ![m] =
                      Columns \ {"archived_at", "vector_clock"}]
    /\ UNCHANGED <<schema, log, index, migrations, at, latest, job, bundle,
                   history>>

AppendMessage(i, m) ==
    /\ At(i, "ready")
    /\ m \notin stored
    /\ stored' = stored \cup {m}
    /\ columns' = [columns EXCEPT ![m] = Columns \ {"archived_at"}]
    /\ UNCHANGED <<schema, log, index, migrations, at, latest, job, bundle,
                   history>>

\* appendNextTransition: the caller numbers the row by the rows it read and
\* leaves the hash link to the archive.  (A caller that passes a link of its
\* own, the docket worker's catch block, is modelled in Docket.)
NumberTransition(i, m, edge) ==
    /\ At(i, "ready")
    /\ m \in stored
    /\ Cardinality(DOMAIN log[m]) < MaxRows
    /\ job' = [job EXCEPT ![i] = [msg |-> m, edge |-> edge,
                                  seq |-> NextSeq(log[m]), prev |-> 0]]
    /\ Go(i, "guard", 0, 0)
    /\ UNCHANGED <<archive, latest, bundle, history>>

\* appendTransition, first statement: the state, and the guard on it.
CheckTransition(i) ==
    /\ At(i, "guard")
    /\ LET state == SnapshotState(log[job[i].msg])
           edge == job[i].edge
       IN  IF CanTransition(state, edge.to) \/ state = edge.from
           THEN Go(i, "prev", 0, 0) /\ UNCHANGED job
           ELSE /\ at' = [at EXCEPT ![i] = Idle]
                /\ job' = [job EXCEPT ![i] = NoJob]
    /\ UNCHANGED <<archive, latest, bundle, history>>

\* Second statement: the hash of the last row.
ReadPrevious_mutant_markedEarly(i) ==
    /\ At(i, "prev")
    /\ job' = [job EXCEPT ![i].prev = LastSeq(log[job[i].msg])]
    /\ columns' = IF job[i].edge.to = "archived"
                  THEN [columns EXCEPT ![job[i].msg] = @ \cup {"archived_at"}]
                  ELSE columns
    /\ Go(i, "insert", 0, 0)
    /\ UNCHANGED <<schema, stored, log, index, migrations, latest, bundle,
                   history>>

ReadPrevious(i) ==
    /\ At(i, "prev")
    /\ job' = [job EXCEPT ![i].prev = LastSeq(log[job[i].msg])]
    /\ Go(i, "insert", 0, 0)
    /\ UNCHANGED <<archive, latest, bundle, history>>

\* Third statement: the INSERT, under UNIQUE(message_id, sequence_no).
InsertTransition_mutant_notUnique(i) ==
    /\ At(i, "insert")
    /\ LET j == job[i] IN
       /\ log' = [log EXCEPT ![j.msg] =
                     InsertRow(@, j.seq, j.edge, j.prev)]
       /\ IF j.edge.to = "archived" THEN Go(i, "mark", 0, 0) /\ UNCHANGED job
          ELSE /\ at' = [at EXCEPT ![i] = Idle]
               /\ job' = [job EXCEPT ![i] = NoJob]
    /\ UNCHANGED <<schema, columns, stored, index, migrations, latest,
                   bundle, history>>

InsertTransition(i) ==
    /\ At(i, "insert")
    /\ LET j == job[i] IN
       IF j.seq \in DOMAIN log[j.msg]
       THEN /\ at' = [at EXCEPT ![i] = Idle]
            /\ job' = [job EXCEPT ![i] = NoJob]
            /\ UNCHANGED log
       ELSE /\ log' = [log EXCEPT ![j.msg] =
                          InsertRow(@, j.seq, j.edge, j.prev)]
            /\ IF j.edge.to = "archived"
               THEN Go(i, "mark", 0, 0) /\ UNCHANGED job
               ELSE /\ at' = [at EXCEPT ![i] = Idle]
                    /\ job' = [job EXCEPT ![i] = NoJob]
    /\ UNCHANGED <<schema, columns, stored, index, migrations, latest,
                   bundle, history>>

\* UPDATE messages SET archived_at, then indexArchivedMessage.
MarkArchived(i) ==
    /\ At(i, "mark")
    /\ columns' = [columns EXCEPT ![job[i].msg] = @ \cup {"archived_at"}]
    /\ Go(i, "refresh", 0, 0)
    /\ UNCHANGED <<schema, stored, log, index, migrations, latest, job,
                   bundle, history>>

\* UPDATE messages SET constitutional, superseded_by.
RefreshColumns(i) ==
    /\ At(i, "refresh")
    /\ columns' = [columns EXCEPT ![job[i].msg] =
                      @ \cup {"constitutional", "superseded_by"}]
    /\ IF HasIndex(job[i].msg)
       THEN Go(i, "index", 0, 0) /\ UNCHANGED job
       ELSE /\ at' = [at EXCEPT ![i] = Idle]
            /\ job' = [job EXCEPT ![i] = NoJob]
    /\ UNCHANGED <<schema, stored, log, index, migrations, latest, bundle,
                   history>>

\* The upsert into the index of the message's genre.
IndexMessage(i) ==
    /\ At(i, "index")
    /\ index' = index \cup {job[i].msg}
    /\ at' = [at EXCEPT ![i] = Idle]
    /\ job' = [job EXCEPT ![i] = NoJob]
    /\ UNCHANGED <<schema, columns, stored, log, migrations, latest, bundle,
                   history>>
-----------------------------------------------------------------------------
(***************************************************************************)
(* Failures.                                                               *)
(***************************************************************************)

\* A statement throws.  While the archive opens, the rejection is memoised
\* and every later request of the isolate fails with it.
Throw(i) ==
    /\ at[i].pc \in Starting \cup Appending \cup Archiving
    /\ at' = [at EXCEPT ![i] = IF at[i].pc \in Starting THEN Failed ELSE Idle]
    /\ job' = [job EXCEPT ![i] = NoJob]
    /\ Tears(i)
    /\ UNCHANGED <<archive, latest, bundle>>

\* The isolate is evicted, also in the middle of a request.
Evict(i) ==
    /\ at[i].pc # "cold"
    /\ at' = [at EXCEPT ![i] = Cold]
    /\ latest' = [latest EXCEPT ![i] = NoMigration]
    /\ job' = [job EXCEPT ![i] = NoJob]
    /\ Tears(i)
    /\ UNCHANGED <<archive, bundle>>
-----------------------------------------------------------------------------
(***************************************************************************)
(* exportAuditBundle, one export at a time: the messages first, then their *)
(* transitions, then a Merkle proof per message.  The reads of seals, of   *)
(* the read log and of the checkpoint touch no other part of the bundle.   *)
(***************************************************************************)
BundleMessages(i) ==
    /\ At(i, "ready")
    /\ bundle.pc = "idle"
    /\ bundle' = [NoBundle EXCEPT !.pc = "transitions",
                                  !.msgs = {m \in stored : "archived_at" \in columns[m]}]
    /\ UNCHANGED <<archive, at, latest, job, history>>

\* The rows kept are the messages whose archiving row is among those read.
BundleTransitions ==
    /\ bundle.pc = "transitions"
    /\ bundle' = [bundle EXCEPT !.pc = "proofs",
                                !.rows = {m \in bundle.msgs : IsArchived(m)}]
    /\ UNCHANGED <<archive, at, latest, job, history>>

\* getMerkleProof(m): undefined unless m is among the archived messages.
BundleProof ==
    /\ bundle.pc = "proofs"
    /\ \E m \in bundle.msgs \ bundle.proofs :
          bundle' = [bundle EXCEPT
              !.proofs = @ \cup {x \in {m} : "archived_at" \in columns[x]}]
    /\ UNCHANGED <<archive, at, latest, job, history>>

BundleDone ==
    /\ bundle.pc = "proofs"
    /\ bundle.proofs = bundle.msgs
    /\ bundle' = NoBundle
    /\ UNCHANGED <<archive, at, latest, job, history>>
-----------------------------------------------------------------------------
Open(i) ==
    \/ FirstRequest(i) \/ CreateTables(i) \/ AddColumns(i)
    \/ CreateIndexes(i) \/ ReadLatest(i) \/ RecordFirst(i)
    \/ RunBackFill(i) \/ RecordVersion(i)

AppendTransition(i) ==
    \/ CheckTransition(i) \/ ReadPrevious(i) \/ InsertTransition(i)
    \/ MarkArchived(i) \/ RefreshColumns(i) \/ IndexMessage(i)

Next ==
    \/ \E i \in Isolates :
          \/ Open(i)
          \/ \E m \in Messages : AppendMessage(i, m)
          \/ \E m \in Messages, edge \in Edges : NumberTransition(i, m, edge)
          \/ AppendTransition(i)
          \/ BundleMessages(i)
          \/ Throw(i)
          \/ Evict(i)
    \/ BundleTransitions \/ BundleProof \/ BundleDone

Spec == Init /\ [][Next]_vars
-----------------------------------------------------------------------------
(***************************************************************************)
(* Properties.                                                             *)
(***************************************************************************)
\* The awaits of appendTransition do not show: however the statements of
\* several isolates interleave and whichever of them throws or is evicted,
\* the transitions table changes only by appends that are one step of
\* AtomicLog, the guard and the hash link included.
Atomic == INSTANCE AtomicLog WITH States <- MessageState,
                                  Allowed <- AllowedTransitions
AppendsAreAtomic == Atomic!Spec

\* Why: an append whose number is still the next one sees the rows it saw
\* when it was numbered, so its guard and its hash link still hold.
Linked(rows) ==
    /\ DOMAIN rows = 1 .. Cardinality(DOMAIN rows)
    /\ \A i \in DOMAIN rows : rows[i].prev = i - 1

Current(j, pc, rows) ==
    /\ j \in [msg: Messages, edge: Edges, seq: Nat, prev: Nat]
    /\ j.seq \in 1 .. NextSeq(rows[j.msg])
    /\ j.seq = NextSeq(rows[j.msg]) =>
          /\ pc \in {"prev", "insert"} =>
                \/ CanTransition(SnapshotState(rows[j.msg]), j.edge.to)
                \/ SnapshotState(rows[j.msg]) = j.edge.from
          /\ pc = "insert" => j.prev = LastSeq(rows[j.msg])

AppendInv ==
    /\ DOMAIN log = Messages
    /\ \A m \in Messages : IsLog(log[m]) /\ Linked(log[m])
    /\ DOMAIN at = Isolates /\ DOMAIN job = Isolates
    /\ \A i \in Isolates :
          at[i].pc \in Appending => Current(job[i], at[i].pc, log)

\* archive_migrations is a chain: versions 1..n, each made from the hash of
\* the one before it, also when several isolates migrate at once and some
\* of them stop half-way.
MigrationsChained ==
    /\ DOMAIN migrations = 1 .. Cardinality(DOMAIN migrations)
    /\ \A v \in DOMAIN migrations :
          /\ migrations[v].hash = MigrationHash(migrations[v].prev, v)
          /\ v > 1 => migrations[v].prev = migrations[v - 1].hash

\* A version row is not there before its back-fill is complete: every stored
\* message, the legacy ones and those stored while isolates migrate, has
\* the columns of every version recorded.
RecordedIsFilled ==
    \A v \in DOMAIN migrations, m \in stored : Promised(v) \subseteq columns[m]

\* From version 3 on an archived message is visible to the law and the
\* definition lookups once its append has ended, unless that append was cut
\* short after the last back-fill could have picked it up.
ArchivedIsIndexed ==
    \A m \in stored :
        (/\ Recorded >= 3
         /\ IsArchived(m)
         /\ m \notin torn
         /\ \A i \in Isolates :
               at[i].pc \in Archiving => job[i].msg # m)
        => /\ "archived_at" \in columns[m]
           /\ HasIndex(m) => m \in index

\* An audit bundle never lists a message without the row that archived it,
\* although the two are read in different statements and written in
\* different ones.
BundleComplete ==
    bundle.pc = "proofs" => bundle.rows = bundle.msgs
=============================================================================
