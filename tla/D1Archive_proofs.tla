-------------------------- MODULE D1Archive_proofs --------------------------
(***************************************************************************)
(* Proof that the transitions table of the D1 archive implements the       *)
(* atomic log, for every set of isolates and messages and every kind of    *)
(* append: the INSERT of a transition is one step of AtomicLog and every   *)
(* other statement leaves the logs alone.                                  *)
(***************************************************************************)
EXTENDS D1Archive, TLAPS, FiniteSetTheorems, SequenceTheorems

-----------------------------------------------------------------------------
(* Facts about one log.                                                    *)

\* The last row of a linked log carries the number of rows.
LEMMA LastOfLinked ==
    ASSUME NEW f, IsLog(f), Linked(f)
    PROVE  /\ Cardinality(DOMAIN f) \in Nat
           /\ DOMAIN f = 1 .. Cardinality(DOMAIN f)
           /\ LastSeq(f) = Cardinality(DOMAIN f)
           /\ NextSeq(f) = LastSeq(f) + 1
<1> DEFINE n == Cardinality(DOMAIN f)
<1>1. n \in Nat
  BY FS_CardinalityType DEF IsLog
<1>2. DOMAIN f = 1 .. n
  BY DEF Linked
<1>3. CASE DOMAIN f = {}
  <2>1. n = 0
    BY <1>3, FS_EmptySet
  <2>2. QED
    BY <1>1, <1>2, <1>3, <2>1 DEF LastSeq, NextSeq
<1>4. CASE DOMAIN f # {}
  <2>1. n \in DOMAIN f /\ \A j \in DOMAIN f : j <= n
    BY <1>1, <1>2, <1>4
  <2>2. \A i \in DOMAIN f : (\A j \in DOMAIN f : j <= i) => i = n
    BY <1>1, <1>2, <2>1
  <2>3. LastSeq(f) = n
    BY <1>4, <2>1, <2>2 DEF LastSeq
  <2>4. QED
    BY <1>1, <1>2, <2>3 DEF NextSeq
<1>5. QED
  BY <1>3, <1>4

\* Inserting the next row, linked to the last one, leaves a linked log with
\* a larger next number (the INSERT of appendTransition).
LEMMA InsertLinked ==
    ASSUME NEW f, IsLog(f), Linked(f), NEW edge \in Edges
    PROVE  LET g == InsertRow(f, NextSeq(f), edge, LastSeq(f)) IN
           /\ IsLog(g)
           /\ Linked(g)
           /\ NextSeq(g) = NextSeq(f) + 1
<1> DEFINE n == Cardinality(DOMAIN f)
           k == NextSeq(f)
           g == InsertRow(f, k, edge, LastSeq(f))
<1>1. n \in Nat /\ DOMAIN f = 1 .. n /\ LastSeq(f) = n /\ k = n + 1
  BY LastOfLinked
<1>2. DOMAIN g = DOMAIN f \cup {k}
  BY DEF InsertRow
<1>3. k \notin DOMAIN f
  BY <1>1
<1>4. IsFiniteSet(DOMAIN g) /\ Cardinality(DOMAIN g) = n + 1
  <2>1. IsFiniteSet(DOMAIN f)
    BY DEF IsLog
  <2>2. QED
    BY <1>2, <1>3, <2>1, FS_AddElement
<1>5. DOMAIN g = 1 .. (n + 1)
  <2>1. (1 .. n) \cup {n + 1} = 1 .. (n + 1)
    BY <1>1
  <2>2. QED
    BY <1>1, <1>2, <2>1
<1>6. \A i \in DOMAIN f : g[i] = f[i]
  BY <1>3 DEF InsertRow
<1>7. g[k] = [from |-> edge.from, to |-> edge.to, prev |-> n]
  BY <1>1 DEF InsertRow
<1>8. g[k] \in Row /\ g[k].prev = k - 1
  <2>1. edge \in [from: MessageState, to: MessageState]
    BY D1Assumption
  <2>2. QED
    BY <1>1, <1>7, <2>1 DEF Row
<1>9. \A i \in DOMAIN g : g[i] \in Row /\ g[i].prev = i - 1
  BY <1>2, <1>6, <1>8 DEF IsLog, Linked
<1>10. g = [i \in DOMAIN g |-> g[i]]
  BY DEF InsertRow
<1>11. IsLog(g)
  <2>1. DOMAIN g \in SUBSET Nat
    BY <1>1, <1>5
  <2>2. g \in [DOMAIN g -> Row]
    BY <1>9, <1>10
  <2>3. QED
    BY <1>4, <2>1, <2>2 DEF IsLog
<1>12. Linked(g)
  BY <1>4, <1>5, <1>9 DEF Linked
<1>13. NextSeq(g) = NextSeq(f) + 1
  BY <1>1, <1>4 DEF NextSeq
<1>14. QED
  BY <1>11, <1>12, <1>13

\* A linked log is a sequence of rows, and snapshotState reads its last one.
LEMMA LinkedIsSequence ==
    ASSUME NEW f, IsLog(f), Linked(f)
    PROVE  /\ f \in Seq(Row)
           /\ Len(f) = LastSeq(f)
           /\ SnapshotState(f) = Atomic!StateOf(f)
<1> DEFINE n == Cardinality(DOMAIN f)
<1>1. n \in Nat /\ DOMAIN f = 1 .. n /\ LastSeq(f) = n
  BY LastOfLinked
<1>2. f \in [1 .. n -> Row]
  BY <1>1 DEF IsLog
<1>3. f \in Seq(Row) /\ Len(f) = n
  BY <1>1, <1>2
<1>4. f = <<>> <=> DOMAIN f = {}
  BY <1>1, <1>3
<1>5. QED
  BY <1>1, <1>3, <1>4 DEF SnapshotState, Atomic!StateOf

\* Inserting the next row, linked to the last one, is appending it.
LEMMA InsertIsAppend ==
    ASSUME NEW f, IsLog(f), Linked(f), NEW edge \in Edges
    PROVE  InsertRow(f, NextSeq(f), edge, LastSeq(f))
               = Append(f, [from |-> edge.from, to |-> edge.to, prev |-> Len(f)])
<1> DEFINE n == Len(f)
           row == [from |-> edge.from, to |-> edge.to, prev |-> n]
           g == InsertRow(f, NextSeq(f), edge, LastSeq(f))
           h == Append(f, row)
<1>1. /\ f \in Seq(Row) /\ n \in Nat /\ DOMAIN f = 1 .. n
      /\ LastSeq(f) = n /\ NextSeq(f) = n + 1
  BY LastOfLinked, LinkedIsSequence
<1>2. DOMAIN g = 1 .. (n + 1) /\ g = [i \in DOMAIN g |-> g[i]]
  <2>1. DOMAIN g = DOMAIN f \cup {n + 1}
    BY <1>1 DEF InsertRow
  <2>2. (1 .. n) \cup {n + 1} = 1 .. (n + 1)
    BY <1>1
  <2>3. g = [i \in DOMAIN g |-> g[i]]
    BY DEF InsertRow
  <2>4. QED
    BY <1>1, <2>1, <2>2, <2>3
<1>3. \A i \in 1 .. n : g[i] = f[i]
  BY <1>1 DEF InsertRow
<1>4. g[n + 1] = row
  BY <1>1 DEF InsertRow
<1>5. row \in Row
  <2>1. edge \in [from: MessageState, to: MessageState]
    BY D1Assumption
  <2>2. QED
    BY <1>1, <2>1 DEF Row
<1> HIDE DEF row
<1>6. /\ h \in Seq(Row) /\ Len(h) = n + 1 /\ h[n + 1] = row
      /\ \A i \in 1 .. n : h[i] = f[i]
  BY <1>1, <1>5, AppendProperties
<1> HIDE DEF g, h
<1>7. DOMAIN h = 1 .. (n + 1) /\ h = [i \in DOMAIN h |-> h[i]]
  <2>1. DOMAIN h = 1 .. Len(h) /\ h \in [1 .. Len(h) -> Row]
    BY <1>6, LenProperties
  <2>2. DOMAIN h = 1 .. (n + 1)
    BY <1>6, <2>1
  <2>3. h = [i \in DOMAIN h |-> h[i]]
    BY <2>1
  <2>4. QED
    BY <2>2, <2>3
<1>8. \A i \in 1 .. (n + 1) : g[i] = h[i]
  BY <1>1, <1>3, <1>4, <1>6
<1>9. g = h
  BY <1>2, <1>7, <1>8
<1>10. QED
  BY <1>9 DEF g, h, row

-----------------------------------------------------------------------------
(* Steps that leave the logs alone.                                        *)

\* Isolate i moves to position p with job j, and what it relies on holds.
LEMMA QuietStep ==
    ASSUME AppendInv, UNCHANGED log,
           NEW i \in Isolates, NEW p, NEW j,
           at' = [at EXCEPT ![i] = p],
           job' = [job EXCEPT ![i] = j],
           p.pc \in Appending => Current(j, p.pc, log)
    PROVE  AppendInv'
<1>1. DOMAIN at' = Isolates /\ DOMAIN job' = Isolates
  BY DEF AppendInv
<1>2. ASSUME NEW k \in Isolates, at'[k].pc \in Appending
      PROVE  Current(job'[k], at'[k].pc, log')
  <2>1. CASE k = i
    <3>1. at'[k] = p /\ job'[k] = j
      BY <2>1 DEF AppendInv
    <3>2. Current(j, p.pc, log)
      BY <1>2, <3>1
    <3>3. QED
      BY <3>1, <3>2 DEF Current
  <2>2. CASE k # i
    <3>1. at'[k] = at[k] /\ job'[k] = job[k]
      BY <2>2 DEF AppendInv
    <3>2. Current(job[k], at[k].pc, log)
      BY <1>2, <3>1 DEF AppendInv
    <3>3. QED
      BY <3>1, <3>2 DEF Current
  <2>3. QED
    BY <2>1, <2>2
<1>3. QED
  BY <1>1, <1>2 DEF AppendInv

\* Isolate i moves to position p and keeps its job.
LEMMA CarryOnStep ==
    ASSUME AppendInv, UNCHANGED <<log, job>>,
           NEW i \in Isolates, NEW p,
           at' = [at EXCEPT ![i] = p],
           p.pc \in Appending => Current(job[i], p.pc, log)
    PROVE  AppendInv'
<1>1. DOMAIN at' = Isolates /\ DOMAIN job' = Isolates
  BY DEF AppendInv
<1>2. ASSUME NEW k \in Isolates, at'[k].pc \in Appending
      PROVE  Current(job'[k], at'[k].pc, log')
  <2>1. at'[k] = IF k = i THEN p ELSE at[k]
    BY DEF AppendInv
  <2>2. Current(job[k], at'[k].pc, log)
    BY <1>2, <2>1 DEF AppendInv
  <2>3. QED
    BY <2>2 DEF Current
<1>3. QED
  BY <1>1, <1>2 DEF AppendInv

\* Isolate i moves to a position outside an append, with or without its job.
LEMMA LeaveStep ==
    ASSUME AppendInv, UNCHANGED log,
           NEW i \in Isolates, NEW p,
           at' = [at EXCEPT ![i] = p],
           p.pc \notin Appending,
           job' = job \/ job' = [job EXCEPT ![i] = NoJob]
    PROVE  AppendInv'
<1>1. CASE job' = job
  BY <1>1, CarryOnStep
<1>2. CASE job' = [job EXCEPT ![i] = NoJob]
  BY <1>2, QuietStep
<1>3. QED
  BY <1>1, <1>2

\* Nothing of the appends changes: the stored message, the audit export.
LEMMA StillStep ==
    ASSUME AppendInv, UNCHANGED <<log, at, job>>
    PROVE  AppendInv'
BY DEF AppendInv, Current

\* Opening the archive (initialize and migrate) touches no transition.
LEMMA OpenStep ==
    ASSUME AppendInv, NEW i \in Isolates, Open(i)
    PROVE  AppendInv' /\ UNCHANGED log
<1>1. CASE FirstRequest(i)
  BY <1>1, LeaveStep DEF FirstRequest, Go, archive, Appending
<1>2. CASE CreateTables(i)
  BY <1>2, LeaveStep DEF CreateTables, Go, Appending
<1>3. CASE AddColumns(i)
  BY <1>3, LeaveStep DEF AddColumns, Go, Appending
<1>4. CASE CreateIndexes(i)
  BY <1>4, LeaveStep DEF CreateIndexes, Go, Failed, Appending
<1>5. CASE ReadLatest(i)
  <2>1. UNCHANGED <<log, job>> /\ Climb(i, at[i].v)
    BY <1>5 DEF ReadLatest, archive
  <2>2. CASE Recorded = 0
    BY <2>1, <2>2, LeaveStep DEF Climb, Go, Appending
  <2>3. CASE Recorded # 0 /\ Recorded >= at[i].v
    <3>1. at' = [at EXCEPT ![i] = After(at[i].v)]
      BY <2>1, <2>3 DEF Climb
    <3>2. After(at[i].v).pc \notin Appending
      BY DEF After, Appending
    <3>3. QED
      BY <2>1, <3>1, <3>2, LeaveStep
  <2>4. CASE Recorded # 0 /\ ~(Recorded >= at[i].v)
    <3>1. CASE BackFill[at[i].v] = <<>>
      BY <2>1, <2>4, <3>1, LeaveStep DEF Climb, Go, Appending
    <3>2. CASE BackFill[at[i].v] # <<>>
      BY <2>1, <2>4, <3>2, LeaveStep DEF Climb, Go, Appending
    <3>3. QED
      BY <3>1, <3>2
  <2>5. QED
    BY <2>2, <2>3, <2>4
<1>6. CASE RecordFirst(i)
  BY <1>6, LeaveStep DEF RecordFirst, Failed, Idle, Appending
<1>7. CASE RunBackFill(i)
  <2>1. UNCHANGED <<log, job>>
    BY <1>7 DEF RunBackFill
  <2>2. CASE at[i].k = Len(BackFill[at[i].v])
    BY <1>7, <2>1, <2>2, LeaveStep DEF RunBackFill, Go, Appending
  <2>3. CASE at[i].k # Len(BackFill[at[i].v])
    BY <1>7, <2>1, <2>3, LeaveStep DEF RunBackFill, Go, Appending
  <2>4. QED
    BY <2>2, <2>3
<1>8. CASE RecordVersion(i)
  <2>1. UNCHANGED <<log, job>>
    BY <1>8 DEF RecordVersion
  <2>2. \/ at' = [at EXCEPT ![i] = Failed]
        \/ at' = [at EXCEPT ![i] = After(at[i].v)]
    BY <1>8 DEF RecordVersion
  <2>3. Failed.pc \notin Appending /\ After(at[i].v).pc \notin Appending
    BY DEF Failed, After, Appending
  <2>4. QED
    BY <2>1, <2>2, <2>3, LeaveStep
<1>9. QED
  BY <1>1, <1>2, <1>3, <1>4, <1>5, <1>6, <1>7, <1>8 DEF Open

\* Indexing an archived message, a statement that throws and an eviction end
\* an append or carry on behind its INSERT.
LEMMA EndStep ==
    ASSUME AppendInv, NEW i \in Isolates,
           MarkArchived(i) \/ RefreshColumns(i) \/ IndexMessage(i)
               \/ Throw(i) \/ Evict(i)
    PROVE  AppendInv' /\ UNCHANGED log
<1>1. CASE MarkArchived(i)
  BY <1>1, LeaveStep DEF MarkArchived, Go, Appending
<1>2. CASE RefreshColumns(i)
  BY <1>2, LeaveStep DEF RefreshColumns, Go, Idle, Appending
<1>3. CASE IndexMessage(i)
  BY <1>3, LeaveStep DEF IndexMessage, Idle, Appending
<1>4. CASE Throw(i)
  <2>1. UNCHANGED log /\ job' = [job EXCEPT ![i] = NoJob]
    BY <1>4 DEF Throw, archive
  <2>2. at' = [at EXCEPT ![i] = Failed] \/ at' = [at EXCEPT ![i] = Idle]
    BY <1>4 DEF Throw
  <2>3. Failed.pc \notin Appending /\ Idle.pc \notin Appending
    BY DEF Failed, Idle, Appending
  <2>4. QED
    BY <2>1, <2>2, <2>3, LeaveStep
<1>5. CASE Evict(i)
  BY <1>5, LeaveStep DEF Evict, archive, Cold, Appending
<1>6. QED
  BY <1>1, <1>2, <1>3, <1>4, <1>5

\* appendNextTransition numbers the row by the rows it reads.
LEMMA NumberStep ==
    ASSUME AppendInv, NEW i \in Isolates, NEW m \in Messages,
           NEW edge \in Edges, NumberTransition(i, m, edge)
    PROVE  AppendInv' /\ UNCHANGED log
<1> DEFINE p == [pc |-> "guard", v |-> 0, k |-> 0]
           j == [msg |-> m, edge |-> edge, seq |-> NextSeq(log[m]), prev |-> 0]
<1>1. at' = [at EXCEPT ![i] = p] /\ job' = [job EXCEPT ![i] = j] /\ UNCHANGED log
  BY DEF NumberTransition, Go, archive
<1>2. NextSeq(log[m]) \in Nat /\ NextSeq(log[m]) >= 1
  <2>1. IsLog(log[m]) /\ Linked(log[m])
    BY DEF AppendInv
  <2>2. Cardinality(DOMAIN log[m]) \in Nat
    BY <2>1, LastOfLinked
  <2>3. QED
    BY <2>2 DEF NextSeq
<1>3. j \in [msg: Messages, edge: Edges, seq: Nat, prev: Nat]
  BY <1>2
<1>4. j.seq \in 1 .. NextSeq(log[j.msg])
  BY <1>2
<1>5. Current(j, "guard", log)
  BY <1>3, <1>4 DEF Current
<1>6. p.pc = "guard"
  OBVIOUS
<1> HIDE DEF p, j
<1>7. QED
  BY <1>1, <1>5, <1>6, QuietStep

\* The state read by appendTransition passes its guard.
LEMMA CheckStep ==
    ASSUME AppendInv, NEW i \in Isolates, CheckTransition(i)
    PROVE  AppendInv' /\ UNCHANGED log
<1> DEFINE state == SnapshotState(log[job[i].msg])
           edge == job[i].edge
<1>1. UNCHANGED log
  BY DEF CheckTransition, archive
<1>2. CASE CanTransition(state, edge.to) \/ state = edge.from
  <2> DEFINE p == [pc |-> "prev", v |-> 0, k |-> 0]
  <2>1. at' = [at EXCEPT ![i] = p] /\ UNCHANGED job
    BY <1>2 DEF CheckTransition, Go
  <2>3. Current(job[i], "guard", log)
    BY DEF CheckTransition, At, Appending, AppendInv
  <2>4. Current(job[i], "prev", log)
    BY <1>2, <2>3 DEF Current
  <2>5. p.pc = "prev"
    OBVIOUS
  <2> HIDE DEF p
  <2>6. QED
    BY <1>1, <2>1, <2>4, <2>5, CarryOnStep
<1>3. CASE ~(CanTransition(state, edge.to) \/ state = edge.from)
  <2>1. at' = [at EXCEPT ![i] = Idle] /\ job' = [job EXCEPT ![i] = NoJob]
    BY <1>3 DEF CheckTransition
  <2>2. Idle.pc \notin Appending
    BY DEF Idle, Appending
  <2>3. QED
    BY <1>1, <2>1, <2>2, LeaveStep
<1>4. QED
  BY <1>2, <1>3

\* The hash read by appendTransition is the last row's.
LEMMA PreviousStep ==
    ASSUME AppendInv, NEW i \in Isolates, ReadPrevious(i)
    PROVE  AppendInv' /\ UNCHANGED log
<1> DEFINE p == [pc |-> "insert", v |-> 0, k |-> 0]
           last == LastSeq(log[job[i].msg])
           j == [job[i] EXCEPT !.prev = last]
<1>1. at' = [at EXCEPT ![i] = p] /\ UNCHANGED log
  BY DEF ReadPrevious, Go, archive
<1>2. job' = [job EXCEPT ![i] = j]
  BY DEF ReadPrevious
<1>3. Current(job[i], "prev", log)
  BY DEF ReadPrevious, At, Appending, AppendInv
<1>4. job[i] \in [msg: Messages, edge: Edges, seq: Nat, prev: Nat]
  BY <1>3 DEF Current
<1>5. last \in Nat
  <2>1. IsLog(log[job[i].msg]) /\ Linked(log[job[i].msg])
    BY <1>4 DEF AppendInv
  <2>2. QED
    BY <2>1, LastOfLinked
<1>6. /\ j \in [msg: Messages, edge: Edges, seq: Nat, prev: Nat]
      /\ j.msg = job[i].msg /\ j.edge = job[i].edge /\ j.seq = job[i].seq
      /\ j.prev = last
  BY <1>4, <1>5
<1>7. Current(j, "insert", log)
  <2> HIDE DEF j
  <2>1. QED
    BY <1>3, <1>6 DEF Current
<1>8. p.pc = "insert"
  OBVIOUS
<1> HIDE DEF p, j
<1>9. QED
  BY <1>1, <1>2, <1>7, <1>8, QuietStep

-----------------------------------------------------------------------------
(* The INSERT.                                                             *)

\* It fails on UNIQUE(message_id, sequence_no), or it is an atomic append.
LEMMA InsertStep ==
    ASSUME AppendInv, NEW i \in Isolates, InsertTransition(i)
    PROVE  AppendInv' /\ (UNCHANGED log \/ Atomic!Next)
<1> DEFINE j == job[i]
           f == log[j.msg]
<1>1. Current(j, "insert", log)
  BY DEF InsertTransition, At, Appending, AppendInv
<1>2. /\ j.msg \in Messages /\ j.edge \in Edges
      /\ j.seq \in 1 .. NextSeq(f)
  BY <1>1 DEF Current
<1>3. IsLog(f) /\ Linked(f)
  BY <1>2 DEF AppendInv
<1>4. CASE j.seq \in DOMAIN f
  <2>1. /\ at' = [at EXCEPT ![i] = Idle] /\ job' = [job EXCEPT ![i] = NoJob]
        /\ UNCHANGED log
    BY <1>4 DEF InsertTransition
  <2>2. Idle.pc \notin Appending
    BY DEF Idle, Appending
  <2>3. QED
    BY <2>1, <2>2, LeaveStep
<1>5. CASE j.seq \notin DOMAIN f
  <2> DEFINE g == InsertRow(f, j.seq, j.edge, j.prev)
  <2>1. log' = [log EXCEPT ![j.msg] = g]
    BY <1>5 DEF InsertTransition
  <2> DEFINE p == IF j.edge.to = "archived" THEN [pc |-> "mark", v |-> 0, k |-> 0]
                  ELSE Idle
  <2>2. at' = [at EXCEPT ![i] = p] /\ p.pc \notin Appending
    BY <1>5 DEF InsertTransition, Go, Idle, Appending
  <2>3. job' = job \/ job' = [job EXCEPT ![i] = NoJob]
    BY <1>5 DEF InsertTransition
  <2>4. j.seq = NextSeq(f) /\ NextSeq(f) \in Nat
    <3>1. /\ Cardinality(DOMAIN f) \in Nat
          /\ DOMAIN f = 1 .. Cardinality(DOMAIN f)
      BY <1>3, LastOfLinked
    <3>2. QED
      BY <1>2, <1>5, <3>1 DEF NextSeq
  <2>5. /\ j.prev = LastSeq(f)
        /\ CanTransition(SnapshotState(f), j.edge.to)
               \/ SnapshotState(f) = j.edge.from
    BY <1>1, <2>4 DEF Current
  <2>6. g = InsertRow(f, NextSeq(f), j.edge, LastSeq(f))
    BY <2>4, <2>5
  <2>7. IsLog(g) /\ Linked(g) /\ NextSeq(g) = NextSeq(f) + 1
    BY <1>2, <1>3, <2>6, InsertLinked
  <2>8. Atomic!Write(j.msg, j.edge)
    <3>1. SnapshotState(f) = Atomic!StateOf(f)
      BY <1>3, LinkedIsSequence
    <3>2. g = Append(f, [from |-> j.edge.from, to |-> j.edge.to, prev |-> Len(f)])
      BY <1>2, <1>3, <2>6, InsertIsAppend
    <3> HIDE DEF g
    <3>3. log' = [log EXCEPT ![j.msg] =
                     Append(@, [from |-> j.edge.from, to |-> j.edge.to,
                                prev |-> Len(@)])]
      BY <2>1, <3>2
    <3>4. \/ j.edge.to \in AllowedTransitions[Atomic!StateOf(f)]
          \/ j.edge.from = Atomic!StateOf(f)
      BY <2>5, <3>1 DEF CanTransition
    <3>5. QED
      BY <3>3, <3>4 DEF Atomic!Write
  <2>9. Atomic!Next
    BY <1>2, <2>8 DEF Atomic!Next
  <2> HIDE DEF g, p
  <2>10. /\ DOMAIN log' = Messages
         /\ \A m \in Messages : IsLog(log'[m]) /\ Linked(log'[m])
    BY <1>2, <2>1, <2>7 DEF AppendInv
  <2>11. ASSUME NEW k \in Isolates, at'[k].pc \in Appending
         PROVE  Current(job'[k], at'[k].pc, log')
    <3>1. k # i /\ at'[k] = at[k] /\ job'[k] = job[k]
      BY <2>2, <2>3, <2>11 DEF AppendInv
    <3>2. Current(job[k], at[k].pc, log)
      BY <2>11, <3>1 DEF AppendInv
    <3>3. job[k].msg \in Messages
      BY <3>2 DEF Current
    <3>4. CASE job[k].msg # j.msg
      <4>1. log'[job[k].msg] = log[job[k].msg]
        BY <2>1, <3>3, <3>4 DEF AppendInv
      <4>2. QED
        BY <3>1, <3>2, <4>1 DEF Current
    <3>5. CASE job[k].msg = j.msg
      <4>1. log'[job[k].msg] = g /\ log[job[k].msg] = f
        BY <1>2, <2>1, <3>5 DEF AppendInv
      <4>2. job[k].seq \in 1 .. NextSeq(f)
        BY <3>2, <4>1 DEF Current
      <4>3. job[k].seq \in 1 .. NextSeq(g) /\ job[k].seq # NextSeq(g)
        BY <2>4, <2>7, <4>2
      <4>4. QED
        BY <3>1, <3>2, <4>1, <4>3 DEF Current
    <3>6. QED
      BY <3>4, <3>5
  <2>12. DOMAIN at' = Isolates /\ DOMAIN job' = Isolates
    BY <2>2, <2>3 DEF AppendInv
  <2>13. QED
    BY <2>9, <2>10, <2>11, <2>12 DEF AppendInv
<1>6. QED
  BY <1>4, <1>5

-----------------------------------------------------------------------------
(* The theorem.                                                            *)

\* The logs an archive starts with, new or left by an earlier release, are
\* linked, and no isolate is in an append.
LEMMA InitAppend == Init => AppendInv /\ Atomic!Init
<1> SUFFICES ASSUME Init PROVE AppendInv /\ Atomic!Init
  OBVIOUS
<1>1. IsLog(EmptyLog) /\ Linked(EmptyLog)
  <2>1. DOMAIN EmptyLog = {}
    BY DEF EmptyLog
  <2>2. IsFiniteSet({}) /\ Cardinality({}) = 0
    BY FS_EmptySet
  <2>3. EmptyLog \in [DOMAIN EmptyLog -> Row]
    BY <2>1 DEF EmptyLog
  <2>4. IsLog(EmptyLog)
    BY <2>1, <2>2, <2>3 DEF IsLog
  <2>5. Linked(EmptyLog)
    BY <2>1, <2>2 DEF Linked
  <2>6. QED
    BY <2>4, <2>5
<1>2. IsLog(LegacyLog(TRUE)) /\ Linked(LegacyLog(TRUE))
  <2> DEFINE h == LegacyLog(TRUE)
  <2>1. DOMAIN h = 1 .. 2
    BY DEF LegacyLog
  <2>2. IsFiniteSet(1 .. 2) /\ Cardinality(1 .. 2) = 2
    <3>1. 1 \in Int /\ 2 \in Int /\ ~(1 > 2) /\ 2 - 1 + 1 = 2
      OBVIOUS
    <3>2. QED
      BY <3>1, FS_Interval
  <2>3. \A k \in 1 .. 2 : h[k] \in Row /\ h[k].prev = k - 1
    BY DEF LegacyLog, Row, MessageState
  <2>4. h = [k \in 1 .. 2 |-> h[k]]
    BY DEF LegacyLog
  <2> HIDE DEF h
  <2>5. IsLog(h)
    <3>1. h \in [DOMAIN h -> Row]
      BY <2>1, <2>3, <2>4
    <3>2. QED
      BY <2>1, <2>2, <3>1 DEF IsLog
  <2>6. Linked(h)
    BY <2>1, <2>2, <2>3 DEF Linked
  <2>7. QED
    BY <2>5, <2>6 DEF h
<1>3. /\ DOMAIN log = Messages
      /\ \A m \in Messages : IsLog(log[m]) /\ Linked(log[m])
  <2>1. CASE log = [m \in Messages |-> EmptyLog]
    BY <1>1, <2>1
  <2>2. ASSUME NEW done \in SUBSET stored,
               log = [m \in Messages |-> LegacyLog(m \in done)]
        PROVE  /\ DOMAIN log = Messages
               /\ \A m \in Messages : IsLog(log[m]) /\ Linked(log[m])
    <3>1. DOMAIN log = Messages
      BY <2>2
    <3>2. ASSUME NEW m \in Messages
          PROVE  IsLog(log[m]) /\ Linked(log[m])
      <4>1. CASE m \in done
        <5>1. log[m] = LegacyLog(TRUE)
          BY <2>2, <4>1 DEF LegacyLog
        <5>2. QED
          BY <1>2, <5>1
      <4>2. CASE m \notin done
        <5>1. log[m] = EmptyLog
          BY <2>2, <4>2 DEF LegacyLog
        <5>2. QED
          BY <1>1, <5>1
      <4>3. QED
        BY <4>1, <4>2
    <3>3. QED
      BY <3>1, <3>2
  <2>3. QED
    BY <2>1, <2>2 DEF Init
<1>4. /\ DOMAIN at = Isolates /\ DOMAIN job = Isolates
      /\ \A i \in Isolates : at[i].pc \notin Appending
  BY DEF Init, Cold, Appending
<1>5. AppendInv
  BY <1>3, <1>4 DEF AppendInv
<1>6. Atomic!Init
  <2>1. Atomic!LogRow = Row
    BY DEF Atomic!LogRow, Row
  <2>2. \A m \in Messages : log[m] \in Seq(Row)
    BY <1>3, LinkedIsSequence
  <2>3. log = [m \in Messages |-> log[m]]
    BY DEF Init
  <2>4. log \in [Messages -> Seq(Row)]
    BY <2>2, <2>3
  <2>5. \A m \in Messages : \A i \in DOMAIN log[m] : log[m][i].prev = i - 1
    BY <1>3 DEF Linked
  <2>6. QED
    BY <2>1, <2>4, <2>5 DEF Atomic!Init
<1>7. QED
  BY <1>5, <1>6

\* Every step keeps the invariant and is an atomic append or leaves the logs
\* alone.
LEMMA NextAppend == AppendInv /\ [Next]_vars => AppendInv' /\ [Atomic!Next]_log
<1> SUFFICES ASSUME AppendInv, [Next]_vars
             PROVE  AppendInv' /\ [Atomic!Next]_log
  OBVIOUS
<1>1. CASE UNCHANGED vars
  BY <1>1, StillStep DEF vars
<1>2. ASSUME NEW i \in Isolates, Open(i)
      PROVE  AppendInv' /\ [Atomic!Next]_log
  BY <1>2, OpenStep
<1>3. ASSUME NEW i \in Isolates, NEW m \in Messages, AppendMessage(i, m)
      PROVE  AppendInv' /\ [Atomic!Next]_log
  BY <1>3, StillStep DEF AppendMessage
<1>4. ASSUME NEW i \in Isolates, NEW m \in Messages, NEW edge \in Edges,
             NumberTransition(i, m, edge)
      PROVE  AppendInv' /\ [Atomic!Next]_log
  BY <1>4, NumberStep
<1>5. ASSUME NEW i \in Isolates, AppendTransition(i)
      PROVE  AppendInv' /\ [Atomic!Next]_log
  BY <1>5, CheckStep, PreviousStep, InsertStep, EndStep DEF AppendTransition
<1>6. ASSUME NEW i \in Isolates, Throw(i) \/ Evict(i)
      PROVE  AppendInv' /\ [Atomic!Next]_log
  BY <1>6, EndStep
<1>7. ASSUME NEW i \in Isolates, BundleMessages(i)
      PROVE  AppendInv' /\ [Atomic!Next]_log
  BY <1>7, StillStep DEF BundleMessages, archive
<1>8. CASE BundleTransitions \/ BundleProof \/ BundleDone
  <2>1. UNCHANGED <<log, at, job>>
    BY <1>8 DEF BundleTransitions, BundleProof, BundleDone, archive
  <2>2. QED
    BY <2>1, StillStep
<1>9. QED
  BY <1>1, <1>2, <1>3, <1>4, <1>5, <1>6, <1>7, <1>8 DEF Next

\* An append whose number is still the next one may rely on what it read.
THEOREM AppendInvariant == Spec => []AppendInv
BY InitAppend, NextAppend, PTL DEF Spec

\* The D1 archive implements the atomic log (AppendsAreAtomic): for every
\* set of isolates and messages, appendTransition behaves as one step.
THEOREM AppendsRefine == Spec => AppendsAreAtomic
BY InitAppend, NextAppend, PTL DEF Spec, AppendsAreAtomic, Atomic!Spec

-----------------------------------------------------------------------------
(* The chain of migrations.                                                *)

\* Versions 1..n are recorded, each linked to the one before it.
Chain(mig) ==
    /\ \E n \in 0 .. 7 : DOMAIN mig = 1 .. n
    /\ \A v \in DOMAIN mig :
          /\ mig[v].hash = MigrationHash(mig[v].prev, v)
          /\ v > 1 => mig[v].prev = mig[v - 1].hash

\* An isolate at position p with last row l comes to a version only when the
\* one before it is recorded, and fills or records it on top of that one.
Climbing(p, l, mig) ==
    /\ p.pc = "read" => p.v \in 2 .. 7 /\ (p.v = 2 \/ p.v - 1 \in DOMAIN mig)
    /\ p.pc \in {"fill", "record"} =>
          /\ p.v \in 2 .. 7 /\ p.v - 1 \in DOMAIN mig
          /\ l.hash = mig[p.v - 1].hash

MigrateInv ==
    /\ DOMAIN at = Isolates /\ DOMAIN latest = Isolates
    /\ Chain(migrations)
    /\ \A i \in Isolates : Climbing(at[i], latest[i], migrations)

\* What SELECT ... ORDER BY version DESC LIMIT 1 finds in a chain.
LEMMA LatestOfChain ==
    ASSUME NEW n \in 0 .. 7, DOMAIN migrations = 1 .. n
    PROVE  /\ Recorded = n
           /\ n # 0 => LatestMigration.hash = migrations[n].hash
<1>1. CASE n = 0
  BY <1>1 DEF LatestMigration, Recorded, NoMigration
<1>2. CASE n # 0
  <2>1. n \in DOMAIN migrations /\ \A y \in DOMAIN migrations : y <= n
    BY <1>2
  <2>2. ASSUME NEW x \in DOMAIN migrations, \A y \in DOMAIN migrations : y <= x
        PROVE  x = n
    <3>1. n <= x
      BY <2>1, <2>2
    <3>2. x \in 1 .. n
      OBVIOUS
    <3>3. QED
      BY <3>1, <3>2
  <2>3. (CHOOSE x \in DOMAIN migrations : \A y \in DOMAIN migrations : y <= x) = n
    BY <2>1, <2>2
  <2>4. LatestMigration = [version |-> n, hash |-> migrations[n].hash]
    BY <2>1, <2>3 DEF LatestMigration
  <2>5. QED
    BY <2>4 DEF Recorded
<1>3. QED
  BY <1>1, <1>2

\* Isolate i moves to p, the rows stay.
LEMMA ClimbStep ==
    ASSUME MigrateInv, UNCHANGED migrations, NEW i \in Isolates, NEW p,
           at' = [at EXCEPT ![i] = p],
           DOMAIN latest' = Isolates,
           \A q \in Isolates \ {i} : latest'[q] = latest[q],
           Climbing(p, latest'[i], migrations)
    PROVE  MigrateInv'
<1>1. DOMAIN at' = Isolates /\ \A q \in Isolates : at'[q] = IF q = i THEN p ELSE at[q]
  BY DEF MigrateInv
<1>2. \A q \in Isolates : Climbing(at'[q], latest'[q], migrations)
  BY <1>1 DEF MigrateInv
<1>3. QED
  BY <1>1, <1>2 DEF MigrateInv

\* Isolate i moves off the ladder.
LEMMA OffLadder ==
    ASSUME MigrateInv, UNCHANGED migrations, NEW i \in Isolates, NEW p,
           at' = [at EXCEPT ![i] = p], p.pc \notin {"read", "fill", "record"},
           UNCHANGED latest \/ latest' = [latest EXCEPT ![i] = NoMigration]
    PROVE  MigrateInv'
<1>1. DOMAIN latest' = Isolates /\ \A q \in Isolates \ {i} : latest'[q] = latest[q]
  BY DEF MigrateInv
<1>2. Climbing(p, latest'[i], migrations)
  BY DEF Climbing
<1>3. QED
  BY <1>1, <1>2, ClimbStep

\* A new row on top of the chain, recorded by isolate i.
LEMMA RecordStep ==
    ASSUME MigrateInv, NEW i \in Isolates, NEW v \in 1 .. 7, NEW prev, NEW p,
           v \notin DOMAIN migrations, InsertMigration(v, prev),
           v = 1 \/ (v - 1 \in DOMAIN migrations /\ prev = migrations[v - 1].hash),
           at' = [at EXCEPT ![i] = p], UNCHANGED latest,
           p = Idle \/ p = After(v)
    PROVE  MigrateInv'
<1>1. PICK n \in 0 .. 7 : DOMAIN migrations = 1 .. n
  BY DEF MigrateInv, Chain
<1>2. v = n + 1
  BY <1>1
<1>3. /\ DOMAIN migrations' = DOMAIN migrations \cup {v}
      /\ \A x \in DOMAIN migrations : migrations'[x] = migrations[x]
      /\ migrations'[v] = [hash |-> MigrationHash(prev, v), prev |-> prev]
  BY DEF InsertMigration
<1>4. DOMAIN migrations' = 1 .. v
  BY <1>1, <1>2, <1>3
<1>5. Chain(migrations')
  <2>1. \E x \in 0 .. 7 : DOMAIN migrations' = 1 .. x
    <3>1. v \in 0 .. 7
      OBVIOUS
    <3>2. QED
      BY <1>4, <3>1
  <2>2. ASSUME NEW x \in DOMAIN migrations'
        PROVE  /\ migrations'[x].hash = MigrationHash(migrations'[x].prev, x)
               /\ x > 1 => migrations'[x].prev = migrations'[x - 1].hash
    <3>1. CASE x = v
      <4>1. /\ migrations'[v].hash = MigrationHash(prev, v)
            /\ migrations'[v].prev = prev
        BY <1>3
      <4>2. v > 1 => migrations'[v - 1] = migrations[v - 1]
        BY <1>3
      <4>3. QED
        BY <3>1, <4>1, <4>2
    <3>2. CASE x # v
      <4>1. x \in DOMAIN migrations /\ migrations'[x] = migrations[x]
        BY <1>3, <3>2
      <4>2. x > 1 => x - 1 \in DOMAIN migrations
        BY <1>1, <4>1
      <4>3. x > 1 => migrations'[x - 1] = migrations[x - 1]
        BY <1>3, <4>2
      <4>4. QED
        BY <4>1, <4>3 DEF MigrateInv, Chain
    <3>3. QED
      BY <3>1, <3>2
  <2>3. QED
    BY <2>1, <2>2 DEF Chain
<1>6. \A q \in Isolates : Climbing(at[q], latest[q], migrations')
  BY <1>3 DEF MigrateInv, Climbing
<1>7. Climbing(p, latest[i], migrations')
  <2>1. CASE p = Idle
    BY <2>1 DEF Climbing, Idle
  <2>2. CASE p = After(v)
    <3>1. v = 7 => p.pc = "ready"
      BY <2>2 DEF After
    <3>2. v # 7 => p.pc = "read" /\ p.v = v + 1
      BY <2>2 DEF After
    <3>3. QED
      BY <1>4, <3>1, <3>2 DEF Climbing
  <2>3. QED
    BY <2>1, <2>2
<1>8. DOMAIN at' = Isolates /\ \A q \in Isolates : at'[q] = IF q = i THEN p ELSE at[q]
  BY DEF MigrateInv
<1>9. \A q \in Isolates : Climbing(at'[q], latest'[q], migrations')
  BY <1>6, <1>7, <1>8
<1>10. QED
  BY <1>5, <1>8, <1>9 DEF MigrateInv

\* Opening the archive.
LEMMA OpenMigrates ==
    ASSUME MigrateInv, NEW i \in Isolates, Open(i)
    PROVE  MigrateInv'
<1>1. CASE FirstRequest(i)
  BY <1>1, OffLadder DEF FirstRequest, Go, archive
<1>2. CASE CreateTables(i)
  BY <1>2, OffLadder DEF CreateTables, Go
<1>3. CASE AddColumns(i)
  BY <1>3, OffLadder DEF AddColumns, Go
<1>4. CASE CreateIndexes(i)
  <2>1. UNCHANGED <<migrations, latest>>
    BY <1>4 DEF CreateIndexes
  <2>2. CASE at' = [at EXCEPT ![i] = [pc |-> "read", v |-> 2, k |-> 0]]
    <3>1. Climbing([pc |-> "read", v |-> 2, k |-> 0], latest[i], migrations)
      BY DEF Climbing
    <3>2. QED
      BY <2>1, <2>2, <3>1, ClimbStep DEF MigrateInv
  <2>3. CASE \/ at' = [at EXCEPT ![i] = [pc |-> "tables", v |-> 1, k |-> 0]]
             \/ at' = [at EXCEPT ![i] = Failed]
    BY <2>1, <2>3, OffLadder DEF Failed
  <2>4. QED
    BY <1>4, <2>2, <2>3 DEF CreateIndexes, Go
<1>5. CASE ReadLatest(i)
  <2> DEFINE v == at[i].v
  <2>1. /\ UNCHANGED migrations /\ latest' = [latest EXCEPT ![i] = LatestMigration]
        /\ Climb(i, v) /\ at[i].pc = "read"
    BY <1>5 DEF ReadLatest, archive, At
  <2>2. /\ DOMAIN latest' = Isolates /\ latest'[i] = LatestMigration
        /\ \A q \in Isolates \ {i} : latest'[q] = latest[q]
    BY <2>1 DEF MigrateInv
  <2>3. PICK n \in 0 .. 7 : DOMAIN migrations = 1 .. n
    BY DEF MigrateInv, Chain
  <2>4. /\ Recorded = n
        /\ n # 0 => LatestMigration.hash = migrations[n].hash
    BY <2>3, LatestOfChain
  <2>5. v \in 2 .. 7 /\ (v = 2 \/ v - 1 \in DOMAIN migrations)
    BY <2>1 DEF MigrateInv, Climbing
  <2> HIDE DEF v
  <2>6. CASE n = 0
    <3>1. at' = [at EXCEPT ![i] = [pc |-> "first", v |-> 1, k |-> 0]]
      BY <2>1, <2>4, <2>6 DEF Climb, Go
    <3>2. Climbing([pc |-> "first", v |-> 1, k |-> 0], latest'[i], migrations)
      BY DEF Climbing
    <3>3. QED
      BY <2>1, <2>2, <3>1, <3>2, ClimbStep
  <2>7. CASE n # 0 /\ n >= v
    <3>1. at' = [at EXCEPT ![i] = After(v)]
      BY <2>1, <2>4, <2>7 DEF Climb
    <3>2. v = 7 => After(v).pc = "ready"
      BY DEF After
    <3>3. v # 7 => After(v).pc = "read" /\ After(v).v = v + 1
      BY DEF After
    <3>4. v \in DOMAIN migrations /\ (v # 7 => v + 1 \in 2 .. 7)
      BY <2>3, <2>5, <2>7
    <3>5. Climbing(After(v), latest'[i], migrations)
      BY <2>5, <3>2, <3>3, <3>4 DEF Climbing
    <3>6. QED
      BY <2>1, <2>2, <3>1, <3>5, ClimbStep
  <2>8. CASE n # 0 /\ ~(n >= v)
    <3>1. n = v - 1
      BY <2>3, <2>5, <2>8
    <3>2. v - 1 \in DOMAIN migrations /\ latest'[i].hash = migrations[v - 1].hash
      BY <2>2, <2>3, <2>4, <2>8, <3>1
    <3>3. \/ at' = [at EXCEPT ![i] = [pc |-> "record", v |-> v, k |-> 0]]
          \/ at' = [at EXCEPT ![i] = [pc |-> "fill", v |-> v, k |-> 1]]
      BY <2>1, <2>4, <2>8 DEF Climb, Go
    <3>4. /\ Climbing([pc |-> "record", v |-> v, k |-> 0], latest'[i], migrations)
          /\ Climbing([pc |-> "fill", v |-> v, k |-> 1], latest'[i], migrations)
      BY <2>5, <3>2 DEF Climbing
    <3>5. QED
      BY <2>1, <2>2, <3>3, <3>4, ClimbStep
  <2>9. QED
    BY <2>6, <2>7, <2>8
<1>6. CASE RecordFirst(i)
  <2>1. CASE 1 \in DOMAIN migrations
    BY <1>6, <2>1, OffLadder DEF RecordFirst, Failed
  <2>2. CASE 1 \notin DOMAIN migrations
    BY <1>6, <2>2, RecordStep DEF RecordFirst
  <2>3. QED
    BY <2>1, <2>2
<1>7. CASE RunBackFill(i)
  <2> DEFINE v == at[i].v
  <2>1. UNCHANGED <<migrations, latest>> /\ at[i].pc = "fill"
    BY <1>7 DEF RunBackFill, At
  <2>2. \/ at' = [at EXCEPT ![i] = [pc |-> "record", v |-> v, k |-> 0]]
        \/ at' = [at EXCEPT ![i] = [pc |-> "fill", v |-> v, k |-> at[i].k + 1]]
    BY <1>7 DEF RunBackFill, Go
  <2>3. Climbing(at[i], latest[i], migrations)
    BY DEF MigrateInv
  <2>4. \A k : /\ Climbing([pc |-> "record", v |-> v, k |-> k], latest[i], migrations)
               /\ Climbing([pc |-> "fill", v |-> v, k |-> k], latest[i], migrations)
    BY <2>1, <2>3 DEF Climbing
  <2>5. QED
    BY <2>1, <2>2, <2>4, ClimbStep DEF MigrateInv
<1>8. CASE RecordVersion(i)
  <2> DEFINE v == at[i].v
  <2>1. at[i].pc = "record" /\ UNCHANGED latest
    BY <1>8 DEF RecordVersion, At
  <2>2. v \in 2 .. 7 /\ v - 1 \in DOMAIN migrations /\ latest[i].hash = migrations[v - 1].hash
    BY <2>1 DEF MigrateInv, Climbing
  <2>3. CASE v \in DOMAIN migrations
    BY <1>8, <2>1, <2>3, OffLadder DEF RecordVersion, Failed
  <2>4. CASE v \notin DOMAIN migrations
    <3>1. InsertMigration(v, latest[i].hash) /\ at' = [at EXCEPT ![i] = After(v)]
      BY <1>8, <2>4 DEF RecordVersion
    <3>2. v \in 1 .. 7
      BY <2>2
    <3> HIDE DEF v
    <3>3. QED
      BY <2>1, <2>2, <2>4, <3>1, <3>2, RecordStep
  <2>5. QED
    BY <2>3, <2>4
<1>9. QED
  BY <1>1, <1>2, <1>3, <1>4, <1>5, <1>6, <1>7, <1>8 DEF Open

\* Everything an isolate does once the archive is open, and its failures.
LEMMA ServeMigrates ==
    ASSUME MigrateInv, NEW i \in Isolates,
           \/ \E m \in Messages : AppendMessage(i, m)
           \/ \E m \in Messages, edge \in Edges : NumberTransition(i, m, edge)
           \/ AppendTransition(i) \/ BundleMessages(i) \/ Throw(i) \/ Evict(i)
    PROVE  MigrateInv'
<1> USE DEF Go, archive
<1>1. CASE (\E m \in Messages : AppendMessage(i, m)) \/ BundleMessages(i)
  BY <1>1 DEF AppendMessage, BundleMessages, MigrateInv
<1>2. ASSUME NEW m \in Messages, NEW edge \in Edges, NumberTransition(i, m, edge)
      PROVE  MigrateInv'
  BY <1>2, OffLadder DEF NumberTransition
<1>3. CASE CheckTransition(i)
  BY <1>3, OffLadder DEF CheckTransition, Idle
<1>4. CASE ReadPrevious(i)
  BY <1>4, OffLadder DEF ReadPrevious
<1>5. CASE InsertTransition(i)
  BY <1>5, OffLadder DEF InsertTransition, Idle
<1>6. CASE MarkArchived(i)
  BY <1>6, OffLadder DEF MarkArchived
<1>7. CASE RefreshColumns(i)
  BY <1>7, OffLadder DEF RefreshColumns, Idle
<1>8. CASE IndexMessage(i)
  BY <1>8, OffLadder DEF IndexMessage, Idle
<1>9. CASE Throw(i)
  <2>1. at' = [at EXCEPT ![i] = Failed] \/ at' = [at EXCEPT ![i] = Idle]
    BY <1>9 DEF Throw
  <2>2. QED
    BY <1>9, <2>1, OffLadder DEF Throw, Idle, Failed
<1>10. CASE Evict(i)
  BY <1>10, OffLadder DEF Evict, Cold
<1>11. QED
  BY <1>1, <1>2, <1>3, <1>4, <1>5, <1>6, <1>7, <1>8, <1>9, <1>10 DEF AppendTransition

LEMMA InitMigrate == Init => MigrateInv
<1> SUFFICES ASSUME Init PROVE MigrateInv
  OBVIOUS
<1>1. ASSUME NEW n \in 0 .. 2, migrations = LegacyMigrations(n)
      PROVE  Chain(migrations)
  <2>1. DOMAIN migrations = 1 .. n
    BY <1>1 DEF LegacyMigrations
  <2>2. ASSUME NEW x \in 1 .. n
        PROVE  /\ migrations[x].hash = [k \in 1 .. x |-> k]
               /\ migrations[x].prev = [k \in 1 .. x - 1 |-> k]
    BY <1>1 DEF LegacyMigrations
  <2>3. ASSUME NEW x \in 1 .. n
        PROVE  [k \in 1 .. x |-> k] = Append([k \in 1 .. x - 1 |-> k], x)
    <3> DEFINE a == [k \in 1 .. x |-> k]
               b == [k \in 1 .. x - 1 |-> k]
    <3>1. a \in Seq(Nat) /\ b \in Seq(Nat) /\ Len(a) = x /\ Len(b) = x - 1
      <4>1. a \in [1 .. x -> Nat] /\ b \in [1 .. x - 1 -> Nat]
        OBVIOUS
      <4>2. x \in Nat /\ x - 1 \in Nat
        OBVIOUS
      <4>3. QED
        BY <4>1, <4>2
    <3>2. /\ Append(b, x) \in Seq(Nat) /\ Len(Append(b, x)) = x /\ Append(b, x)[x] = x
          /\ \A k \in 1 .. x - 1 : Append(b, x)[k] = b[k]
      BY <3>1, AppendProperties
    <3>3. \A k \in 1 .. x : a[k] = Append(b, x)[k]
      BY <3>2
    <3> HIDE DEF a, b
    <3>4. QED
      BY <3>1, <3>2, <3>3, SeqEqual DEF a, b
  <2>4. \A x \in 1 .. n : x > 1 => x - 1 \in 1 .. n
    OBVIOUS
  <2>5. \E x \in 0 .. 7 : DOMAIN migrations = 1 .. x
    <3>1. n \in 0 .. 7
      OBVIOUS
    <3>2. QED
      BY <2>1, <3>1
  <2>6. \A x \in DOMAIN migrations :
          migrations[x].hash = MigrationHash(migrations[x].prev, x)
    BY <2>1, <2>2, <2>3 DEF MigrationHash
  <2>7. ASSUME NEW x \in DOMAIN migrations, x > 1
        PROVE  migrations[x].prev = migrations[x - 1].hash
    <3>1. x \in 1 .. n /\ x - 1 \in 1 .. n
      BY <2>1, <2>4, <2>7
    <3>2. QED
      BY <2>2, <3>1
  <2>8. QED
    BY <2>5, <2>6, <2>7 DEF Chain
<1>2. Chain(migrations)
  BY <1>1 DEF Init
<1>3. /\ DOMAIN at = Isolates /\ DOMAIN latest = Isolates
      /\ \A i \in Isolates : at[i].pc = "cold"
  BY DEF Init, Cold
<1>4. QED
  BY <1>2, <1>3 DEF MigrateInv, Climbing

LEMMA NextMigrate == MigrateInv /\ [Next]_vars => MigrateInv'
<1> SUFFICES ASSUME MigrateInv, [Next]_vars PROVE MigrateInv'
  OBVIOUS
<1>1. CASE UNCHANGED <<at, latest, migrations>>
  BY <1>1 DEF MigrateInv
<1>2. CASE BundleTransitions \/ BundleProof \/ BundleDone
  BY <1>1, <1>2 DEF BundleTransitions, BundleProof, BundleDone, archive
<1>3. QED
  BY <1>1, <1>2, OpenMigrates, ServeMigrates DEF Next, vars

\* archive_migrations is a chain of versions whatever isolates migrate at
\* once and wherever they stop: migrate() reads the last row before every
\* version and the primary key refuses the second writer.
THEOREM MigrationsAreChained == Spec => []MigrationsChained
<1>1. MigrateInv => MigrationsChained
  <2> SUFFICES ASSUME MigrateInv PROVE MigrationsChained
    OBVIOUS
  <2>1. PICK n \in 0 .. 7 : DOMAIN migrations = 1 .. n
    BY DEF MigrateInv, Chain
  <2>2. Cardinality(1 .. n) = n
    <3>1. CASE n = 0
      <4>1. 1 .. n = {}
        BY <3>1
      <4>2. QED
        BY <3>1, <4>1, FS_EmptySet
    <3>2. CASE n # 0
      <4>1. 1 \in Int /\ n \in Int /\ ~(1 > n) /\ n - 1 + 1 = n
        BY <3>2
      <4>2. QED
        BY <4>1, FS_Interval
    <3>3. QED
      BY <3>1, <3>2
  <2>3. QED
    BY <2>1, <2>2 DEF MigrateInv, Chain, MigrationsChained
<1>2. QED
  BY <1>1, InitMigrate, NextMigrate, PTL DEF Spec

-----------------------------------------------------------------------------
(* The back-fills.                                                         *)

\* Every message of st has the column s, when s is one a version promises.
Kept(s, st, cols) == s \in Columns \ {"archived_at"} => \A m \in st : s \in cols[m]

\* The statements of a version behind position p have reached every message
\* of st, also the messages stored since they ran.
Filling(p, st, cols) ==
    /\ p.pc = "fill" =>
          /\ p.k \in DOMAIN BackFill[p.v]
          /\ \A j \in 1 .. p.k - 1 : Kept(BackFill[p.v][j], st, cols)
    /\ p.pc = "record" => \A m \in st : Promised(p.v) \subseteq cols[m]

FillInv ==
    /\ stored \subseteq Messages /\ DOMAIN columns = Messages
    /\ \A i \in Isolates : Filling(at[i], stored, columns)
    /\ RecordedIsFilled

\* The statements of the versions 1 to 7.
LEMMA BackFillOf ==
    /\ \A v \in {1, 2, 6, 7} : BackFill[v] = <<>>
    /\ BackFill[3] = <<"genre", "submitted_at", "archived_at",
                       "edict_index", "ti_definition_index">>
    /\ BackFill[4] = <<"constitutional", "superseded_by">>
    /\ BackFill[5] = <<"origin_node_id", "vector_clock", "content_hash">>
BY DEF BackFill

\* In particular each version has a sequence of statements.
LEMMA BackFillDomain ==
    ASSUME NEW v \in 1 .. 7
    PROVE  /\ Len(BackFill[v]) \in Nat /\ DOMAIN BackFill[v] = 1 .. Len(BackFill[v])
           /\ BackFill[v] # <<>> => 1 \in DOMAIN BackFill[v]
<1>1. v \in {1, 2, 6, 7} \/ v = 3 \/ v = 4 \/ v = 5
  OBVIOUS
<1>2. CASE v \in {1, 2, 6, 7}
  BY <1>2, BackFillOf
<1>3. CASE v = 3
  BY <1>3, BackFillOf
<1>4. CASE v = 4
  BY <1>4, BackFillOf
<1>5. CASE v = 5
  BY <1>5, BackFillOf
<1>6. QED
  BY <1>1, <1>2, <1>3, <1>4, <1>5

\* A version without statements promises nothing.
LEMMA NothingPromised ==
    ASSUME NEW v, BackFill[v] = <<>>
    PROVE  Promised(v) = {}
BY DEF Promised

\* Columns are only ever added, and appendMessage fills the promised ones.
Grows ==
    /\ stored' \subseteq Messages /\ DOMAIN columns' = Messages
    /\ \A m \in stored : columns[m] \subseteq columns'[m]
    /\ \A m \in stored' \ stored : Columns \ {"archived_at"} \subseteq columns'[m]

\* Then nothing that was filled is lost.
LEMMA FillingGrows ==
    ASSUME Grows
    PROVE  /\ \A s : Kept(s, stored, columns) => Kept(s, stored', columns')
           /\ \A p : Filling(p, stored, columns) => Filling(p, stored', columns')
           /\ \A v : (\A m \in stored : Promised(v) \subseteq columns[m])
                        => (\A m \in stored' : Promised(v) \subseteq columns'[m])
<1>1. \A v : Promised(v) \subseteq Columns \ {"archived_at"}
  BY DEF Promised
<1>2. \A s : Kept(s, stored, columns) => Kept(s, stored', columns')
  BY DEF Kept, Grows
<1>3. ASSUME NEW v, \A m \in stored : Promised(v) \subseteq columns[m], NEW m \in stored'
      PROVE  Promised(v) \subseteq columns'[m]
  <2>1. CASE m \in stored
    BY <1>3, <2>1 DEF Grows
  <2>2. CASE m \notin stored
    BY <1>1, <2>2 DEF Grows
  <2>3. QED
    BY <2>1, <2>2
<1>4. \A p : Filling(p, stored, columns) => Filling(p, stored', columns')
  BY <1>2, <1>3 DEF Filling
<1>5. QED
  BY <1>2, <1>3, <1>4

\* Isolate i moves to p, the recorded versions stay.
LEMMA FillStep ==
    ASSUME MigrateInv, FillInv, UNCHANGED migrations, Grows,
           NEW i \in Isolates, NEW p, at' = [at EXCEPT ![i] = p],
           Filling(p, stored', columns')
    PROVE  FillInv'
<1>1. \A q \in Isolates : at'[q] = IF q = i THEN p ELSE at[q]
  BY DEF MigrateInv
<1>2. \A q \in Isolates : Filling(at'[q], stored', columns')
  BY <1>1, FillingGrows DEF FillInv
<1>3. RecordedIsFilled'
  BY FillingGrows DEF FillInv, RecordedIsFilled
<1>4. QED
  BY <1>2, <1>3 DEF FillInv, Grows

\* Isolate i moves outside the back-fills and no column changes.
LEMMA NoFillStep ==
    ASSUME MigrateInv, FillInv, UNCHANGED <<migrations, stored, columns>>,
           NEW i \in Isolates, NEW p, at' = [at EXCEPT ![i] = p],
           p.pc \notin {"fill", "record"}
    PROVE  FillInv'
<1>1. Grows
  BY DEF Grows, FillInv
<1>2. Filling(p, stored', columns')
  BY DEF Filling
<1>3. QED
  BY <1>1, <1>2, FillStep

\* Isolate i records version v, which is filled.
LEMMA RecordFills ==
    ASSUME MigrateInv, FillInv, UNCHANGED <<stored, columns>>,
           NEW i \in Isolates, NEW v, NEW prev, InsertMigration(v, prev),
           \A m \in stored : Promised(v) \subseteq columns[m],
           at' = [at EXCEPT ![i] = Idle] \/ at' = [at EXCEPT ![i] = After(v)]
    PROVE  FillInv'
<1>1. \A q \in Isolates : at'[q] = at[q] \/ at'[q] = Idle \/ at'[q] = After(v)
  BY DEF MigrateInv
<1>2. Filling(Idle, stored, columns) /\ Filling(After(v), stored, columns)
  BY DEF Filling, Idle, After
<1>3. \A q \in Isolates : Filling(at'[q], stored', columns')
  BY <1>1, <1>2 DEF FillInv
<1>4. DOMAIN migrations' = DOMAIN migrations \cup {v}
  BY DEF InsertMigration
<1>5. RecordedIsFilled'
  BY <1>4 DEF FillInv, RecordedIsFilled
<1>6. QED
  BY <1>3, <1>5 DEF FillInv

\* One statement of a back-fill reaches every message stored.
LEMMA StatementFills ==
    ASSUME FillInv, UNCHANGED stored, NEW s, FillStatement(s)
    PROVE  Grows /\ Kept(s, stored', columns')
<1>1. CASE s = "archived_at"
  <2>1. columns' = [m \in Messages |->
                      IF m \in stored /\ IsArchived(m)
                      THEN columns[m] \cup {"archived_at"} ELSE columns[m]]
    BY <1>1 DEF FillStatement, FillArchivedAt
  <2>2. QED
    BY <1>1, <2>1 DEF Grows, Kept, FillInv
<1>2. CASE s \in {"edict_index", "ti_definition_index"}
  <2>1. UNCHANGED columns
    BY <1>2 DEF FillStatement
  <2>2. QED
    BY <1>2, <2>1 DEF Grows, Kept, FillInv, Columns
<1>3. CASE s # "archived_at" /\ s \notin {"edict_index", "ti_definition_index"}
  <2>1. columns' = [m \in Messages |->
                      IF m \in stored THEN columns[m] \cup {s} ELSE columns[m]]
    BY <1>3 DEF FillStatement
  <2>2. QED
    BY <2>1 DEF Grows, Kept, FillInv
<1>4. QED
  BY <1>1, <1>2, <1>3

\* Opening the archive.
LEMMA OpenFills ==
    ASSUME MigrateInv, FillInv, NEW i \in Isolates, Open(i)
    PROVE  FillInv'
<1>1. CASE FirstRequest(i)
  BY <1>1, NoFillStep DEF FirstRequest, Go, archive
<1>2. CASE CreateTables(i)
  BY <1>2, NoFillStep DEF CreateTables, Go
<1>3. CASE AddColumns(i)
  BY <1>3, NoFillStep DEF AddColumns, Go
<1>4. CASE CreateIndexes(i)
  BY <1>4, NoFillStep DEF CreateIndexes, Go, Failed
<1>5. CASE ReadLatest(i)
  <2> DEFINE v == at[i].v
  <2>1. UNCHANGED <<migrations, stored, columns>> /\ Climb(i, v) /\ at[i].pc = "read"
    BY <1>5 DEF ReadLatest, archive, At
  <2>2. v \in 1 .. 7
    BY <2>1 DEF MigrateInv, Climbing
  <2>3. Grows
    BY <2>1 DEF Grows, FillInv
  <2> HIDE DEF v
  <2>4. CASE Recorded = 0
    BY <2>1, <2>4, NoFillStep DEF Climb, Go
  <2>5. CASE Recorded # 0 /\ Recorded >= v
    <3>1. at' = [at EXCEPT ![i] = After(v)] /\ After(v).pc \notin {"fill", "record"}
      BY <2>1, <2>5 DEF Climb, After
    <3>2. QED
      BY <2>1, <3>1, NoFillStep
  <2>6. CASE Recorded # 0 /\ ~(Recorded >= v) /\ BackFill[v] = <<>>
    <3> DEFINE p == [pc |-> "record", v |-> v, k |-> 0]
    <3>1. at' = [at EXCEPT ![i] = p]
      BY <2>1, <2>6 DEF Climb, Go
    <3>2. Filling(p, stored', columns')
      BY <2>6, NothingPromised DEF Filling
    <3> HIDE DEF p
    <3>3. QED
      BY <2>1, <2>3, <3>1, <3>2, FillStep
  <2>7. CASE Recorded # 0 /\ ~(Recorded >= v) /\ BackFill[v] # <<>>
    <3> DEFINE p == [pc |-> "fill", v |-> v, k |-> 1]
    <3>1. at' = [at EXCEPT ![i] = p]
      BY <2>1, <2>7 DEF Climb, Go
    <3>2. 1 \in DOMAIN BackFill[v]
      BY <2>2, <2>7, BackFillDomain
    <3>3. Filling(p, stored', columns')
      BY <3>2 DEF Filling
    <3> HIDE DEF p
    <3>4. QED
      BY <2>1, <2>3, <3>1, <3>3, FillStep
  <2>8. QED
    BY <2>4, <2>5, <2>6, <2>7
<1>6. CASE RecordFirst(i)
  <2>1. UNCHANGED <<stored, columns>>
    BY <1>6 DEF RecordFirst
  <2>2. CASE 1 \in DOMAIN migrations
    BY <1>6, <2>1, <2>2, NoFillStep DEF RecordFirst, Failed
  <2>3. CASE 1 \notin DOMAIN migrations
    <3>1. InsertMigration(1, <<>>) /\ at' = [at EXCEPT ![i] = Idle]
      BY <1>6, <2>3 DEF RecordFirst
    <3>2. Promised(1) = {}
      BY BackFillOf, NothingPromised
    <3>3. QED
      BY <2>1, <3>1, <3>2, RecordFills
  <2>4. QED
    BY <2>2, <2>3
<1>7. CASE RunBackFill(i)
  <2> DEFINE v == at[i].v
             k == at[i].k
             s == BackFill[v][k]
  <2>1. /\ UNCHANGED <<migrations, stored>> /\ at[i].pc = "fill"
        /\ FillStatement(s)
    BY <1>7 DEF RunBackFill, At
  <2>2. Grows /\ Kept(s, stored', columns')
    BY <2>1, StatementFills
  <2>3. v \in 1 .. 7 /\ k \in DOMAIN BackFill[v]
    BY <2>1 DEF MigrateInv, Climbing, FillInv, Filling
  <2>4. Len(BackFill[v]) \in Nat /\ DOMAIN BackFill[v] = 1 .. Len(BackFill[v])
    BY <2>3, BackFillDomain
  <2>5. \A j \in 1 .. k - 1 : Kept(BackFill[v][j], stored, columns)
    BY <2>1 DEF FillInv, Filling
  <2>6. \A j \in 1 .. k : Kept(BackFill[v][j], stored', columns')
    <3>1. \A j \in 1 .. k - 1 : Kept(BackFill[v][j], stored', columns')
      BY <2>2, <2>5, FillingGrows
    <3>2. \A j \in 1 .. k : j \in 1 .. k - 1 \/ j = k
      BY <2>3, <2>4
    <3>3. QED
      BY <2>2, <3>1, <3>2
  <2>7. CASE k = Len(BackFill[v])
    <3> DEFINE p == [pc |-> "record", v |-> v, k |-> 0]
    <3>1. at' = [at EXCEPT ![i] = p]
      BY <1>7, <2>7 DEF RunBackFill, Go
    <3>2. ASSUME NEW m \in stored'
          PROVE  Promised(v) \subseteq columns'[m]
      BY <2>4, <2>6, <2>7 DEF Promised, Kept
    <3>3. Filling(p, stored', columns')
      BY <3>2 DEF Filling
    <3> HIDE DEF p
    <3>4. QED
      BY <2>1, <2>2, <3>1, <3>3, FillStep
  <2>8. CASE k # Len(BackFill[v])
    <3> DEFINE p == [pc |-> "fill", v |-> v, k |-> k + 1]
    <3>1. at' = [at EXCEPT ![i] = p]
      BY <1>7, <2>8 DEF RunBackFill, Go
    <3>2. k + 1 \in DOMAIN BackFill[v] /\ (k + 1) - 1 = k
      BY <2>3, <2>4, <2>8
    <3>3. Filling(p, stored', columns')
      BY <2>6, <3>2 DEF Filling
    <3> HIDE DEF p
    <3>4. QED
      BY <2>1, <2>2, <3>1, <3>3, FillStep
  <2>9. QED
    BY <2>7, <2>8
<1>8. CASE RecordVersion(i)
  <2> DEFINE v == at[i].v
  <2>1. UNCHANGED <<stored, columns>> /\ at[i].pc = "record"
    BY <1>8 DEF RecordVersion, At
  <2>2. \A m \in stored : Promised(v) \subseteq columns[m]
    BY <2>1 DEF FillInv, Filling
  <2>3. CASE v \in DOMAIN migrations
    BY <1>8, <2>1, <2>3, NoFillStep DEF RecordVersion, Failed
  <2>4. CASE v \notin DOMAIN migrations
    BY <1>8, <2>1, <2>2, <2>4, RecordFills DEF RecordVersion
  <2>5. QED
    BY <2>3, <2>4
<1>9. QED
  BY <1>1, <1>2, <1>3, <1>4, <1>5, <1>6, <1>7, <1>8 DEF Open

\* The columns of one stored message grow.
LEMMA ColumnsGrow ==
    ASSUME FillInv, UNCHANGED stored, NEW m, NEW c,
           columns' = [columns EXCEPT ![m] = @ \cup c]
    PROVE  Grows
BY DEF FillInv, Grows

\* The open archive: a stored message comes with its columns, archiving adds
\* to them.
LEMMA ServeFills ==
    ASSUME MigrateInv, FillInv, NEW i \in Isolates,
           \/ \E m \in Messages : AppendMessage(i, m)
           \/ \E m \in Messages, edge \in Edges : NumberTransition(i, m, edge)
           \/ AppendTransition(i) \/ BundleMessages(i) \/ Throw(i) \/ Evict(i)
    PROVE  FillInv'
<1> USE DEF Go, archive
<1>1. ASSUME NEW m \in Messages, AppendMessage(i, m)
      PROVE  FillInv'
  <2>1. Grows
    BY <1>1 DEF AppendMessage, Grows, FillInv
  <2>2. UNCHANGED <<at, migrations>>
    BY <1>1 DEF AppendMessage
  <2>3. RecordedIsFilled'
    BY <2>1, <2>2, FillingGrows DEF FillInv, RecordedIsFilled
  <2>4. QED
    BY <2>1, <2>2, <2>3, FillingGrows DEF FillInv, Grows
<1>2. CASE BundleMessages(i)
  BY <1>2 DEF BundleMessages, FillInv, RecordedIsFilled
<1>3. ASSUME NEW m \in Messages, NEW edge \in Edges, NumberTransition(i, m, edge)
      PROVE  FillInv'
  BY <1>3, NoFillStep DEF NumberTransition
<1>4. CASE CheckTransition(i)
  BY <1>4, NoFillStep DEF CheckTransition, Idle
<1>5. CASE ReadPrevious(i)
  BY <1>5, NoFillStep DEF ReadPrevious
<1>6. CASE InsertTransition(i)
  BY <1>6, NoFillStep DEF InsertTransition, Idle
<1>7. CASE MarkArchived(i)
  <2>1. Grows
    BY <1>7, ColumnsGrow DEF MarkArchived
  <2>2. Filling([pc |-> "refresh", v |-> 0, k |-> 0], stored', columns')
    BY DEF Filling
  <2>3. QED
    BY <1>7, <2>1, <2>2, FillStep DEF MarkArchived
<1>8. CASE RefreshColumns(i)
  <2>1. Grows
    BY <1>8, ColumnsGrow DEF RefreshColumns
  <2>2. /\ Filling([pc |-> "index", v |-> 0, k |-> 0], stored', columns')
        /\ Filling(Idle, stored', columns')
    BY DEF Filling, Idle
  <2>3. QED
    BY <1>8, <2>1, <2>2, FillStep DEF RefreshColumns
<1>9. CASE IndexMessage(i)
  BY <1>9, NoFillStep DEF IndexMessage, Idle
<1>10. CASE Throw(i)
  <2>1. at' = [at EXCEPT ![i] = Failed] \/ at' = [at EXCEPT ![i] = Idle]
    BY <1>10 DEF Throw
  <2>2. QED
    BY <1>10, <2>1, NoFillStep DEF Throw, Idle, Failed
<1>11. CASE Evict(i)
  BY <1>11, NoFillStep DEF Evict, Cold
<1>12. QED
  BY <1>1, <1>2, <1>3, <1>4, <1>5, <1>6, <1>7, <1>8, <1>9, <1>10, <1>11
     DEF AppendTransition

LEMMA InitFill == Init => FillInv
<1> SUFFICES ASSUME Init PROVE FillInv
  OBVIOUS
<1>1. stored \subseteq Messages /\ DOMAIN columns = Messages
  BY DEF Init
<1>2. \A v \in DOMAIN migrations : v \in {1, 2}
  BY DEF Init, LegacyMigrations
<1>3. \A v \in DOMAIN migrations : Promised(v) = {}
  BY <1>2, BackFillOf, NothingPromised
<1>4. \A i \in Isolates : at[i].pc = "cold"
  BY DEF Init, Cold
<1>5. QED
  BY <1>1, <1>3, <1>4 DEF FillInv, Filling, RecordedIsFilled

LEMMA NextFill == MigrateInv /\ FillInv /\ [Next]_vars => FillInv'
<1> SUFFICES ASSUME MigrateInv, FillInv, [Next]_vars PROVE FillInv'
  OBVIOUS
<1>1. CASE UNCHANGED <<at, stored, columns, migrations>>
  BY <1>1 DEF FillInv, RecordedIsFilled
<1>2. CASE BundleTransitions \/ BundleProof \/ BundleDone
  BY <1>1, <1>2 DEF BundleTransitions, BundleProof, BundleDone, archive
<1>3. QED
  BY <1>1, <1>2, OpenFills, ServeFills DEF Next, vars

\* A version row is never there before its back-fill has reached every
\* message, the ones stored while it ran included.
THEOREM RecordedVersionsAreFilled == Spec => []RecordedIsFilled
<1>1. FillInv => RecordedIsFilled
  BY DEF FillInv
<1>2. QED
  BY <1>1, InitMigrate, NextMigrate, InitFill, NextFill, PTL DEF Spec

-----------------------------------------------------------------------------
(* archived_at and the audit bundle.                                       *)

ArchivedIn(lg, m) == Entered(lg[m], "archived") # {}

\* Isolate at position p with job j appends to a stored message, and marks
\* and indexes only what has its archiving row.
Working(p, j, st, lg) ==
    /\ p.pc \in Appending => j.msg \in st
    /\ p.pc \in Archiving => j.msg \in st /\ ArchivedIn(lg, j.msg)

BundleType == [pc: {"idle", "transitions", "proofs"}, msgs: SUBSET Messages,
               rows: SUBSET Messages, proofs: SUBSET Messages]

\* archived_at is set behind the row that archives the message, never before;
\* what the export has read of the messages is therefore archived.
MarkInv ==
    /\ \A m \in Messages : "archived_at" \in columns[m] => ArchivedIn(log, m)
    /\ \A m \in Messages : ArchivedIn(log, m) => m \in stored
    /\ \A i \in Isolates : Working(at[i], job[i], stored, log)
    /\ bundle \in BundleType
    /\ \A m \in bundle.msgs : ArchivedIn(log, m)
    /\ BundleComplete

\* Rows are never taken away: what is archived stays so.
RowsStay ==
    /\ stored \subseteq stored'
    /\ \A m \in Messages : ArchivedIn(log, m) => ArchivedIn(log', m)

\* Isolate i moves to p with job j.
LEMMA MarkStep ==
    ASSUME AppendInv, MarkInv, stored \subseteq Messages, RowsStay, UNCHANGED bundle,
           NEW i \in Isolates, NEW p, NEW j,
           at' = [at EXCEPT ![i] = p],
           job' = [job EXCEPT ![i] = j] \/ (UNCHANGED job /\ j = job[i]),
           Working(p, j, stored', log'),
           \A m \in Messages : "archived_at" \in columns'[m] => ArchivedIn(log', m),
           \A m \in Messages : ArchivedIn(log', m) => m \in stored'
    PROVE  MarkInv'
<1>1. /\ \A q \in Isolates : at'[q] = IF q = i THEN p ELSE at[q]
      /\ \A q \in Isolates : job'[q] = IF q = i THEN j ELSE job[q]
  BY DEF AppendInv
<1>2. \A q \in Isolates : Working(at[q], job[q], stored', log')
  BY DEF MarkInv, Working, RowsStay
<1>3. \A q \in Isolates : Working(at'[q], job'[q], stored', log')
  BY <1>1, <1>2
<1>4. /\ bundle' \in BundleType /\ BundleComplete'
      /\ \A m \in bundle'.msgs : ArchivedIn(log', m)
  <2>1. bundle.msgs \subseteq Messages
    BY DEF MarkInv, BundleType
  <2>2. QED
    BY <2>1 DEF MarkInv, RowsStay, BundleComplete
<1>5. QED
  BY <1>3, <1>4 DEF MarkInv

\* Isolate i moves to p; neither the messages nor the logs change.
LEMMA NoMarkStep ==
    ASSUME AppendInv, MarkInv, stored \subseteq Messages,
           UNCHANGED <<stored, log, columns, bundle>>,
           NEW i \in Isolates, NEW p, at' = [at EXCEPT ![i] = p],
           \/ UNCHANGED job /\ Working(p, job[i], stored, log)
           \/ job' = [job EXCEPT ![i] = NoJob] /\ p.pc \notin Appending \cup Archiving
    PROVE  MarkInv'
<1>1. RowsStay
  BY DEF RowsStay
<1>2. CASE UNCHANGED job /\ Working(p, job[i], stored, log)
  BY <1>1, <1>2, MarkStep DEF MarkInv
<1>3. CASE job' = [job EXCEPT ![i] = NoJob] /\ p.pc \notin Appending \cup Archiving
  <2>1. Working(p, NoJob, stored', log')
    BY <1>3 DEF Working
  <2>2. QED
    BY <1>1, <1>3, <2>1, MarkStep DEF MarkInv
<1>4. QED
  BY <1>2, <1>3

\* The columns may change elsewhere too, but archived_at does not.
LEMMA OtherColumns ==
    ASSUME AppendInv, MarkInv, stored \subseteq Messages,
           UNCHANGED <<stored, log, job, bundle>>,
           NEW i \in Isolates, NEW p, at' = [at EXCEPT ![i] = p],
           p.pc \notin Appending \cup Archiving,
           \A m \in Messages : "archived_at" \in columns'[m] => ArchivedIn(log, m)
    PROVE  MarkInv'
<1>1. RowsStay
  BY DEF RowsStay
<1>2. Working(p, job[i], stored', log')
  BY DEF Working
<1>3. QED
  BY <1>1, <1>2, MarkStep DEF MarkInv

\* Opening the archive marks what is archived already.
LEMMA OpenMarks ==
    ASSUME AppendInv, FillInv, MarkInv, NEW i \in Isolates, Open(i)
    PROVE  MarkInv'
<1> USE DEF Go, archive, Appending, Archiving
<1>1. stored \subseteq Messages
  BY DEF FillInv
<1>2. \A p : p.pc \notin Appending \cup Archiving => Working(p, job[i], stored, log)
  BY DEF Working
<1>3. CASE FirstRequest(i)
  BY <1>1, <1>2, <1>3, NoMarkStep DEF FirstRequest
<1>4. CASE CreateTables(i)
  BY <1>1, <1>2, <1>4, NoMarkStep DEF CreateTables
<1>5. CASE AddColumns(i)
  BY <1>1, <1>2, <1>5, NoMarkStep DEF AddColumns
<1>6. CASE CreateIndexes(i)
  BY <1>1, <1>2, <1>6, NoMarkStep DEF CreateIndexes, Failed
<1>7. CASE ReadLatest(i)
  <2>1. PICK p : at' = [at EXCEPT ![i] = p] /\ p.pc \in {"first", "ready", "read", "record", "fill"}
    <3>1. After(at[i].v).pc \in {"ready", "read"}
      BY DEF After
    <3>2. QED
      BY <1>7, <3>1 DEF ReadLatest, Climb
  <2>2. UNCHANGED <<stored, log, columns, job, bundle>>
    BY <1>7 DEF ReadLatest
  <2>3. QED
    BY <1>1, <1>2, <2>1, <2>2, NoMarkStep
<1>8. CASE RecordFirst(i)
  BY <1>1, <1>2, <1>8, NoMarkStep DEF RecordFirst, Failed, Idle
<1>9. CASE RunBackFill(i)
  <2> DEFINE s == BackFill[at[i].v][at[i].k]
  <2>1. UNCHANGED <<stored, log, job, bundle>> /\ FillStatement(s)
    BY <1>9 DEF RunBackFill
  <2>2. PICK p : at' = [at EXCEPT ![i] = p] /\ p.pc \in {"record", "fill"}
    <3>1. \/ at' = [at EXCEPT ![i] = [pc |-> "record", v |-> at[i].v, k |-> 0]]
          \/ at' = [at EXCEPT ![i] = [pc |-> "fill", v |-> at[i].v, k |-> at[i].k + 1]]
      BY <1>9 DEF RunBackFill
    <3>2. /\ [pc |-> "record", v |-> at[i].v, k |-> 0].pc = "record"
          /\ [pc |-> "fill", v |-> at[i].v, k |-> at[i].k + 1].pc = "fill"
      OBVIOUS
    <3>3. QED
      BY <3>1, <3>2, Zenon
  <2> HIDE DEF s
  <2>3. \A m \in Messages : "archived_at" \in columns'[m] => ArchivedIn(log, m)
    <3>1. CASE s = "archived_at"
      <4>1. \A m \in Messages : "archived_at" \in columns'[m] =>
                (IsArchived(m) \/ "archived_at" \in columns[m])
        BY <2>1, <3>1 DEF FillStatement, FillArchivedAt
      <4>2. QED
        BY <4>1 DEF MarkInv, IsArchived, ArchivedIn
    <3>2. CASE s \in {"edict_index", "ti_definition_index"}
      BY <2>1, <3>2 DEF FillStatement, MarkInv
    <3>3. CASE s # "archived_at" /\ s \notin {"edict_index", "ti_definition_index"}
      <4>1. \A m \in Messages : columns'[m] \subseteq columns[m] \cup {s}
        BY <2>1, <3>3 DEF FillStatement
      <4>2. QED
        BY <3>3, <4>1 DEF MarkInv
    <3>4. QED
      BY <3>1, <3>2, <3>3
  <2>4. QED
    BY <1>1, <2>1, <2>2, <2>3, OtherColumns
<1>10. CASE RecordVersion(i)
  <2>1. After(at[i].v).pc \in {"ready", "read"} /\ Failed.pc = "failed"
    BY DEF After, Failed
  <2>2. PICK p : at' = [at EXCEPT ![i] = p] /\ p.pc \in {"failed", "ready", "read"}
    BY <1>10, <2>1 DEF RecordVersion
  <2>3. UNCHANGED <<stored, log, columns, job, bundle>>
    BY <1>10 DEF RecordVersion
  <2>4. QED
    BY <1>1, <1>2, <2>2, <2>3, NoMarkStep
<1>11. QED
  BY <1>3, <1>4, <1>5, <1>6, <1>7, <1>8, <1>9, <1>10 DEF Open

\* A row is inserted under a new number: the other rows of the log stay.
LEMMA InsertKeeps ==
    ASSUME AppendInv, NEW i \in Isolates, InsertTransition(i),
           job[i].seq \notin DOMAIN log[job[i].msg]
    PROVE  /\ job[i].msg \in Messages
           /\ \A m \in Messages : ArchivedIn(log, m) => ArchivedIn(log', m)
           /\ \A m \in Messages : ArchivedIn(log', m) => ArchivedIn(log, m) \/ m = job[i].msg
           /\ IF job[i].edge.to = "archived" THEN ArchivedIn(log', job[i].msg)
              ELSE \A m \in Messages : ArchivedIn(log', m) => ArchivedIn(log, m)
<1> DEFINE j == job[i]
           f == log[j.msg]
           g == InsertRow(f, j.seq, j.edge, j.prev)
<1>1. j.msg \in Messages
  BY DEF InsertTransition, At, Appending, AppendInv, Current
<1>2. log' = [log EXCEPT ![j.msg] = g]
  BY DEF InsertTransition
<1>3. /\ DOMAIN g = DOMAIN f \cup {j.seq}
      /\ \A x \in DOMAIN f : g[x] = f[x]
      /\ g[j.seq].to = j.edge.to
  BY DEF InsertRow
<1> HIDE DEF g
<1>4. log'[j.msg] = g /\ \A m \in Messages : m # j.msg => log'[m] = log[m]
  BY <1>1, <1>2 DEF AppendInv
<1>5. Entered(f, "archived") \subseteq Entered(g, "archived")
  BY <1>3 DEF Entered
<1>6. j.edge.to = "archived" => j.seq \in Entered(g, "archived")
  BY <1>3 DEF Entered
<1>7. j.edge.to # "archived" => Entered(g, "archived") = Entered(f, "archived")
  BY <1>3 DEF Entered
<1>8. QED
  BY <1>1, <1>4, <1>5, <1>6, <1>7 DEF ArchivedIn

\* The open archive: messages, transitions and what follows an archiving row.
LEMMA ServeMarks ==
    ASSUME AppendInv, FillInv, MarkInv, NEW i \in Isolates,
           \/ \E m \in Messages : AppendMessage(i, m)
           \/ \E m \in Messages, edge \in Edges : NumberTransition(i, m, edge)
           \/ AppendTransition(i) \/ Throw(i) \/ Evict(i)
    PROVE  MarkInv'
<1> USE DEF Go, archive
<1>1. stored \subseteq Messages /\ DOMAIN columns = Messages
  BY DEF FillInv
<1>2. /\ "guard" \in Appending /\ "prev" \in Appending /\ "insert" \in Appending
      /\ "mark" \in Archiving /\ "refresh" \in Archiving /\ "index" \in Archiving
      /\ Idle.pc \notin Appending \cup Archiving
      /\ Failed.pc \notin Appending \cup Archiving
      /\ Cold.pc \notin Appending \cup Archiving
      /\ Appending \cap Archiving = {}
  BY DEF Appending, Archiving, Idle, Failed, Cold
<1>3. ASSUME NEW m \in Messages, AppendMessage(i, m)
      PROVE  MarkInv'
  <2>1. /\ stored' = stored \cup {m} /\ UNCHANGED <<at, job, log, bundle>>
        /\ columns' = [columns EXCEPT ![m] = Columns \ {"archived_at"}]
    BY <1>3 DEF AppendMessage
  <2>2. \A x \in Messages : "archived_at" \in columns'[x] => "archived_at" \in columns[x]
    BY <1>1, <2>1
  <2>3. QED
    BY <2>1, <2>2 DEF MarkInv, Working, BundleComplete
<1>4. ASSUME NEW m \in Messages, NEW edge \in Edges, NumberTransition(i, m, edge)
      PROVE  MarkInv'
  <2> DEFINE j == [msg |-> m, edge |-> edge, seq |-> NextSeq(log[m]), prev |-> 0]
             p == [pc |-> "guard", v |-> 0, k |-> 0]
  <2>1. /\ at' = [at EXCEPT ![i] = p] /\ job' = [job EXCEPT ![i] = j] /\ m \in stored
        /\ UNCHANGED <<stored, log, columns, bundle>>
    BY <1>4 DEF NumberTransition
  <2>2. j.msg = m /\ p.pc = "guard"
    OBVIOUS
  <2> HIDE DEF j, p
  <2>3. RowsStay
    BY <2>1 DEF RowsStay
  <2>4. Working(p, j, stored', log')
    BY <1>2, <2>1, <2>2 DEF Working
  <2>5. QED
    BY <1>1, <2>1, <2>3, <2>4, MarkStep DEF MarkInv
<1>5. CASE CheckTransition(i)
  <2>1. UNCHANGED <<stored, log, columns, bundle>> /\ at[i].pc = "guard"
    BY <1>5 DEF CheckTransition, At
  <2>2. \/ at' = [at EXCEPT ![i] = [pc |-> "prev", v |-> 0, k |-> 0]] /\ UNCHANGED job
        \/ at' = [at EXCEPT ![i] = Idle] /\ job' = [job EXCEPT ![i] = NoJob]
    BY <1>5 DEF CheckTransition
  <2>3. Working([pc |-> "prev", v |-> 0, k |-> 0], job[i], stored, log)
    BY <1>2, <2>1 DEF MarkInv, Working
  <2>4. QED
    BY <1>1, <1>2, <2>1, <2>2, <2>3, NoMarkStep
<1>6. CASE ReadPrevious(i)
  <2> DEFINE j == [job[i] EXCEPT !.prev = LastSeq(log[job[i].msg])]
             p == [pc |-> "insert", v |-> 0, k |-> 0]
  <2>1. /\ at' = [at EXCEPT ![i] = p] /\ job' = [job EXCEPT ![i] = j] /\ at[i].pc = "prev"
        /\ UNCHANGED <<stored, log, columns, bundle>>
    BY <1>6 DEF ReadPrevious, At
  <2>2. job[i] \in [msg: Messages, edge: Edges, seq: Nat, prev: Nat]
    BY <1>2, <2>1 DEF AppendInv, Current
  <2>3. j.msg = job[i].msg /\ p.pc = "insert"
    BY <2>2
  <2>4. job[i].msg \in stored
    BY <1>2, <2>1 DEF MarkInv, Working
  <2> HIDE DEF j, p
  <2>5. RowsStay
    BY <2>1 DEF RowsStay
  <2>6. Working(p, j, stored', log')
    BY <1>2, <2>1, <2>3, <2>4 DEF Working
  <2>7. QED
    BY <1>1, <2>1, <2>5, <2>6, MarkStep DEF MarkInv
<1>7. CASE InsertTransition(i)
  <2>1. at[i].pc = "insert" /\ UNCHANGED <<stored, columns, bundle>>
    BY <1>7 DEF InsertTransition, At
  <2>2. job[i].msg \in stored
    BY <1>2, <2>1 DEF MarkInv, Working
  <2>3. CASE job[i].seq \in DOMAIN log[job[i].msg]
    BY <1>1, <1>2, <1>7, <2>1, <2>3, NoMarkStep DEF InsertTransition
  <2>4. CASE job[i].seq \notin DOMAIN log[job[i].msg]
    <3>1. /\ \A m \in Messages : ArchivedIn(log, m) => ArchivedIn(log', m)
          /\ \A m \in Messages : ArchivedIn(log', m) => ArchivedIn(log, m) \/ m = job[i].msg
          /\ job[i].edge.to = "archived" => ArchivedIn(log', job[i].msg)
      BY <1>7, <2>4, InsertKeeps
    <3>2. RowsStay
      BY <2>1, <3>1 DEF RowsStay
    <3>3. /\ \A m \in Messages : ArchivedIn(log', m) => m \in stored'
          /\ \A m \in Messages : "archived_at" \in columns'[m] => ArchivedIn(log', m)
      BY <2>1, <2>2, <3>1 DEF MarkInv
    <3>4. CASE job[i].edge.to = "archived"
      <4> DEFINE p == [pc |-> "mark", v |-> 0, k |-> 0]
      <4>1. at' = [at EXCEPT ![i] = p] /\ UNCHANGED job
        BY <1>7, <2>4, <3>4 DEF InsertTransition
      <4>2. Working(p, job[i], stored', log')
        BY <2>1, <2>2, <3>1, <3>4 DEF Working, Appending, Archiving
      <4> HIDE DEF p
      <4>3. QED
        BY <1>1, <2>1, <3>2, <3>3, <4>1, <4>2, MarkStep
    <3>5. CASE job[i].edge.to # "archived"
      <4>1. at' = [at EXCEPT ![i] = Idle] /\ job' = [job EXCEPT ![i] = NoJob]
        BY <1>7, <2>4, <3>5 DEF InsertTransition
      <4>2. Working(Idle, NoJob, stored', log')
        BY <1>2 DEF Working
      <4>3. QED
        BY <1>1, <2>1, <3>2, <3>3, <4>1, <4>2, MarkStep
    <3>6. QED
      BY <3>4, <3>5
  <2>5. QED
    BY <2>3, <2>4
<1>8. CASE MarkArchived(i)
  <2> DEFINE p == [pc |-> "refresh", v |-> 0, k |-> 0]
  <2>1. /\ at' = [at EXCEPT ![i] = p] /\ at[i].pc = "mark"
        /\ columns' = [columns EXCEPT ![job[i].msg] = @ \cup {"archived_at"}]
        /\ UNCHANGED <<stored, log, job, bundle>>
    BY <1>8 DEF MarkArchived, At
  <2>2. job[i].msg \in stored /\ ArchivedIn(log, job[i].msg)
    BY <1>2, <2>1 DEF MarkInv, Working
  <2>3. RowsStay
    BY <2>1 DEF RowsStay
  <2>4. Working(p, job[i], stored', log')
    BY <2>1, <2>2 DEF Working, Appending, Archiving
  <2>5. \A m \in Messages : "archived_at" \in columns'[m] => ArchivedIn(log', m)
    BY <1>1, <2>1, <2>2 DEF MarkInv
  <2> HIDE DEF p
  <2>6. QED
    BY <1>1, <2>1, <2>3, <2>4, <2>5, MarkStep DEF MarkInv
<1>9. CASE RefreshColumns(i)
  <2> DEFINE p == [pc |-> "index", v |-> 0, k |-> 0]
  <2>1. /\ at[i].pc = "refresh" /\ UNCHANGED <<stored, log, bundle>>
        /\ columns' = [columns EXCEPT ![job[i].msg] = @ \cup {"constitutional", "superseded_by"}]
    BY <1>9 DEF RefreshColumns, At
  <2>2. job[i].msg \in stored /\ ArchivedIn(log, job[i].msg)
    BY <1>2, <2>1 DEF MarkInv, Working
  <2>3. RowsStay
    BY <2>1 DEF RowsStay
  <2>4. \A m \in Messages : "archived_at" \in columns'[m] => ArchivedIn(log', m)
    BY <1>1, <2>1 DEF MarkInv
  <2>5. Working(p, job[i], stored', log') /\ Working(Idle, NoJob, stored', log')
    BY <2>1, <2>2 DEF Working, Appending, Archiving, Idle
  <2>6. \/ at' = [at EXCEPT ![i] = p] /\ UNCHANGED job
        \/ at' = [at EXCEPT ![i] = Idle] /\ job' = [job EXCEPT ![i] = NoJob]
    BY <1>9 DEF RefreshColumns
  <2> HIDE DEF p
  <2>7. QED
    BY <1>1, <2>1, <2>3, <2>4, <2>5, <2>6, MarkStep DEF MarkInv
<1>10. CASE IndexMessage(i)
  BY <1>1, <1>2, <1>10, NoMarkStep DEF IndexMessage
<1>11. CASE Throw(i)
  <2>1. at' = [at EXCEPT ![i] = Failed] \/ at' = [at EXCEPT ![i] = Idle]
    BY <1>11 DEF Throw
  <2>2. QED
    BY <1>1, <1>2, <1>11, <2>1, NoMarkStep DEF Throw
<1>12. CASE Evict(i)
  BY <1>1, <1>2, <1>12, NoMarkStep DEF Evict
<1>13. QED
  BY <1>3, <1>4, <1>5, <1>6, <1>7, <1>8, <1>9, <1>10, <1>11, <1>12 DEF AppendTransition

\* The export reads the messages that are marked, then their rows.
LEMMA BundleMarks ==
    ASSUME FillInv, MarkInv,
           \/ \E i \in Isolates : BundleMessages(i)
           \/ BundleTransitions \/ BundleProof \/ BundleDone
    PROVE  MarkInv'
<1> USE DEF archive
<1>1. /\ stored \subseteq Messages
      /\ bundle \in BundleType /\ NoBundle \in BundleType
  BY DEF FillInv, MarkInv, BundleType, NoBundle
<1>2. UNCHANGED <<columns, stored, log, at, job>>
  BY DEF BundleMessages, BundleTransitions, BundleProof, BundleDone
<1>3. SUFFICES /\ bundle' \in BundleType
               /\ \A m \in bundle'.msgs : ArchivedIn(log, m)
               /\ bundle'.pc = "proofs" => bundle'.rows = bundle'.msgs
  BY <1>2 DEF MarkInv, BundleComplete
<1>4. ASSUME NEW i \in Isolates, BundleMessages(i)
      PROVE  /\ bundle' \in BundleType
             /\ \A m \in bundle'.msgs : ArchivedIn(log, m)
             /\ bundle'.pc = "proofs" => bundle'.rows = bundle'.msgs
  BY <1>1, <1>4 DEF BundleMessages, BundleType, NoBundle, MarkInv
<1>5. CASE BundleTransitions
  <2>1. {m \in bundle.msgs : IsArchived(m)} = bundle.msgs
    BY DEF MarkInv, IsArchived, ArchivedIn
  <2>2. QED
    BY <1>1, <1>5, <2>1 DEF BundleTransitions, BundleType, MarkInv
<1>6. CASE BundleProof
  BY <1>1, <1>6 DEF BundleProof, BundleType, MarkInv, BundleComplete
<1>7. CASE BundleDone
  BY <1>1, <1>7 DEF BundleDone, NoBundle
<1>8. QED
  BY <1>4, <1>5, <1>6, <1>7

LEMMA InitMark == Init => MarkInv
<1> SUFFICES ASSUME Init PROVE MarkInv
  OBVIOUS
<1>1. \A m \in Messages : columns[m] = {}
  BY DEF Init
<1>2. ASSUME NEW m \in Messages, ArchivedIn(log, m)
      PROVE  m \in stored
  BY <1>2 DEF Init, ArchivedIn, Entered, EmptyLog, LegacyLog
<1>3. \A i \in Isolates : at[i].pc = "cold"
  BY DEF Init, Cold
<1>4. bundle = NoBundle
  BY DEF Init
<1>5. QED
  BY <1>1, <1>2, <1>3, <1>4
     DEF MarkInv, Working, Appending, Archiving, BundleType, NoBundle, BundleComplete

LEMMA NextMark == AppendInv /\ FillInv /\ MarkInv /\ [Next]_vars => MarkInv'
<1> SUFFICES ASSUME AppendInv, FillInv, MarkInv, [Next]_vars PROVE MarkInv'
  OBVIOUS
<1>1. CASE UNCHANGED vars
  BY <1>1 DEF vars, MarkInv, BundleComplete
<1>2. QED
  BY <1>1, OpenMarks, ServeMarks, BundleMarks DEF Next

\* An audit bundle lists no message without its archiving row, whatever is
\* archived between the statements of the export.
THEOREM BundlesAreComplete == Spec => []BundleComplete
<1>1. MarkInv => BundleComplete
  BY DEF MarkInv
<1>2. QED
  BY <1>1, InitAppend, NextAppend, InitMigrate, NextMigrate, InitFill, NextFill,
     InitMark, NextMark, PTL DEF Spec

-----------------------------------------------------------------------------
(* The indexes of archived edicts and definitions.                         *)

\* The archived messages nobody is indexing, but for those whose append was
\* cut short after a back-fill.
Settled ==
    {m \in Messages :
        /\ ArchivedIn(log, m) /\ m \notin torn
        /\ \A i \in Isolates : at[i].pc \in Archiving => job[i].msg # m}

\* Behind the statement of version 3 that fills archived_at.
Behind(p) == p.v = 3 /\ (p.pc = "record" \/ (p.pc = "fill" /\ p.k \in {4, 5}))

\* What the statements of version 3 behind p have put into the indexes.
Indexing(p, idx, S) ==
    /\ (p.pc = "fill" /\ p.v = 3 /\ p.k = 5) =>
          \A m \in S : HasIndex(m) /\ Genre[m] = "edict" => m \in idx
    /\ (p.pc = "record" /\ p.v = 3) => \A m \in S : HasIndex(m) => m \in idx

\* Once a back-fill of archived_at has run, every settled message is marked:
\* the back-fill caught those that were cut short before it.  The statements
\* after it catch them for the indexes.
IndexInv ==
    /\ \A i \in Isolates :
          /\ at[i].pc \in {"refresh", "index"} => "archived_at" \in columns[job[i].msg]
          /\ Behind(at[i]) => backfilled
          /\ Indexing(at[i], index, Settled)
    /\ 3 \in DOMAIN migrations =>
          backfilled /\ \A m \in Settled : HasIndex(m) => m \in index
    /\ backfilled => \A m \in Settled : "archived_at" \in columns[m]

\* A message is newly settled only when the isolate that archived it leaves.
LEMMA NewlySettled ==
    ASSUME AppendInv, NEW i \in Isolates, NEW p, at' = [at EXCEPT ![i] = p],
           \A q \in Isolates \ {i} : job'[q] = job[q],
           torn \subseteq torn',
           \A m \in Messages : ArchivedIn(log', m) =>
               ArchivedIn(log, m) \/ (p.pc \in Archiving /\ job'[i].msg = m),
           NEW m \in Settled', m \notin Settled
    PROVE  /\ at[i].pc \in Archiving /\ job[i].msg = m
           /\ ~(p.pc \in Archiving /\ job'[i].msg = m)
<1>1. \A q \in Isolates : at'[q] = IF q = i THEN p ELSE at[q]
  BY DEF AppendInv
<1>2. /\ m \in Messages /\ ArchivedIn(log', m) /\ m \notin torn'
      /\ \A q \in Isolates : at'[q].pc \in Archiving => job'[q].msg # m
  BY DEF Settled
<1>3. ~(p.pc \in Archiving /\ job'[i].msg = m)
  BY <1>1, <1>2
<1>4. ArchivedIn(log, m) /\ m \notin torn
  BY <1>2, <1>3
<1>5. PICK q \in Isolates : at[q].pc \in Archiving /\ job[q].msg = m
  BY <1>2, <1>4 DEF Settled
<1>6. q = i
  BY <1>1, <1>2, <1>5
<1>7. QED
  BY <1>3, <1>5, <1>6

\* Isolate i moves to p.
LEMMA IndexStep ==
    ASSUME AppendInv, IndexInv, UNCHANGED <<migrations, backfilled>>,
           NEW i \in Isolates, NEW p, at' = [at EXCEPT ![i] = p],
           \A q \in Isolates \ {i} :
               job'[q] = job[q] /\ (at[q].pc \in Archiving => job[q].msg \in Messages),
           index \subseteq index',
           \A m \in Messages : "archived_at" \in columns[m] => "archived_at" \in columns'[m],
           \A m \in Settled' \ Settled : backfilled =>
               "archived_at" \in columns'[m] /\ (HasIndex(m) => m \in index'),
           p.pc \in {"refresh", "index"} => "archived_at" \in columns'[job'[i].msg],
           Behind(p) => backfilled,
           Indexing(p, index', Settled')
    PROVE  IndexInv'
<1>1. \A q \in Isolates : at'[q] = IF q = i THEN p ELSE at[q]
  BY DEF AppendInv
<1>2. Settled \subseteq Messages /\ Settled' \subseteq Messages
  BY DEF Settled
<1>3. ASSUME NEW q \in Isolates
      PROVE  /\ at'[q].pc \in {"refresh", "index"} => "archived_at" \in columns'[job'[q].msg]
             /\ Behind(at'[q]) => backfilled'
             /\ Indexing(at'[q], index', Settled')
  <2>1. CASE q = i
    BY <1>1, <2>1
  <2>2. CASE q # i
    <3>1. at'[q] = at[q] /\ job'[q] = job[q]
      BY <1>1, <2>2
    <3>2. at[q].pc \in {"refresh", "index"} => "archived_at" \in columns'[job[q].msg]
      BY <2>2 DEF IndexInv, Archiving
    <3>3. Behind(at[q]) => backfilled
      BY DEF IndexInv
    <3>4. Indexing(at[q], index, Settled)
      BY DEF IndexInv
    <3>5. ASSUME backfilled PROVE Indexing(at[q], index', Settled')
      BY <3>4, <3>5 DEF Indexing
    <3>6. Indexing(at[q], index', Settled')
      BY <3>3, <3>5 DEF Indexing, Behind
    <3>7. QED
      BY <3>1, <3>2, <3>3, <3>6
  <2>3. QED
    BY <2>1, <2>2
<1>4. 3 \in DOMAIN migrations' =>
        backfilled' /\ \A m \in Settled' : HasIndex(m) => m \in index'
  BY DEF IndexInv
<1>5. backfilled' => \A m \in Settled' : "archived_at" \in columns'[m]
  BY <1>2 DEF IndexInv
<1>6. QED
  BY <1>3, <1>4, <1>5 DEF IndexInv

\* Nothing is archived, marked or indexed: isolate i moves to p, which is
\* outside version 3 and outside the steps behind an archiving row.
LEMMA AwayStep ==
    ASSUME AppendInv, MarkInv, stored \subseteq Messages, IndexInv,
           UNCHANGED <<migrations, backfilled, torn, columns, index, log>>,
           NEW i \in Isolates, NEW p, at' = [at EXCEPT ![i] = p],
           \A q \in Isolates \ {i} : job'[q] = job[q],
           at[i].pc \notin Archiving, p.pc \notin Archiving,
           ~Behind(p), ~(p.pc = "record" /\ p.v = 3)
    PROVE  IndexInv'
<1>1. \A q \in Isolates : at[q].pc \in Archiving => job[q].msg \in Messages
  BY DEF MarkInv, Working
<1>2. Settled' \ Settled = {}
  <2>1. ASSUME NEW m \in Settled' \ Settled PROVE FALSE
    BY <2>1, NewlySettled
  <2>2. QED
    BY <2>1
<1>3. Indexing(p, index', Settled')
  BY DEF Indexing, Behind
<1>4. p.pc \notin {"refresh", "index"}
  BY DEF Archiving
<1>5. QED
  BY <1>1, <1>2, <1>3, <1>4, IndexStep

\* Isolate i moves among the steps of the start: what is settled stays so.
LEMMA SettledStays ==
    ASSUME AppendInv, UNCHANGED <<log, job, torn>>,
           NEW i \in Isolates, NEW p, at' = [at EXCEPT ![i] = p],
           at[i].pc \notin Archiving, p.pc \notin Archiving
    PROVE  Settled' = Settled
<1>1. \A q \in Isolates : at'[q] = IF q = i THEN p ELSE at[q]
  BY DEF AppendInv
<1>2. \A q \in Isolates : at'[q].pc \in Archiving <=> at[q].pc \in Archiving
  BY <1>1
<1>3. QED
  BY <1>2 DEF Settled

\* The statement of version 3 that fills archived_at reaches every archived
\* message, also those whose append was cut short before it.
LEMMA ArchivedAtIndexes ==
    ASSUME AppendInv, FillInv, MarkInv, IndexInv, NEW i \in Isolates,
           RunBackFill(i), at[i].v = 3, at[i].k = 3
    PROVE  IndexInv'
<1> DEFINE p == [pc |-> "fill", v |-> 3, k |-> 4]
<1>1. /\ at[i].pc = "fill" /\ at' = [at EXCEPT ![i] = p]
      /\ UNCHANGED <<stored, log, migrations, job, index, torn>>
      /\ FillArchivedAt /\ backfilled'
  <2>1. BackFill[3][3] = "archived_at" /\ Len(BackFill[3]) = 5
    BY BackFillOf
  <2>2. FillStatement("archived_at")
    BY <2>1 DEF RunBackFill
  <2>3. QED
    BY <2>1, <2>2 DEF RunBackFill, FillStatement, At, Go
<1>2. p.pc = "fill" /\ p.k = 4 /\ p.v = 3
  OBVIOUS
<1> HIDE DEF p
<1>3. Settled' = Settled
  BY <1>1, <1>2, SettledStays DEF Archiving
<1>4. \A m \in Messages : ArchivedIn(log, m) => "archived_at" \in columns'[m]
  BY <1>1 DEF FillArchivedAt, MarkInv, IsArchived, ArchivedIn
<1>5. \A m \in Settled : "archived_at" \in columns'[m]
  BY <1>4 DEF Settled
<1>6. \A q \in Isolates : at'[q] = IF q = i THEN p ELSE at[q]
  BY <1>1 DEF AppendInv
<1>7. ASSUME NEW q \in Isolates
      PROVE  /\ at'[q].pc \in {"refresh", "index"} => "archived_at" \in columns'[job'[q].msg]
             /\ Indexing(at'[q], index', Settled')
  <2>1. CASE q = i
    BY <1>2, <1>6, <2>1 DEF Indexing
  <2>2. CASE q # i
    <3>1. at'[q] = at[q] /\ job'[q] = job[q]
      BY <1>1, <1>6, <2>2
    <3>2. at[q].pc \in {"refresh", "index"} =>
              job[q].msg \in Messages /\ ArchivedIn(log, job[q].msg)
      BY DEF MarkInv, Working, Archiving, FillInv
    <3>3. Indexing(at[q], index, Settled)
      BY DEF IndexInv
    <3>4. QED
      BY <1>1, <1>3, <1>4, <3>1, <3>2, <3>3
  <2>3. QED
    BY <2>1, <2>2
<1>8. QED
  BY <1>1, <1>3, <1>5, <1>7 DEF IndexInv

\* The two statements of version 3 behind it catch the same messages for the
\* indexes: the columns they select by are filled.
LEMMA IndexStatementIndexes ==
    ASSUME AppendInv, FillInv, MarkInv, IndexInv, NEW i \in Isolates,
           RunBackFill(i), at[i].v = 3, at[i].k \in {4, 5}
    PROVE  IndexInv'
<1> DEFINE genre == IF at[i].k = 4 THEN "edict" ELSE "ti_definition"
           p == IF at[i].k = 4 THEN [pc |-> "fill", v |-> 3, k |-> 5]
                ELSE [pc |-> "record", v |-> 3, k |-> 0]
<1>1. /\ at[i].pc = "fill" /\ at' = [at EXCEPT ![i] = p]
      /\ UNCHANGED <<stored, log, migrations, job, columns, torn, backfilled>>
      /\ index' = index \cup Indexed(genre)
  <2>1. BackFill[3][4] = "edict_index" /\ BackFill[3][5] = "ti_definition_index"
        /\ Len(BackFill[3]) = 5
    BY BackFillOf
  <2>2. FillStatement(BackFill[3][at[i].k])
    BY DEF RunBackFill
  <2>3. UNCHANGED <<columns, torn, backfilled>> /\ index' = index \cup Indexed(genre)
    BY <2>1, <2>2 DEF FillStatement, history
  <2>4. QED
    BY <2>1, <2>3 DEF RunBackFill, At, Go
<1>2. /\ p.v = 3 /\ p.pc \in {"fill", "record"}
      /\ at[i].k = 4 => p.pc = "fill" /\ p.k = 5
      /\ at[i].k = 5 => p.pc = "record"
  OBVIOUS
<1> HIDE DEF p
<1>3. Settled' = Settled
  BY <1>1, <1>2, SettledStays DEF Archiving
<1>4. backfilled /\ Indexing(at[i], index, Settled)
  BY <1>1 DEF IndexInv, Behind
<1>5. \A m \in Settled : "archived_at" \in columns[m] /\ m \in stored
  BY <1>4 DEF IndexInv, Settled, MarkInv
<1>6. \A m \in stored : "genre" \in columns[m]
  <2>1. BackFill[3][1] = "genre" /\ 1 \in 1 .. at[i].k - 1
    BY BackFillOf
  <2>2. Kept("genre", stored, columns)
    BY <1>1, <2>1 DEF FillInv, Filling
  <2>3. QED
    BY <2>2 DEF Kept, Columns
<1>7. \A m \in Settled : Genre[m] = genre => m \in index'
  BY <1>1, <1>5, <1>6 DEF Indexed
<1>8. Indexing(p, index', Settled)
  <2>1. CASE at[i].k = 4
    BY <1>2, <1>7, <2>1 DEF Indexing
  <2>2. CASE at[i].k = 5
    BY <1>1, <1>2, <1>4, <1>7, <2>2 DEF Indexing, HasIndex
  <2>3. QED
    BY <2>1, <2>2
<1>9. \A q \in Isolates : at[q].pc \in Archiving => job[q].msg \in Messages
  BY DEF MarkInv, Working, FillInv
<1>10. index \subseteq index' /\ p.pc \notin {"refresh", "index"} /\ Settled' \ Settled = {}
  BY <1>1, <1>2, <1>3
<1>11. QED
  BY <1>1, <1>3, <1>4, <1>8, <1>9, <1>10, IndexStep

\* The other statements of the back-fills touch neither.
LEMMA OtherStatementIndexes ==
    ASSUME AppendInv, MigrateInv, FillInv, MarkInv, IndexInv, NEW i \in Isolates,
           RunBackFill(i), ~(at[i].v = 3 /\ at[i].k \in {3, 4, 5})
    PROVE  IndexInv'
<1> DEFINE v == at[i].v
           k == at[i].k
           s == BackFill[v][k]
<1>1. /\ at[i].pc = "fill" /\ FillStatement(s)
      /\ UNCHANGED <<stored, log, migrations, job>>
      /\ \/ at' = [at EXCEPT ![i] = [pc |-> "record", v |-> v, k |-> 0]]
            /\ k = Len(BackFill[v])
         \/ at' = [at EXCEPT ![i] = [pc |-> "fill", v |-> v, k |-> k + 1]]
  BY DEF RunBackFill, At, Go
<1>2. v \in 2 .. 7 /\ k \in DOMAIN BackFill[v]
  BY <1>1 DEF MigrateInv, Climbing, FillInv, Filling
<1>3. /\ v \in {3, 4, 5} /\ k \in 1 .. 3 /\ (v = 3 => k \in {1, 2})
      /\ v = 3 => Len(BackFill[v]) = 5
      /\ s \notin {"archived_at", "edict_index", "ti_definition_index"}
  <2>1. v \in {2, 6, 7} \/ v = 3 \/ v = 4 \/ v = 5
    BY <1>2
  <2>2. CASE v \in {2, 6, 7}
    BY <1>2, <2>2, BackFillOf
  <2>3. CASE v = 3
    BY <1>2, <2>3, BackFillOf
  <2>4. CASE v = 4
    BY <1>2, <2>4, BackFillOf
  <2>5. CASE v = 5
    BY <1>2, <2>5, BackFillOf
  <2>6. QED
    BY <2>1, <2>2, <2>3, <2>4, <2>5
<1>4. PICK p : /\ at' = [at EXCEPT ![i] = p] /\ p.pc \in {"record", "fill"}
               /\ ~(p.v = 3 /\ (p.pc = "record" \/ p.k \in {4, 5}))
  <2>1. CASE at' = [at EXCEPT ![i] = [pc |-> "record", v |-> v, k |-> 0]]
             /\ k = Len(BackFill[v])
    <3> DEFINE r == [pc |-> "record", v |-> v, k |-> 0]
    <3>1. r.pc = "record" /\ r.v = v /\ v # 3
      BY <1>3, <2>1
    <3> HIDE DEF r
    <3>2. r.pc \in {"record", "fill"} /\ ~(r.v = 3 /\ (r.pc = "record" \/ r.k \in {4, 5}))
      BY <3>1
    <3>3. at' = [at EXCEPT ![i] = r]
      BY <2>1 DEF r
    <3>4. QED
      BY <3>2, <3>3, Zenon
  <2>2. CASE at' = [at EXCEPT ![i] = [pc |-> "fill", v |-> v, k |-> k + 1]]
    <3> DEFINE r == [pc |-> "fill", v |-> v, k |-> k + 1]
    <3>1. r.pc = "fill" /\ r.v = v /\ r.k = k + 1
      OBVIOUS
    <3> HIDE DEF r
    <3>2. r.pc \in {"record", "fill"} /\ ~(r.v = 3 /\ (r.pc = "record" \/ r.k \in {4, 5}))
      BY <1>3, <3>1
    <3>3. at' = [at EXCEPT ![i] = r]
      BY <2>2 DEF r
    <3>4. QED
      BY <3>2, <3>3, Zenon
  <2>3. QED
    BY <1>1, <2>1, <2>2
<1> HIDE DEF s, v, k
<1>5. /\ UNCHANGED <<index, torn, backfilled>>
      /\ columns' = [m \in Messages |->
                       IF m \in stored THEN columns[m] \cup {s} ELSE columns[m]]
  BY <1>1, <1>3 DEF FillStatement, history
<1>6. \A m \in Messages : "archived_at" \in columns[m] => "archived_at" \in columns'[m]
  BY <1>5
<1>7. Settled' = Settled
  <2>1. at[i].pc \notin Archiving /\ p.pc \notin Archiving
    BY <1>1, <1>4 DEF Archiving
  <2>2. UNCHANGED <<log, job, torn>> /\ at' = [at EXCEPT ![i] = p]
    BY <1>1, <1>4, <1>5
  <2>3. QED
    BY <2>1, <2>2, SettledStays
<1>8. \A q \in Isolates : at[q].pc \in Archiving => job[q].msg \in Messages
  BY DEF MarkInv, Working, FillInv
<1>9. ~Behind(p) /\ Indexing(p, index', Settled')
  BY <1>4 DEF Behind, Indexing
<1>10. p.pc \notin {"refresh", "index"} /\ Settled' \ Settled = {}
  BY <1>4, <1>7
<1>11. QED
  BY <1>1, <1>4, <1>5, <1>6, <1>8, <1>9, <1>10, IndexStep

\* Isolate i records version v and moves on: version 3 is recorded when the
\* statements behind it have run.
LEMMA RecordIndexes ==
    ASSUME AppendInv, FillInv, MarkInv, IndexInv,
           UNCHANGED <<log, columns, index, job, backfilled, torn>>,
           NEW i \in Isolates, NEW v, NEW prev, InsertMigration(v, prev),
           NEW p, at' = [at EXCEPT ![i] = p],
           p.pc \in {"ready", "read"}, at[i].pc \in {"first", "record"},
           v = 3 => at[i].pc = "record" /\ at[i].v = 3
    PROVE  IndexInv'
<1>1. \A q \in Isolates : at'[q] = IF q = i THEN p ELSE at[q]
  BY DEF AppendInv
<1>2. Settled' = Settled
  BY SettledStays DEF Archiving
<1>3. ~Behind(p) /\ Indexing(p, index, Settled)
  BY DEF Behind, Indexing
<1>4. DOMAIN migrations' = DOMAIN migrations \cup {v}
  BY DEF InsertMigration
<1>5. v = 3 => backfilled /\ \A m \in Settled : HasIndex(m) => m \in index
  <2>1. Behind(at[i]) => backfilled
    BY DEF IndexInv
  <2>2. Indexing(at[i], index, Settled)
    BY DEF IndexInv
  <2>3. QED
    BY <2>1, <2>2 DEF Behind, Indexing
<1>6. 3 \in DOMAIN migrations' =>
        backfilled' /\ \A m \in Settled' : HasIndex(m) => m \in index'
  BY <1>2, <1>4, <1>5 DEF IndexInv
<1>7. backfilled' => \A m \in Settled' : "archived_at" \in columns'[m]
  BY <1>2 DEF IndexInv
<1>8. ASSUME NEW q \in Isolates
      PROVE  /\ at'[q].pc \in {"refresh", "index"} => "archived_at" \in columns'[job'[q].msg]
             /\ Behind(at'[q]) => backfilled'
             /\ Indexing(at'[q], index', Settled')
  <2>1. CASE q = i
    BY <1>1, <1>2, <1>3, <2>1
  <2>2. CASE q # i
    BY <1>1, <1>2, <2>2 DEF IndexInv
  <2>3. QED
    BY <2>1, <2>2
<1>9. QED
  BY <1>6, <1>7, <1>8 DEF IndexInv

\* Isolate i moves between two steps of the start outside the back-fills.
LEMMA StartStep ==
    ASSUME AppendInv, FillInv, MarkInv, IndexInv,
           UNCHANGED <<migrations, backfilled, torn, columns, index, log, job>>,
           NEW i \in Isolates, NEW p, at' = [at EXCEPT ![i] = p],
           at[i].pc \in Starting \cup {"cold"},
           p.pc \in {"tables", "columns", "indexes", "read", "first", "ready", "failed"}
    PROVE  IndexInv'
<1>1. stored \subseteq Messages
  BY DEF FillInv
<1>2. at[i].pc \notin Archiving /\ p.pc \notin Archiving
  BY DEF Starting, Archiving
<1>3. ~Behind(p) /\ ~(p.pc = "record" /\ p.v = 3)
  BY DEF Behind
<1>4. QED
  BY <1>1, <1>2, <1>3, AwayStep

\* Opening the archive.
LEMMA OpenIndexes ==
    ASSUME AppendInv, MigrateInv, FillInv, MarkInv, IndexInv,
           NEW i \in Isolates, Open(i)
    PROVE  IndexInv'
<1> USE DEF Go, archive, history
<1>1. stored \subseteq Messages
  BY DEF FillInv
<1>2. /\ Failed.pc = "failed" /\ Idle.pc = "ready"
      /\ \A v : After(v).pc \in {"ready", "read"}
  BY DEF Failed, Idle, After
<1>3. CASE FirstRequest(i)
  <2> DEFINE p == [pc |-> "tables", v |-> 0, k |-> 0]
  <2>1. /\ at[i].pc = "cold" /\ at' = [at EXCEPT ![i] = p]
        /\ UNCHANGED <<migrations, backfilled, torn, columns, index, log, job>>
    BY <1>3 DEF FirstRequest, At
  <2>2. p.pc = "tables"
    OBVIOUS
  <2> HIDE DEF p
  <2>3. QED
    BY <2>1, <2>2, StartStep DEF Starting
<1>4. CASE CreateTables(i)
  <2> DEFINE p == [pc |-> "columns", v |-> at[i].v, k |-> 0]
  <2>1. /\ at[i].pc = "tables" /\ at' = [at EXCEPT ![i] = p]
        /\ UNCHANGED <<migrations, backfilled, torn, columns, index, log, job>>
    BY <1>4 DEF CreateTables, At
  <2>2. p.pc = "columns"
    OBVIOUS
  <2> HIDE DEF p
  <2>3. QED
    BY <2>1, <2>2, StartStep DEF Starting
<1>5. CASE AddColumns(i)
  <2> DEFINE p == [pc |-> "indexes", v |-> at[i].v, k |-> 0]
  <2>1. /\ at[i].pc = "columns" /\ at' = [at EXCEPT ![i] = p]
        /\ UNCHANGED <<migrations, backfilled, torn, columns, index, log, job>>
    BY <1>5 DEF AddColumns, At
  <2>2. p.pc = "indexes"
    OBVIOUS
  <2> HIDE DEF p
  <2>3. QED
    BY <2>1, <2>2, StartStep DEF Starting
<1>6. CASE CreateIndexes(i)
  <2>1. /\ UNCHANGED <<migrations, backfilled, torn, columns, index, log, job>>
        /\ at[i].pc = "indexes"
    BY <1>6 DEF CreateIndexes, At
  <2>2. PICK p : at' = [at EXCEPT ![i] = p] /\ p.pc \in {"tables", "read", "failed"}
    <3>1. \/ at' = [at EXCEPT ![i] = [pc |-> "tables", v |-> 1, k |-> 0]]
          \/ at' = [at EXCEPT ![i] = [pc |-> "read", v |-> 2, k |-> 0]]
          \/ at' = [at EXCEPT ![i] = Failed]
      BY <1>6 DEF CreateIndexes
    <3>2. /\ [pc |-> "tables", v |-> 1, k |-> 0].pc = "tables"
          /\ [pc |-> "read", v |-> 2, k |-> 0].pc = "read"
      OBVIOUS
    <3>3. QED
      BY <1>2, <3>1, <3>2, Zenon
  <2>3. QED
    BY <2>1, <2>2, StartStep DEF Starting
<1>7. CASE ReadLatest(i)
  <2> DEFINE v == at[i].v
  <2>1. /\ UNCHANGED <<migrations, backfilled, torn, columns, index, log, job>>
        /\ at[i].pc = "read" /\ Climb(i, v)
    BY <1>7 DEF ReadLatest, At
  <2>2. at[i].pc \notin Archiving
    BY <2>1 DEF Archiving
  <2> HIDE DEF v
  <2>3. CASE Recorded = 0 \/ Recorded >= v
    <3>1. [pc |-> "first", v |-> 1, k |-> 0].pc = "first"
      OBVIOUS
    <3>2. \/ at' = [at EXCEPT ![i] = [pc |-> "first", v |-> 1, k |-> 0]]
          \/ at' = [at EXCEPT ![i] = After(v)]
      BY <2>1, <2>3 DEF Climb
    <3>3. PICK p : at' = [at EXCEPT ![i] = p] /\ p.pc \in {"ready", "read", "first"}
      BY <1>2, <3>1, <3>2, Zenon
    <3>4. QED
      BY <2>1, <3>3, StartStep DEF Starting
  <2>4. CASE ~(Recorded = 0 \/ Recorded >= v) /\ BackFill[v] = <<>>
    <3> DEFINE p == [pc |-> "record", v |-> v, k |-> 0]
    <3>1. at' = [at EXCEPT ![i] = p]
      BY <2>1, <2>4 DEF Climb
    <3>2. v # 3
      BY <2>4, BackFillOf
    <3>3. p.pc \notin Archiving /\ ~Behind(p) /\ ~(p.pc = "record" /\ p.v = 3)
      BY <3>2 DEF Archiving, Behind
    <3> HIDE DEF p
    <3>4. QED
      BY <1>1, <2>1, <2>2, <3>1, <3>3, AwayStep
  <2>5. CASE ~(Recorded = 0 \/ Recorded >= v) /\ BackFill[v] # <<>>
    <3> DEFINE p == [pc |-> "fill", v |-> v, k |-> 1]
    <3>1. at' = [at EXCEPT ![i] = p]
      BY <2>1, <2>5 DEF Climb
    <3>2. p.pc \notin Archiving /\ ~Behind(p) /\ ~(p.pc = "record" /\ p.v = 3)
      BY DEF Archiving, Behind
    <3> HIDE DEF p
    <3>3. QED
      BY <1>1, <2>1, <2>2, <3>1, <3>2, AwayStep
  <2>6. QED
    BY <2>3, <2>4, <2>5
<1>8. CASE RecordFirst(i)
  <2>1. /\ UNCHANGED <<backfilled, torn, columns, index, log, job>>
        /\ at[i].pc = "first"
    BY <1>8 DEF RecordFirst, At
  <2>2. CASE 1 \in DOMAIN migrations
    BY <1>2, <1>8, <2>1, <2>2, StartStep DEF RecordFirst, Starting
  <2>3. CASE 1 \notin DOMAIN migrations
    <3> DEFINE v == 1
               prev == <<>>
    <3>1. InsertMigration(v, prev) /\ at' = [at EXCEPT ![i] = Idle]
      BY <1>8, <2>3 DEF RecordFirst
    <3>2. v # 3
      OBVIOUS
    <3> HIDE DEF v, prev
    <3>3. QED
      BY <1>2, <2>1, <3>1, <3>2, RecordIndexes
  <2>4. QED
    BY <2>2, <2>3
<1>9. CASE RunBackFill(i)
  BY <1>9, ArchivedAtIndexes, IndexStatementIndexes, OtherStatementIndexes
<1>10. CASE RecordVersion(i)
  <2> DEFINE v == at[i].v
  <2>1. /\ UNCHANGED <<backfilled, torn, columns, index, log, job>>
        /\ at[i].pc = "record"
    BY <1>10 DEF RecordVersion, At
  <2>2. CASE v \in DOMAIN migrations
    BY <1>2, <1>10, <2>1, <2>2, StartStep DEF RecordVersion, Starting
  <2>3. CASE v \notin DOMAIN migrations
    <3> DEFINE p == After(v)
               prev == latest[i].hash
    <3>1. InsertMigration(v, prev) /\ at' = [at EXCEPT ![i] = p]
      BY <1>10, <2>3 DEF RecordVersion
    <3>2. p.pc \in {"ready", "read"} /\ (v = 3 => at[i].v = 3)
      BY <1>2
    <3> HIDE DEF v, p, prev
    <3>3. UNCHANGED <<log, columns, index, job, backfilled, torn>>
      BY <2>1
    <3>4. at[i].pc \in {"first", "record"} /\ (v = 3 => at[i].pc = "record" /\ at[i].v = 3)
      BY <2>1, <3>2
    <3>5. QED
      BY <3>1, <3>2, <3>3, <3>4, RecordIndexes
  <2>4. QED
    BY <2>2, <2>3
<1>11. QED
  BY <1>3, <1>4, <1>5, <1>6, <1>7, <1>8, <1>9, <1>10 DEF Open

\* The steps behind an archiving row: isolate i moves to p, and what it
\* leaves behind is marked and indexed, or torn, or no back-fill has run yet.
LEMMA LeaveArchiving ==
    ASSUME AppendInv, FillInv, MarkInv, IndexInv, UNCHANGED <<migrations, backfilled>>,
           NEW i \in Isolates, NEW p, at' = [at EXCEPT ![i] = p],
           p.pc \notin {"fill", "record"},
           \A q \in Isolates \ {i} : job'[q] = job[q],
           torn \subseteq torn', index \subseteq index',
           \A m \in Messages : ArchivedIn(log', m) =>
               ArchivedIn(log, m) \/ (p.pc \in Archiving /\ job'[i].msg = m),
           \A m \in Messages : "archived_at" \in columns[m] => "archived_at" \in columns'[m],
           p.pc \in {"refresh", "index"} => "archived_at" \in columns'[job'[i].msg],
           \/ p.pc \in Archiving /\ UNCHANGED job
           \/ at[i].pc \notin Archiving
           \/ backfilled => job[i].msg \in torn'
           \/ /\ "archived_at" \in columns'[job[i].msg]
              /\ HasIndex(job[i].msg) => job[i].msg \in index'
    PROVE  IndexInv'
<1>1. \A q \in Isolates : at[q].pc \in Archiving => job[q].msg \in Messages
  BY DEF MarkInv, Working, FillInv
<1>2. ~Behind(p) /\ Indexing(p, index', Settled')
  BY DEF Behind, Indexing
<1>3. ASSUME NEW m \in Settled' \ Settled, backfilled
      PROVE  "archived_at" \in columns'[m] /\ (HasIndex(m) => m \in index')
  <2>1. /\ at[i].pc \in Archiving /\ job[i].msg = m
        /\ ~(p.pc \in Archiving /\ job'[i].msg = m)
    BY NewlySettled
  <2>2. m \notin torn'
    BY DEF Settled
  <2>3. QED
    BY <1>3, <2>1, <2>2
<1>4. QED
  BY <1>1, <1>2, <1>3, IndexStep

\* Messages and transitions of the open archive, and the failures.
LEMMA ServeIndexes ==
    ASSUME AppendInv, FillInv, MarkInv, IndexInv, NEW i \in Isolates,
           \/ \E m \in Messages : AppendMessage(i, m)
           \/ \E m \in Messages, edge \in Edges : NumberTransition(i, m, edge)
           \/ AppendTransition(i) \/ Throw(i) \/ Evict(i)
    PROVE  IndexInv'
<1> USE DEF Go, archive, history
<1>1. stored \subseteq Messages /\ DOMAIN columns = Messages /\ DOMAIN job = Isolates
  BY DEF FillInv, AppendInv
<1>2. /\ "mark" \in Archiving /\ "refresh" \in Archiving /\ "index" \in Archiving
      /\ {"ready", "guard", "prev", "insert", "failed", "cold"} \cap Archiving = {}
      /\ Idle.pc = "ready" /\ Failed.pc = "failed" /\ Cold.pc = "cold"
  BY DEF Archiving, Idle, Failed, Cold
<1>3. \A q \in Isolates : at[q].pc \in Archiving => job[q].msg \in stored
  BY DEF MarkInv, Working
<1>4. ASSUME NEW m \in Messages, AppendMessage(i, m)
      PROVE  IndexInv'
  <2>1. /\ m \notin stored /\ UNCHANGED <<at, job, log, index, migrations, torn, backfilled>>
        /\ columns' = [columns EXCEPT ![m] = Columns \ {"archived_at"}]
    BY <1>4 DEF AppendMessage
  <2>2. Settled' = Settled /\ Settled \subseteq stored
    BY <2>1 DEF Settled, MarkInv
  <2>3. \A x \in stored : columns'[x] = columns[x]
    BY <1>1, <2>1
  <2>4. \A q \in Isolates : at[q].pc \in {"refresh", "index"} => job[q].msg \in stored
    BY <1>2, <1>3
  <2>5. QED
    BY <2>1, <2>2, <2>3, <2>4 DEF IndexInv
<1>5. ASSUME NEW m \in Messages, NEW edge \in Edges, NumberTransition(i, m, edge)
      PROVE  IndexInv'
  <2> DEFINE p == [pc |-> "guard", v |-> 0, k |-> 0]
             j == [msg |-> m, edge |-> edge, seq |-> NextSeq(log[m]), prev |-> 0]
  <2>1. /\ at' = [at EXCEPT ![i] = p] /\ job' = [job EXCEPT ![i] = j] /\ at[i].pc = "ready"
        /\ UNCHANGED <<migrations, backfilled, torn, columns, index, log>>
    BY <1>5 DEF NumberTransition, At
  <2>2. p.pc = "guard"
    OBVIOUS
  <2> HIDE DEF p, j
  <2>3. QED
    BY <1>1, <1>2, <2>1, <2>2, LeaveArchiving
<1>6. CASE CheckTransition(i)
  <2>1. /\ at[i].pc = "guard" /\ \A q \in Isolates \ {i} : job'[q] = job[q]
        /\ UNCHANGED <<migrations, backfilled, torn, columns, index, log>>
    BY <1>1, <1>6 DEF CheckTransition, At
  <2>2. PICK p : at' = [at EXCEPT ![i] = p] /\ p.pc \in {"prev", "ready"}
    <3>1. \/ at' = [at EXCEPT ![i] = [pc |-> "prev", v |-> 0, k |-> 0]]
          \/ at' = [at EXCEPT ![i] = Idle]
      BY <1>6 DEF CheckTransition
    <3>2. [pc |-> "prev", v |-> 0, k |-> 0].pc = "prev"
      OBVIOUS
    <3>3. QED
      BY <1>2, <3>1, <3>2, Zenon
  <2>3. QED
    BY <1>2, <2>1, <2>2, LeaveArchiving
<1>7. CASE ReadPrevious(i)
  <2> DEFINE p == [pc |-> "insert", v |-> 0, k |-> 0]
  <2>1. /\ at[i].pc = "prev" /\ \A q \in Isolates \ {i} : job'[q] = job[q]
        /\ UNCHANGED <<migrations, backfilled, torn, columns, index, log>>
        /\ at' = [at EXCEPT ![i] = p]
    BY <1>1, <1>7 DEF ReadPrevious, At
  <2>2. p.pc = "insert"
    OBVIOUS
  <2> HIDE DEF p
  <2>3. QED
    BY <1>2, <2>1, <2>2, LeaveArchiving
<1>8. CASE InsertTransition(i)
  <2>1. /\ at[i].pc = "insert" /\ \A q \in Isolates \ {i} : job'[q] = job[q]
        /\ UNCHANGED <<migrations, backfilled, torn, columns, index>>
    BY <1>1, <1>8 DEF InsertTransition, At
  <2>2. CASE job[i].seq \in DOMAIN log[job[i].msg]
    <3>1. at' = [at EXCEPT ![i] = Idle] /\ UNCHANGED log
      BY <1>8, <2>2 DEF InsertTransition
    <3>2. QED
      BY <1>2, <2>1, <3>1, LeaveArchiving
  <2>3. CASE job[i].seq \notin DOMAIN log[job[i].msg] /\ job[i].edge.to = "archived"
    <3> DEFINE p == [pc |-> "mark", v |-> 0, k |-> 0]
    <3>1. at' = [at EXCEPT ![i] = p] /\ UNCHANGED job
      BY <1>8, <2>3 DEF InsertTransition
    <3>2. \A m \in Messages : ArchivedIn(log', m) => ArchivedIn(log, m) \/ m = job[i].msg
      BY <1>8, <2>3, InsertKeeps
    <3>3. p.pc = "mark"
      OBVIOUS
    <3> HIDE DEF p
    <3>4. QED
      BY <1>2, <2>1, <3>1, <3>2, <3>3, LeaveArchiving
  <2>4. CASE job[i].seq \notin DOMAIN log[job[i].msg] /\ job[i].edge.to # "archived"
    <3>1. at' = [at EXCEPT ![i] = Idle]
      BY <1>8, <2>4 DEF InsertTransition
    <3>2. \A m \in Messages : ArchivedIn(log', m) => ArchivedIn(log, m)
      BY <1>8, <2>4, InsertKeeps
    <3>3. QED
      BY <1>2, <2>1, <3>1, <3>2, LeaveArchiving
  <2>5. QED
    BY <2>2, <2>3, <2>4
<1>9. CASE MarkArchived(i)
  <2> DEFINE p == [pc |-> "refresh", v |-> 0, k |-> 0]
  <2>1. /\ at[i].pc = "mark" /\ at' = [at EXCEPT ![i] = p]
        /\ columns' = [columns EXCEPT ![job[i].msg] = @ \cup {"archived_at"}]
        /\ UNCHANGED <<migrations, backfilled, torn, index, log, job>>
    BY <1>9 DEF MarkArchived, At
  <2>2. job[i].msg \in Messages
    BY <1>1, <1>2, <1>3, <2>1
  <2>3. /\ "archived_at" \in columns'[job[i].msg]
        /\ \A m \in Messages : "archived_at" \in columns[m] => "archived_at" \in columns'[m]
    BY <1>1, <2>1, <2>2
  <2>4. p.pc = "refresh"
    OBVIOUS
  <2> HIDE DEF p
  <2>5. QED
    BY <1>2, <2>1, <2>3, <2>4, LeaveArchiving
<1>10. CASE RefreshColumns(i)
  <2> DEFINE p == [pc |-> "index", v |-> 0, k |-> 0]
  <2>1. /\ at[i].pc = "refresh"
        /\ columns' = [columns EXCEPT ![job[i].msg] = @ \cup {"constitutional", "superseded_by"}]
        /\ UNCHANGED <<migrations, backfilled, torn, index, log>>
    BY <1>10 DEF RefreshColumns, At
  <2>2. job[i].msg \in Messages /\ "archived_at" \in columns[job[i].msg]
    BY <1>1, <1>2, <1>3, <2>1 DEF IndexInv
  <2>3. /\ "archived_at" \in columns'[job[i].msg]
        /\ \A m \in Messages : "archived_at" \in columns[m] => "archived_at" \in columns'[m]
    BY <1>1, <2>1, <2>2
  <2>4. p.pc = "index"
    OBVIOUS
  <2>5. CASE HasIndex(job[i].msg)
    <3>1. at' = [at EXCEPT ![i] = p] /\ UNCHANGED job
      BY <1>10, <2>5 DEF RefreshColumns
    <3> HIDE DEF p
    <3>2. QED
      BY <1>2, <2>1, <2>3, <2>4, <3>1, LeaveArchiving
  <2>6. CASE ~HasIndex(job[i].msg)
    <3>1. at' = [at EXCEPT ![i] = Idle] /\ \A q \in Isolates \ {i} : job'[q] = job[q]
      BY <1>1, <1>10, <2>6 DEF RefreshColumns
    <3>2. QED
      BY <1>2, <2>1, <2>3, <2>6, <3>1, LeaveArchiving
  <2>7. QED
    BY <2>5, <2>6
<1>11. CASE IndexMessage(i)
  <2>1. /\ at[i].pc = "index" /\ at' = [at EXCEPT ![i] = Idle]
        /\ index' = index \cup {job[i].msg}
        /\ \A q \in Isolates \ {i} : job'[q] = job[q]
        /\ UNCHANGED <<migrations, backfilled, torn, columns, log>>
    BY <1>1, <1>11 DEF IndexMessage, At
  <2>2. "archived_at" \in columns[job[i].msg]
    BY <2>1 DEF IndexInv
  <2>3. QED
    BY <1>2, <2>1, <2>2, LeaveArchiving
<1>12. ASSUME \E p : /\ at' = [at EXCEPT ![i] = p]
                     /\ p.pc \in {"failed", "ready", "cold"},
              Tears(i), \A q \in Isolates \ {i} : job'[q] = job[q],
              UNCHANGED <<migrations, columns, index, log>>
       PROVE  IndexInv'
  <2>1. PICK p : at' = [at EXCEPT ![i] = p] /\ p.pc \in {"failed", "ready", "cold"}
    BY <1>12
  <2>2. UNCHANGED backfilled /\ torn \subseteq torn'
    BY <1>12 DEF Tears
  <2>3. at[i].pc \notin Archiving \/ (backfilled => job[i].msg \in torn')
    BY <1>12 DEF Tears
  <2>4. QED
    BY <1>2, <1>12, <2>1, <2>2, <2>3, LeaveArchiving
<1>13. CASE Throw(i)
  <2>1. at' = [at EXCEPT ![i] = Failed] \/ at' = [at EXCEPT ![i] = Idle]
    BY <1>13 DEF Throw
  <2>2. \E p : at' = [at EXCEPT ![i] = p] /\ p.pc \in {"failed", "ready", "cold"}
    BY <1>2, <2>1, Zenon
  <2>3. QED
    BY <1>1, <1>12, <1>13, <2>2 DEF Throw
<1>14. CASE Evict(i)
  <2>1. \E p : at' = [at EXCEPT ![i] = p] /\ p.pc \in {"failed", "ready", "cold"}
    BY <1>2, <1>14, Zenon DEF Evict
  <2>2. QED
    BY <1>1, <1>12, <1>14, <2>1 DEF Evict
<1>15. QED
  BY <1>4, <1>5, <1>6, <1>7, <1>8, <1>9, <1>10, <1>11, <1>13, <1>14 DEF AppendTransition

LEMMA InitIndex == Init => IndexInv
<1> SUFFICES ASSUME Init PROVE IndexInv
  OBVIOUS
<1>1. \A i \in Isolates : at[i].pc = "cold"
  BY DEF Init, Cold
<1>2. ~backfilled
  BY DEF Init
<1>3. 3 \notin DOMAIN migrations
  BY DEF Init, LegacyMigrations
<1>4. QED
  BY <1>1, <1>2, <1>3 DEF IndexInv, Behind, Indexing

LEMMA NextIndex ==
    AppendInv /\ MigrateInv /\ FillInv /\ MarkInv /\ IndexInv /\ [Next]_vars => IndexInv'
<1> SUFFICES ASSUME AppendInv, MigrateInv, FillInv, MarkInv, IndexInv, [Next]_vars
             PROVE  IndexInv'
  OBVIOUS
<1>1. ASSUME UNCHANGED <<log, torn, at, job, index, columns, migrations, backfilled>>
      PROVE  IndexInv'
  BY <1>1 DEF IndexInv, Settled
<1>2. CASE UNCHANGED vars
  BY <1>1, <1>2 DEF vars
<1>3. CASE BundleTransitions \/ BundleProof \/ BundleDone
  BY <1>1, <1>3 DEF BundleTransitions, BundleProof, BundleDone, archive, history
<1>4. ASSUME NEW i \in Isolates, BundleMessages(i) PROVE IndexInv'
  BY <1>1, <1>4 DEF BundleMessages, archive, history
<1>5. QED
  BY <1>2, <1>3, <1>4, OpenIndexes, ServeIndexes DEF Next

\* From version 3 on an archived message is marked and in its index once its
\* append has ended, unless that append was cut short behind a back-fill:
\* whichever isolates migrate meanwhile, and whichever of them stop.
THEOREM ArchivedAreIndexed == Spec => []ArchivedIsIndexed
<1>1. MigrateInv /\ FillInv /\ IndexInv => ArchivedIsIndexed
  <2> SUFFICES ASSUME MigrateInv, FillInv, IndexInv, NEW m \in stored,
                      Recorded >= 3, IsArchived(m), m \notin torn,
                      \A i \in Isolates : at[i].pc \in Archiving => job[i].msg # m
               PROVE  "archived_at" \in columns[m] /\ (HasIndex(m) => m \in index)
    BY DEF ArchivedIsIndexed
  <2>1. m \in Settled
    BY DEF Settled, FillInv, IsArchived, ArchivedIn
  <2>2. PICK n \in 0 .. 7 : DOMAIN migrations = 1 .. n
    BY DEF MigrateInv, Chain
  <2>3. 3 \in DOMAIN migrations
    BY <2>2, LatestOfChain
  <2>4. QED
    BY <2>1, <2>3 DEF IndexInv
<1>2. QED
  BY <1>1, InitAppend, NextAppend, InitMigrate, NextMigrate, InitFill, NextFill,
     InitMark, NextMark, InitIndex, NextIndex, PTL DEF Spec
=============================================================================
