--------------------------- MODULE Docket_proofs ---------------------------
(***************************************************************************)
(* Proofs that the safety properties of Docket hold for every set of       *)
(* messages, offices and handlers, every routing and every bound.          *)
(***************************************************************************)
EXTENDS Docket, TLAPS, FiniteSetTheorems

-----------------------------------------------------------------------------
(* Facts about one transition log.                                         *)

\* The last row of a log without gaps carries the number of rows, and the
\* state read from it is a message state (snapshotState).
LEMMA LastSeqOfLog ==
    ASSUME NEW f, IsLog(f), DOMAIN f = 1..Cardinality(DOMAIN f)
    PROVE  /\ Cardinality(DOMAIN f) \in Nat
           /\ LastSeq(f) = Cardinality(DOMAIN f)
           /\ SnapshotState(f) \in MessageState
           /\ NextSeq(f) \in Nat \ {0}
<1>1. Cardinality(DOMAIN f) \in Nat
  BY FS_CardinalityType DEF IsLog
<1>2. CASE DOMAIN f = {}
  <2>1. Cardinality(DOMAIN f) = 0
    BY <1>2, FS_EmptySet
  <2>2. QED
    BY <1>1, <1>2, <2>1 DEF LastSeq, SnapshotState, MessageState, NextSeq
<1>3. CASE DOMAIN f # {}
  <2> DEFINE n == Cardinality(DOMAIN f)
  <2>1. n \in DOMAIN f /\ \A j \in DOMAIN f : j <= n
    BY <1>1, <1>3
  <2>2. \A i \in DOMAIN f : (\A j \in DOMAIN f : j <= i) => i = n
    BY <1>1, <2>1
  <2>3. LastSeq(f) = n
    BY <1>3, <2>1, <2>2 DEF LastSeq
  <2>4. f[n] \in Row
    BY <2>1 DEF IsLog
  <2>5. QED
    BY <1>1, <1>3, <2>1, <2>3, <2>4 DEF SnapshotState, Row, NextSeq
<1>4. QED
  BY <1>2, <1>3

\* g is the log f with one more row, numbered next, that enters state `to`.
Extends(f, g, k, to) ==
    /\ IsLog(g)
    /\ DOMAIN g = 1..Cardinality(DOMAIN g)
    /\ NextSeq(g) = NextSeq(f) + 1
    /\ DOMAIN g = DOMAIN f \cup {k}
    /\ \A i \in DOMAIN f : g[i] = f[i] /\ i < k
    /\ g[k].to = to

\* A row accepted under a number that was current when it was read becomes
\* the next row: the log stays without gaps and its other rows are kept.
LEMMA InsertNext ==
    ASSUME NEW f, IsLog(f), DOMAIN f = 1..Cardinality(DOMAIN f),
           NEW k \in 1..NextSeq(f), k \notin DOMAIN f,
           NEW edge \in Edge, NEW prev \in Nat
    PROVE  Extends(f, InsertRow(f, k, edge, prev), k, edge.to)
<1> DEFINE g == InsertRow(f, k, edge, prev)
<1>1. Cardinality(DOMAIN f) \in Nat
  BY LastSeqOfLog
<1>2. k = Cardinality(DOMAIN f) + 1
  BY <1>1 DEF NextSeq
<1>3. DOMAIN g = DOMAIN f \cup {k}
  BY DEF InsertRow
<1>4. /\ IsFiniteSet(DOMAIN g)
      /\ Cardinality(DOMAIN g) = Cardinality(DOMAIN f) + 1
  <2>1. IsFiniteSet(DOMAIN f)
    BY DEF IsLog
  <2>2. QED
    BY <1>3, <2>1, FS_AddElement
<1>5. DOMAIN g = 1..Cardinality(DOMAIN g)
  <2>1. \A n \in Nat : (1..n) \cup {n + 1} = 1..(n + 1)
    OBVIOUS
  <2>2. DOMAIN g = (1..Cardinality(DOMAIN f)) \cup {Cardinality(DOMAIN f) + 1}
    BY <1>2, <1>3
  <2>3. QED
    BY <1>1, <1>4, <2>1, <2>2
<1>6. \A i \in DOMAIN f : g[i] = f[i] /\ i < k
  BY <1>1, <1>2 DEF InsertRow
<1>7. g[k] = [from |-> edge.from, to |-> edge.to, prev |-> prev]
  BY DEF InsertRow
<1>8. g[k] \in Row /\ g[k].to = edge.to
  BY <1>7 DEF Edge, Row
<1>9. g \in [DOMAIN g -> Row]
  <2>1. \A i \in DOMAIN g : g[i] \in Row
    BY <1>3, <1>6, <1>8 DEF IsLog
  <2>2. g = [i \in DOMAIN g |-> g[i]]
    BY DEF InsertRow
  <2>3. QED
    BY <2>1, <2>2
<1>10. IsLog(g)
  BY <1>1, <1>4, <1>5, <1>9 DEF IsLog
<1>11. QED
  BY <1>1, <1>2, <1>3, <1>4, <1>5, <1>6, <1>8, <1>10 DEF NextSeq, Extends

-----------------------------------------------------------------------------
(* What processes rely on survives the steps of the others.                *)

\* No step removes rows, seals or approvals.
Grows ==
    /\ \A m \in Msgs :
        /\ DOMAIN log[m] \subseteq DOMAIN log'[m]
        /\ \A i \in DOMAIN log[m] : log'[m][i] = log[m][i]
        /\ NextSeq(log[m]) <= NextSeq(log'[m])
    /\ \A m \in Msgs : \A s \in Stages : seals[m][s] > 0 => seals'[m][s] > 0
    /\ \A m \in Msgs : approvals[m] \subseteq approvals'[m]

\* A message that has its acknowledgements keeps them when approvals are added
\* (addOfficeApproval never removes a row).
LEMMA AcksMetStable ==
    ASSUME NEW m \in Msgs, NEW dest \in SUBSET Offices,
           NEW a \in SUBSET Offices, NEW b \in SUBSET Offices, a \subseteq b,
           AcksMet(m, dest, a)
    PROVE  AcksMet(m, dest, b)
<1>1. IsFiniteSet(Offices)
  BY DocketAssumption
<1>2. IsFiniteSet(b) /\ IsFiniteSet(dest)
  BY <1>1, FS_Subset
<1>3. IsFiniteSet(a) /\ Cardinality(a) <= Cardinality(b)
  BY <1>2, FS_Subset
<1>4. Cardinality(a) \in Nat /\ Cardinality(b) \in Nat /\ Cardinality(dest) \in Nat
  BY <1>2, <1>3, FS_CardinalityType
<1>5. RequiredAcks(m, dest) \in Nat
  BY <1>4, DocketAssumption DEF RequiredAcks
<1>6. QED
  BY <1>3, <1>4, <1>5 DEF AcksMet

\* The routed destinations are offices.
LEMMA MaterializedType ==
    ASSUME NEW m \in Msgs
    PROVE  Materialized(m) \in SUBSET Offices
BY DocketAssumption DEF Materialized

\* The locals of a process that does not move rely on nothing a step undoes.
LEMMA ReliesStable ==
    ASSUME TypeOK, TypeOK', ContiguousLog, ContiguousLog', Grows,
           NEW l \in Local, Relies(l, log, seals, approvals)
    PROVE  Relies(l, log', seals', approvals')
<1>1. CASE l.at = "idle"
  BY <1>1 DEF Relies, Appending, Local
<1>2. CASE l.at # "idle"
  <2>1. l.msg \in Msgs
    BY <1>2 DEF Relies
  <2>2. AcksMet(l.msg, Materialized(l.msg), approvals[l.msg])
            => AcksMet(l.msg, Materialized(l.msg), approvals'[l.msg])
    BY <2>1, AcksMetStable, MaterializedType DEF Grows, TypeOK
  <2>3. Entered(log[l.msg], "authorized") # {} => Entered(log'[l.msg], "authorized") # {}
    BY <2>1 DEF Entered, Grows
  <2>4. l.seqNo \in 1..NextSeq(log[l.msg]) => l.seqNo \in 1..NextSeq(log'[l.msg])
    <3>1. NextSeq(log[l.msg]) \in Nat /\ NextSeq(log'[l.msg]) \in Nat
      BY <2>1, LastSeqOfLog DEF TypeOK, ContiguousLog
    <3>2. QED
      BY <2>1, <3>1 DEF Grows
  <2>5. \A s \in 1..l.sealNo : seals[l.msg][s] > 0 => seals'[l.msg][s] > 0
    BY <2>1 DEF Grows, Stages, Local
  <2>6. QED
    BY <1>2, <2>1, <2>2, <2>3, <2>4, <2>5 DEF Relies
<1>3. QED
  BY <1>1, <1>2

\* One process moves to the locals l; the archive's properties are kept.
LEMMA ProcStep ==
    ASSUME DocketInv, TypeOK', ContiguousLog', Grows,
           NEW p \in Procs, NEW l \in Local,
           proc' = [proc EXCEPT ![p] = l],
           Relies(l, log', seals', approvals')
    PROVE  \A q \in Procs : Relies(proc'[q], log', seals', approvals')
<1> SUFFICES ASSUME NEW q \in Procs
             PROVE  Relies(proc'[q], log', seals', approvals')
  OBVIOUS
<1>1. proc \in [Procs -> Local]
  BY DEF DocketInv, TypeOK
<1>2. CASE q = p
  BY <1>1, <1>2
<1>3. CASE q # p
  <2>1. proc'[q] = proc[q] /\ proc[q] \in Local
    BY <1>1, <1>3
  <2>2. Relies(proc[q], log, seals, approvals)
    BY DEF DocketInv
  <2>3. Relies(proc[q], log', seals', approvals')
    BY <2>1, <2>2, ReliesStable DEF DocketInv
  <2>4. QED
    BY <2>1, <2>3
<1>4. QED
  BY <1>2, <1>3

\* A step that appends no transition keeps the invariant if the process that
\* takes it may rely on what its new locals say.
LEMMA StepWithoutAppend ==
    ASSUME DocketInv, TypeOK', UNCHANGED log, Grows,
           NEW p \in Procs, NEW l \in Local,
           proc' = [proc EXCEPT ![p] = l],
           Relies(l, log', seals', approvals')
    PROVE  DocketInv'
<1>1. ContiguousLog'
  BY DEF DocketInv, ContiguousLog
<1>2. AuthorizedIsSealed'
  BY DEF DocketInv, AuthorizedIsSealed, Grows, Stages
<1>3. AuthorizedIsApproved'
  <2> SUFFICES ASSUME NEW m \in Msgs, Entered(log'[m], "authorized") # {}
               PROVE  AcksMet(m, Materialized(m), approvals'[m])
    BY DEF AuthorizedIsApproved
  <2>1. AcksMet(m, Materialized(m), approvals[m])
    BY DEF DocketInv, AuthorizedIsApproved
  <2>2. approvals[m] \subseteq approvals'[m]
    BY DEF Grows
  <2>3. QED
    BY <2>1, <2>2, AcksMetStable, MaterializedType DEF DocketInv, TypeOK
<1>4. ArchivedWasAuthorized'
  BY DEF DocketInv, ArchivedWasAuthorized
<1>5. QED
  BY <1>1, <1>2, <1>3, <1>4, ProcStep DEF DocketInv

-----------------------------------------------------------------------------
(* Steps by shape: a process moves and the log, seals and approvals stay.  *)

\* The conjuncts of TypeOK about the variables the other lemmas do not track.
RestOK ==
    /\ stored \in SUBSET Msgs /\ docket \in Seq(Msgs) /\ indexed \in SUBSET Msgs
    /\ amendment \in BOOLEAN /\ events \in SUBSET Event
    /\ requests \in Nat /\ faults \in Nat /\ crashes \in Nat

\* The locals of a process are a record of the declared type it can rely on.
LEMMA ProcType ==
    ASSUME DocketInv, NEW p \in Procs
    PROVE  /\ proc[p] \in Local
           /\ proc[p] = [at |-> proc[p].at, msg |-> proc[p].msg, edge |-> proc[p].edge,
                         seqNo |-> proc[p].seqNo, sealNo |-> proc[p].sealNo]
           /\ Relies(proc[p], log, seals, approvals)
<1>1. proc[p] \in Local
  BY DEF DocketInv, TypeOK
<1>2. QED
  BY <1>1 DEF DocketInv, Local

\* An idle process relies on nothing.
LEMMA IdleRelies ==
    /\ Idle \in Local
    /\ \A lg, sl, ap : Relies(Idle, lg, sl, ap)
<1>1. Idle \in Local
  BY DEF Idle, Local, Locations, Edge, MessageState
<1>2. QED
  BY <1>1 DEF Idle, Relies, Appending

\* A process moves; transitions, seals and approvals stay as they are.
LEMMA QuietStep ==
    ASSUME DocketInv, UNCHANGED <<log, seals, approvals>>, RestOK',
           NEW p \in Procs, NEW l \in Local,
           proc' = [proc EXCEPT ![p] = l],
           Relies(l, log, seals, approvals)
    PROVE  DocketInv'
<1>1. TypeOK'
  BY DEF DocketInv, TypeOK, RestOK
<1>2. Grows
  <2>1. \A m \in Msgs : NextSeq(log[m]) \in Nat
    BY LastSeqOfLog DEF DocketInv, TypeOK, ContiguousLog
  <2>2. QED
    BY <2>1 DEF Grows
<1>3. QED
  BY <1>1, <1>2, StepWithoutAppend

\* A process ends.
LEMMA IdleStep ==
    ASSUME DocketInv, UNCHANGED <<log, seals, approvals>>, RestOK',
           NEW p \in Procs, proc' = [proc EXCEPT ![p] = Idle]
    PROVE  DocketInv'
BY QuietStep, IdleRelies

\* A process moves to another location and keeps its other locals.
LEMMA GotoStep ==
    ASSUME DocketInv, UNCHANGED <<log, seals, approvals>>, RestOK',
           NEW p \in Procs, NEW location \in Locations, Goto(p, location),
           Relies([proc[p] EXCEPT !.at = location], log, seals, approvals)
    PROVE  DocketInv'
<1> DEFINE l == [proc[p] EXCEPT !.at = location]
<1>1. proc[p] \in Local /\ proc \in [Procs -> Local]
  BY DEF DocketInv, TypeOK
<1>2. l \in Local
  BY <1>1 DEF Local
<1>3. proc' = [proc EXCEPT ![p] = l]
  BY <1>1 DEF Goto
<1> HIDE DEF l
<1>4. QED
  BY <1>2, <1>3, QuietStep DEF l

\* Proposing an edge: what authorization and archival require is at hand.
LEMMA ProposeStep ==
    ASSUME DocketInv, UNCHANGED <<log, seals, approvals>>, RestOK',
           NEW p \in Procs, proc[p].at # "idle",
           NEW from \in MessageState, NEW to \in MessageState,
           Propose(p, from, to),
           to = "authorized" => /\ proc[p].sealNo = 6
                                /\ AcksMet(Msg(p), Materialized(Msg(p)), approvals[Msg(p)]),
           to = "archived" => Entered(log[Msg(p)], "authorized") # {}
    PROVE  DocketInv'
<1> DEFINE l == [proc[p] EXCEPT !.edge = [from |-> from, to |-> to], !.at = "count"]
<1>1. proc[p] \in Local /\ proc \in [Procs -> Local]
  BY DEF DocketInv, TypeOK
<1>2. l \in Local
  BY <1>1 DEF Local, Locations, Edge
<1>3. proc' = [proc EXCEPT ![p] = l]
  BY <1>1 DEF Propose
<1>4. /\ l.at = "count" /\ l.msg = Msg(p) /\ l.sealNo = proc[p].sealNo
      /\ l.edge.to = to
  BY <1>1 DEF Local, Msg
<1>5. Relies(proc[p], log, seals, approvals)
  BY DEF DocketInv
<1> HIDE DEF l
<1>6. Relies(l, log, seals, approvals)
  BY <1>4, <1>5 DEF Relies, Appending, Msg
<1>7. QED
  BY <1>2, <1>3, <1>6, QuietStep

\* An exception leaves the pipeline: nothing is relied upon in the catch block.
LEMMA RaiseStep ==
    ASSUME DocketInv, UNCHANGED <<log, seals, approvals>>, RestOK',
           NEW p \in Procs, proc[p].at # "idle", Raise(p)
    PROVE  DocketInv'
<1>1. CASE p = Worker
  <2>1. Goto(p, "catch") /\ "catch" \in Locations
    BY <1>1 DEF Raise, Locations
  <2>2. Relies([proc[p] EXCEPT !.at = "catch"], log, seals, approvals)
    BY ProcType DEF Relies, Appending, Local
  <2>3. QED
    BY <2>1, <2>2, GotoStep
<1>2. CASE p # Worker
  BY <1>2, IdleStep DEF Raise
<1>3. QED
  BY <1>1, <1>2

-----------------------------------------------------------------------------
(* Steps that append a transition.                                         *)

\* An accepted row extends the log of its message and keeps the properties of
\* the archive: an 'authorized' row finds the chain stored and the offices'
\* approvals in place, an 'archived' row finds an 'authorized' one.
LEMMA AppendedRow ==
    ASSUME DocketInv, NEW p \in Procs, proc[p].at \in {"append", "catchAppend"},
           Accepts(log[Msg(p)], proc[p].seqNo, proc[p].edge), NEW prev \in Nat,
           log' = [log EXCEPT ![Msg(p)] =
                    InsertRow(log[Msg(p)], proc[p].seqNo, proc[p].edge, prev)],
           UNCHANGED <<seals, approvals>>
    PROVE  /\ Msg(p) \in Msgs
           /\ DOMAIN log' = Msgs /\ \A m \in Msgs : IsLog(log'[m])
           /\ Grows
           /\ ContiguousLog'
           /\ AuthorizedIsSealed'
           /\ AuthorizedIsApproved'
           /\ ArchivedWasAuthorized'
           /\ proc[p].edge.to = "authorized" => Entered(log'[Msg(p)], "authorized") # {}
<1> DEFINE m0 == Msg(p)
           k == proc[p].seqNo
           edge == proc[p].edge
           f == log[m0]
           g == InsertRow(f, k, edge, prev)
<1>1. /\ m0 \in Msgs /\ edge \in Edge /\ k \in 1..NextSeq(f)
      /\ Relies(proc[p], log, seals, approvals) /\ proc[p] \in Local
  BY ProcType DEF Relies, Local, Msg
<1>2. IsLog(f) /\ DOMAIN f = 1..Cardinality(DOMAIN f) /\ k \notin DOMAIN f
  BY <1>1 DEF DocketInv, TypeOK, ContiguousLog, Accepts
<1>3. /\ DOMAIN log = Msgs
      /\ log'[m0] = g
      /\ \A m \in Msgs : m # m0 => log'[m] = log[m]
  BY <1>1 DEF DocketInv, TypeOK
<1> HIDE DEF m0, k, edge, f, g
<1>4. /\ IsLog(g) /\ DOMAIN g = 1..Cardinality(DOMAIN g)
      /\ NextSeq(g) = NextSeq(f) + 1
      /\ DOMAIN g = DOMAIN f \cup {k}
      /\ \A i \in DOMAIN f : g[i] = f[i] /\ i < k
      /\ g[k].to = edge.to
  <2>1. edge \in Edge /\ k \in 1..NextSeq(f)
    BY <1>1
  <2>2. Extends(f, g, k, edge.to)
    BY <1>2, <2>1, InsertNext DEF g
  <2>3. QED
    BY <2>2 DEF Extends
<1>5. \A m \in Msgs : NextSeq(log[m]) \in Nat
  BY LastSeqOfLog DEF DocketInv, TypeOK, ContiguousLog
<1>6. Grows
  <2> SUFFICES ASSUME NEW m \in Msgs
               PROVE  /\ DOMAIN log[m] \subseteq DOMAIN log'[m]
                      /\ \A i \in DOMAIN log[m] : log'[m][i] = log[m][i]
                      /\ NextSeq(log[m]) <= NextSeq(log'[m])
    BY DEF Grows
  <2>1. CASE m = m0
    BY <1>3, <1>4, <1>5, <2>1 DEF f
  <2>2. CASE m # m0
    BY <1>3, <1>5, <2>2
  <2>3. QED
    BY <2>1, <2>2
<1>7. DOMAIN log' = Msgs /\ \A m \in Msgs : IsLog(log'[m])
  BY <1>3, <1>4 DEF DocketInv, TypeOK
<1>8. ContiguousLog'
  <2> SUFFICES ASSUME NEW m \in Msgs
               PROVE  DOMAIN log'[m] = 1..Cardinality(DOMAIN log'[m])
    BY DEF ContiguousLog
  <2>1. QED
    BY <1>3, <1>4 DEF DocketInv, ContiguousLog
<1>9. \A state : Entered(g, state) =
                 IF edge.to = state THEN Entered(f, state) \cup {k} ELSE Entered(f, state)
  BY <1>2, <1>4 DEF Entered
<1>10. \A m \in Msgs : m # m0 => \A state : Entered(log'[m], state) = Entered(log[m], state)
  BY <1>3
<1>11. edge.to = "authorized" =>
          /\ \A s \in Stages : seals[m0][s] > 0
          /\ AcksMet(m0, Materialized(m0), approvals[m0])
  BY <1>1 DEF Relies, Appending, Stages, edge, m0, Msg
<1>12. AuthorizedIsSealed'
  <2> SUFFICES ASSUME NEW m \in Msgs, Entered(log'[m], "authorized") # {}
               PROVE  \A s \in Stages : seals'[m][s] > 0
    BY DEF AuthorizedIsSealed
  <2>1. CASE m = m0 /\ edge.to = "authorized"
    BY <1>11, <2>1
  <2>2. CASE ~(m = m0 /\ edge.to = "authorized")
    <3>1. Entered(log[m], "authorized") # {}
      BY <1>3, <1>9, <1>10, <2>2 DEF f
    <3>2. QED
      BY <3>1 DEF DocketInv, AuthorizedIsSealed
  <2>3. QED
    BY <2>1, <2>2
<1>13. AuthorizedIsApproved'
  <2> SUFFICES ASSUME NEW m \in Msgs, Entered(log'[m], "authorized") # {}
               PROVE  AcksMet(m, Materialized(m), approvals'[m])
    BY DEF AuthorizedIsApproved
  <2>1. CASE m = m0 /\ edge.to = "authorized"
    BY <1>11, <2>1
  <2>2. CASE ~(m = m0 /\ edge.to = "authorized")
    <3>1. Entered(log[m], "authorized") # {}
      BY <1>3, <1>9, <1>10, <2>2 DEF f
    <3>2. QED
      BY <3>1 DEF DocketInv, AuthorizedIsApproved
  <2>3. QED
    BY <2>1, <2>2
<1>14. ArchivedWasAuthorized'
  <2> SUFFICES ASSUME NEW m \in Msgs, NEW i \in Entered(log'[m], "archived")
               PROVE  \E j \in Entered(log'[m], "authorized") : j < i
    BY DEF ArchivedWasAuthorized
  <2>1. CASE m = m0 /\ edge.to = "archived" /\ i = k
    <3>1. Entered(f, "authorized") # {}
      BY <1>1, <2>1 DEF Relies, Appending, edge, m0, f, Msg
    <3>2. PICK j \in Entered(f, "authorized") : TRUE
      BY <3>1
    <3>3. j < k /\ j \in Entered(g, "authorized")
      BY <1>4, <1>9, <3>2 DEF Entered
    <3>4. QED
      BY <1>3, <2>1, <3>3
  <2>2. CASE ~(m = m0 /\ edge.to = "archived" /\ i = k)
    <3>1. i \in Entered(log[m], "archived")
      BY <1>3, <1>9, <1>10, <2>2 DEF f
    <3>2. PICK j \in Entered(log[m], "authorized") : j < i
      BY <3>1 DEF DocketInv, ArchivedWasAuthorized
    <3>3. j \in Entered(log'[m], "authorized")
      BY <1>3, <1>9, <1>10, <3>2 DEF f
    <3>4. QED
      BY <3>2, <3>3
  <2>3. QED
    BY <2>1, <2>2
<1>15. edge.to = "authorized" => Entered(log'[m0], "authorized") # {}
  BY <1>3, <1>9
<1>16. QED
  BY <1>1, <1>6, <1>7, <1>8, <1>12, <1>13, <1>14, <1>15 DEF m0, edge

\* A step that appends a row keeps the invariant if the process that takes it
\* may rely on what its new locals say.
LEMMA StepWithAppend ==
    ASSUME DocketInv, NEW p \in Procs, proc[p].at \in {"append", "catchAppend"},
           Accepts(log[Msg(p)], proc[p].seqNo, proc[p].edge), NEW prev \in Nat,
           log' = [log EXCEPT ![Msg(p)] =
                    InsertRow(log[Msg(p)], proc[p].seqNo, proc[p].edge, prev)],
           UNCHANGED <<seals, approvals>>, RestOK',
           NEW l \in Local, proc' = [proc EXCEPT ![p] = l],
           Relies(l, log', seals', approvals')
    PROVE  DocketInv'
<1>1. /\ DOMAIN log' = Msgs /\ \A m \in Msgs : IsLog(log'[m])
      /\ Grows /\ ContiguousLog' /\ AuthorizedIsSealed'
      /\ AuthorizedIsApproved' /\ ArchivedWasAuthorized'
  BY AppendedRow
<1>2. TypeOK'
  BY <1>1 DEF DocketInv, TypeOK, RestOK
<1>3. \A q \in Procs : Relies(proc'[q], log', seals', approvals')
  BY <1>1, <1>2, ProcStep
<1>4. QED
  BY <1>1, <1>2, <1>3 DEF DocketInv

\* The link a row stores, by the archive or by the catch block, is a row number.
LEMMA ArchiveLinkType ==
    ASSUME DocketInv, NEW m \in Msgs
    PROVE  ArchiveLink(m) \in Nat /\ CatchLink(m) \in Nat
<1>1. IsLog(log[m]) /\ DOMAIN log[m] = 1..Cardinality(DOMAIN log[m])
  BY DEF DocketInv, TypeOK, ContiguousLog
<1>2. /\ Cardinality(DOMAIN log[m]) \in Nat
      /\ LastSeq(log[m]) = Cardinality(DOMAIN log[m])
  BY <1>1, LastSeqOfLog
<1>3. LastSeq(log[m]) # 0 => log[m][LastSeq(log[m])] \in Row
  BY <1>1, <1>2 DEF IsLog
<1>4. QED
  BY <1>2, <1>3 DEF ArchiveLink, CatchLink, Row

\* The state read by snapshotState is a message state.
LEMMA StateType ==
    ASSUME DocketInv, NEW m \in Msgs
    PROVE  State(m) \in MessageState
BY LastSeqOfLog DEF DocketInv, TypeOK, ContiguousLog, State

\* appendNextTransition's insert, with what follows it in the pipeline.
LEMMA AppendTransitionStep ==
    ASSUME DocketInv, NEW p \in Procs, AppendTransition(p)
    PROVE  DocketInv'
<1> DEFINE to == proc[p].edge.to
<1>1. /\ proc[p] \in Local /\ proc \in [Procs -> Local]
      /\ Relies(proc[p], log, seals, approvals)
      /\ proc[p].at = "append" /\ Msg(p) \in Msgs
  BY ProcType DEF AppendTransition, At, Relies, Msg, DocketInv, TypeOK
<1>2. RestOK'
  BY <1>1 DEF DocketInv, TypeOK, RestOK, AppendTransition, WriteRow, Msg, memory, bounds
<1>3. CASE ~Accepts(log[Msg(p)], proc[p].seqNo, proc[p].edge)
  BY <1>1, <1>2, <1>3, RaiseStep DEF AppendTransition
<1>4. CASE Accepts(log[Msg(p)], proc[p].seqNo, proc[p].edge)
  <2>1. /\ log' = [log EXCEPT ![Msg(p)] =
                InsertRow(log[Msg(p)], proc[p].seqNo, proc[p].edge, ArchiveLink(Msg(p)))]
        /\ AfterAppend(p)
        /\ UNCHANGED <<seals, approvals>>
        /\ ArchiveLink(Msg(p)) \in Nat
    BY <1>1, <1>4, ArchiveLinkType DEF AppendTransition, WriteRow
  <2>2. to = "authorized" => Entered(log'[Msg(p)], "authorized") # {}
    BY <1>1, <1>4, <2>1, AppendedRow
  <2>3. Grows
    BY <1>1, <1>4, <2>1, AppendedRow
  <2>4. \A s \in 1..proc[p].sealNo : seals'[Msg(p)][s] > 0
    BY <1>1, <2>1 DEF Relies, Msg
  <2>5. \E l \in Local : /\ proc' = [proc EXCEPT ![p] = l]
                         /\ Relies(l, log', seals', approvals')
    <3>1. CASE to = "validated"
      <4> DEFINE l == [proc[p] EXCEPT !.at = "review"]
      <4>1. l \in Local /\ proc' = [proc EXCEPT ![p] = l]
        BY <1>1, <2>1, <3>1 DEF AfterAppend, Goto, Local, Locations
      <4>2. Relies(l, log', seals', approvals')
        BY <1>1, <2>4 DEF Relies, Appending, Local, Msg
      <4>3. QED
        BY <4>1, <4>2
    <3>2. CASE to = "reviewed"
      <4> DEFINE l == [proc[p] EXCEPT !.at = "authorize"]
      <4>1. l \in Local /\ proc' = [proc EXCEPT ![p] = l]
        BY <1>1, <2>1, <3>2 DEF AfterAppend, Goto, Local, Locations
      <4>2. Relies(l, log', seals', approvals')
        BY <1>1, <2>4 DEF Relies, Appending, Local, Msg
      <4>3. QED
        BY <4>1, <4>2
    <3>3. CASE to = "authorized"
      <4> DEFINE l == [proc[p] EXCEPT !.edge = [from |-> "authorized", to |-> "archived"],
                                      !.at = "count"]
      <4>1. l \in Local /\ proc' = [proc EXCEPT ![p] = l]
        BY <1>1, <2>1, <3>3 DEF AfterAppend, Propose, Local, Locations, Edge, MessageState
      <4>2. Relies(l, log', seals', approvals')
        BY <1>1, <2>2, <2>4, <3>3 DEF Relies, Appending, Local, Msg
      <4>3. QED
        BY <4>1, <4>2
    <3>4. CASE to \notin {"validated", "reviewed", "authorized"} /\ p = Worker
      <4> DEFINE l == [proc[p] EXCEPT !.at = "done"]
      <4>1. l \in Local /\ proc' = [proc EXCEPT ![p] = l]
        BY <1>1, <2>1, <3>4 DEF AfterAppend, Return, Goto, Local, Locations
      <4>2. Relies(l, log', seals', approvals')
        BY <1>1, <2>4 DEF Relies, Appending, Local, Msg
      <4>3. QED
        BY <4>1, <4>2
    <3>5. CASE to \notin {"validated", "reviewed", "authorized"} /\ p # Worker
      <4>1. proc' = [proc EXCEPT ![p] = Idle]
        BY <2>1, <3>5 DEF AfterAppend, Return
      <4>2. QED
        BY <4>1, IdleRelies
    <3>6. QED
      BY <3>1, <3>2, <3>3, <3>4, <3>5
  <2>6. QED
    BY <1>1, <1>2, <1>4, <2>1, <2>5, StepWithAppend
<1>5. QED
  BY <1>3, <1>4

\* The catch block's insert of a rejection.
LEMMA CatchAppendStep ==
    ASSUME DocketInv, CatchAppend
    PROVE  DocketInv'
<1> DEFINE p == Worker
<1>1. /\ p \in Procs /\ proc[p] \in Local /\ proc \in [Procs -> Local]
      /\ Relies(proc[p], log, seals, approvals)
      /\ proc[p].at = "catchAppend" /\ Msg(p) \in Msgs
  BY ProcType DEF CatchAppend, At, Relies, Msg, DocketInv, TypeOK, Procs
<1>2. RestOK'
  BY <1>1 DEF DocketInv, TypeOK, RestOK, CatchAppend, WriteRow, Msg, memory, bounds
<1>3. CASE ~Accepts(log[Msg(p)], proc[p].seqNo, proc[p].edge)
  BY <1>1, <1>2, <1>3, IdleStep DEF CatchAppend
<1>4. CASE Accepts(log[Msg(p)], proc[p].seqNo, proc[p].edge)
  <2> DEFINE l == [proc[p] EXCEPT !.at = "done"]
  <2>1. /\ log' = [log EXCEPT ![Msg(p)] =
                InsertRow(log[Msg(p)], proc[p].seqNo, proc[p].edge, CatchLink(Msg(p)))]
        /\ Goto(p, "done")
        /\ UNCHANGED <<seals, approvals>>
        /\ CatchLink(Msg(p)) \in Nat
    BY <1>1, <1>4, ArchiveLinkType DEF CatchAppend, WriteRow
  <2>2. l \in Local /\ proc' = [proc EXCEPT ![p] = l]
    BY <1>1, <2>1 DEF Goto, Local, Locations
  <2>3. Relies(l, log', seals', approvals')
    BY <1>1, <2>1 DEF Relies, Appending, Local, Msg
  <2>4. QED
    BY <1>1, <1>2, <1>4, <2>1, <2>2, <2>3, StepWithAppend
<1>5. QED
  BY <1>3, <1>4

-----------------------------------------------------------------------------
(* The remaining actions.                                                  *)

\* POST /messages: appendMessage and enqueueDocket.
LEMMA SubmitStep ==
    ASSUME DocketInv, NEW h \in Handlers, NEW m \in Msgs,
           AppendMessage(h, m) \/ EnqueueDocket(h)
    PROVE  DocketInv'
<1>1. h \in Procs /\ proc[h] \in Local /\ Relies(proc[h], log, seals, approvals)
  BY ProcType DEF Procs
<1>2. CASE AppendMessage(h, m)
  <2> DEFINE l == [Idle EXCEPT !.at = "enqueue", !.msg = m]
  <2>1. l \in Local
    BY IdleRelies DEF Local, Locations
  <2>2. Relies(l, log, seals, approvals)
    BY DEF Relies, Appending, Idle
  <2>3. RestOK' /\ UNCHANGED <<log, seals, approvals>> /\ proc' = [proc EXCEPT ![h] = l]
    BY <1>2 DEF AppendMessage, RestOK, DocketInv, TypeOK, memory, bounds
  <2>4. QED
    BY <1>1, <2>1, <2>2, <2>3, QuietStep
<1>3. CASE EnqueueDocket(h)
  <2>1. Msg(h) \in Msgs
    BY <1>1, <1>3 DEF EnqueueDocket, At, Relies, Msg
  <2>2. RestOK'
    BY <1>3, <2>1 DEF EnqueueDocket, RestOK, DocketInv, TypeOK, memory, bounds
  <2>3. QED
    BY <1>1, <1>3, <2>2, IdleStep DEF EnqueueDocket
<1>4. QED
  BY <1>2, <1>3

\* addOfficeApproval: the only step that changes the approvals.
LEMMA ApprovalStep ==
    ASSUME DocketInv, NEW h \in Handlers, NEW m \in Msgs, NEW office \in Offices,
           AddOfficeApproval(h, m, office)
    PROVE  DocketInv'
<1> DEFINE l == [Idle EXCEPT !.at = "tally", !.msg = m]
<1>1. h \in Procs /\ proc \in [Procs -> Local]
  BY DEF Procs, DocketInv, TypeOK
<1>2. l \in Local /\ proc' = [proc EXCEPT ![h] = l]
  BY IdleRelies DEF Local, Locations, AddOfficeApproval
<1>3. TypeOK'
  BY <1>1, <1>2 DEF AddOfficeApproval, DocketInv, TypeOK, memory
<1>4. Grows
  <2>1. \A n \in Msgs : NextSeq(log[n]) \in Nat
    BY LastSeqOfLog DEF DocketInv, TypeOK, ContiguousLog
  <2>2. \A n \in Msgs : approvals[n] \subseteq approvals'[n]
    BY DEF AddOfficeApproval, DocketInv, TypeOK
  <2>3. QED
    BY <2>1, <2>2 DEF Grows, AddOfficeApproval
<1>5. Dest[m] # {}
  BY DEF AddOfficeApproval
<1>6. Relies(l, log', seals', approvals')
  BY <1>5 DEF Relies, Appending, Idle
<1>7. UNCHANGED log
  BY DEF AddOfficeApproval
<1>8. QED
  BY <1>1, <1>2, <1>3, <1>4, <1>6, <1>7, StepWithoutAppend

\* The handler's decisions: the stored destinations it reads are those the
\* worker materializes, because an approving office is one of them.
LEMMA DecideStep ==
    ASSUME DocketInv, NEW h \in Handlers,
           TallyApprovals(h) \/ FinalizePending(h) \/ LawRefusesApproval(h)
    PROVE  DocketInv'
<1>1. h \in Procs /\ proc[h] \in Local /\ Relies(proc[h], log, seals, approvals)
  BY ProcType DEF Procs
<1>2. proc[h].at \in {"tally", "finalize"} /\ Msg(h) \in Msgs /\ Dest[Msg(h)] # {}
  BY <1>1 DEF TallyApprovals, FinalizePending, LawRefusesApproval, At, Relies, Msg
<1>3. RestOK' /\ UNCHANGED <<log, seals, approvals>>
  BY DEF TallyApprovals, FinalizePending, LawRefusesApproval, RestOK, DocketInv, TypeOK,
         archive, memory, bounds
<1>4. CASE proc' = [proc EXCEPT ![h] = Idle]
  BY <1>1, <1>3, <1>4, IdleStep
<1>5. CASE Goto(h, "finalize")
  <2>1. Relies([proc[h] EXCEPT !.at = "finalize"], log, seals, approvals)
    BY <1>1, <1>2 DEF Relies, Appending, Local, Msg
  <2>2. QED
    BY <1>1, <1>3, <1>5, <2>1, GotoStep DEF Locations
<1>6. CASE AcksMet(Msg(h), Dest[Msg(h)], approvals[Msg(h)]) /\ Goto(h, "seal")
  <2>1. AcksMet(Msg(h), Materialized(Msg(h)), approvals[Msg(h)])
    BY <1>2, <1>6 DEF Materialized
  <2>2. Relies([proc[h] EXCEPT !.at = "seal"], log, seals, approvals)
    BY <1>1, <1>2, <2>1 DEF Relies, Appending, Local, Msg
  <2>3. QED
    BY <1>1, <1>3, <1>6, <2>2, GotoStep DEF Locations
<1>7. QED
  BY <1>4, <1>5, <1>6 DEF TallyApprovals, FinalizePending, LawRefusesApproval

\* The worker's steps outside the shared pipeline and its catch block.
LEMMA WorkerDecisionStep ==
    ASSUME DocketInv, DequeueDocket \/ ApplyRoutingLaw \/ Review \/ Authorize
    PROVE  DocketInv'
<1>1. Worker \in Procs /\ proc[Worker] \in Local /\ Relies(proc[Worker], log, seals, approvals)
  BY ProcType DEF Procs
<1>2. CASE DequeueDocket
  <2> DEFINE l == [Idle EXCEPT !.at = "route", !.msg = Head(docket)]
  <2>1. Head(docket) \in Msgs /\ Tail(docket) \in Seq(Msgs)
    BY <1>2 DEF DequeueDocket, DocketInv, TypeOK
  <2>2. l \in Local
    BY <2>1, IdleRelies DEF Local, Locations
  <2>3. Relies(l, log, seals, approvals)
    BY <2>1 DEF Relies, Appending, Idle
  <2>4. RestOK' /\ UNCHANGED <<log, seals, approvals>> /\ proc' = [proc EXCEPT ![Worker] = l]
    BY <1>2, <2>1 DEF DequeueDocket, RestOK, DocketInv, TypeOK, memory, bounds
  <2>5. QED
    BY <1>1, <2>2, <2>3, <2>4, QuietStep
<1>3. CASE ApplyRoutingLaw \/ Review \/ Authorize
  <2>1. RestOK' /\ UNCHANGED <<log, seals, approvals>>
    BY <1>3 DEF ApplyRoutingLaw, Review, Authorize, RestOK, DocketInv, TypeOK,
                archive, memory, bounds
  <2>2. proc[Worker].at # "idle" /\ Msg(Worker) \in Msgs
    BY <1>1, <1>3 DEF ApplyRoutingLaw, Review, Authorize, At, Relies, Msg
  <2>3. \/ \E from, to \in MessageState :
              to \notin {"authorized", "archived"} /\ Propose(Worker, from, to)
        \/ /\ AcksMet(Msg(Worker), Materialized(Msg(Worker)), approvals[Msg(Worker)])
           /\ Goto(Worker, "seal")
    BY <1>3 DEF ApplyRoutingLaw, Review, Authorize, MessageState
  <2>4. CASE Goto(Worker, "seal") /\
             AcksMet(Msg(Worker), Materialized(Msg(Worker)), approvals[Msg(Worker)])
    <3>1. Relies([proc[Worker] EXCEPT !.at = "seal"], log, seals, approvals)
      BY <1>1, <2>2, <2>4 DEF Relies, Appending, Local, Msg
    <3>2. QED
      BY <1>1, <2>1, <2>4, <3>1, GotoStep DEF Locations
  <2>5. QED
    BY <1>1, <2>1, <2>2, <2>3, <2>4, ProposeStep
<1>4. QED
  BY <1>2, <1>3

\* The catch block before its insert, and the end of the worker's loop body.
LEMMA WorkerEpilogueStep ==
    ASSUME DocketInv, CatchSnapshot \/ CatchCount \/ NoteAmendment \/ FinishItem
    PROVE  DocketInv'
<1>1. /\ Worker \in Procs /\ proc[Worker] \in Local /\ proc \in [Procs -> Local]
      /\ Relies(proc[Worker], log, seals, approvals)
  BY ProcType DEF Procs, DocketInv, TypeOK
<1>2. Msg(Worker) \in Msgs
  BY <1>1 DEF CatchSnapshot, CatchCount, NoteAmendment, FinishItem, At, Relies, Msg
<1>3. /\ State(Msg(Worker)) \in MessageState
      /\ NextSeq(log[Msg(Worker)]) \in Nat \ {0}
      /\ LastSeq(log[Msg(Worker)]) \in Nat
  BY <1>2, StateType, LastSeqOfLog DEF DocketInv, TypeOK, ContiguousLog
<1>4. CASE CatchSnapshot
  <2> DEFINE l == [proc[Worker] EXCEPT
                    !.edge = [from |-> State(Msg(Worker)), to |-> "rejected"],
                    !.at = IF State(Msg(Worker)) = "rejected" THEN "done" ELSE "catchCount"]
  <2>1. l \in Local
    BY <1>1, <1>3 DEF Local, Locations, Edge, MessageState
  <2>2. proc' = [proc EXCEPT ![Worker] = l]
    BY <1>1, <1>4 DEF CatchSnapshot
  <2>3. Relies(l, log, seals, approvals)
    BY <1>1, <1>2 DEF Relies, Appending, Local, Msg
  <2>4. RestOK' /\ UNCHANGED <<log, seals, approvals>>
    BY <1>4 DEF CatchSnapshot, RestOK, DocketInv, TypeOK, archive, memory, bounds
  <2>5. QED
    BY <1>1, <2>1, <2>2, <2>3, <2>4, QuietStep
<1>5. CASE CatchCount
  <2> DEFINE l == [proc[Worker] EXCEPT !.seqNo = NextSeq(log[Msg(Worker)]),
                                       !.at = "catchAppend"]
  <2>1. l \in Local
    BY <1>1, <1>3 DEF Local, Locations
  <2>2. proc' = [proc EXCEPT ![Worker] = l]
    BY <1>1, <1>5 DEF CatchCount
  <2>3. Relies(l, log, seals, approvals)
    BY <1>1, <1>2, <1>3, <1>5 DEF Relies, Appending, Local, Msg, CatchCount, At
  <2>4. RestOK' /\ UNCHANGED <<log, seals, approvals>>
    BY <1>5 DEF CatchCount, RestOK, DocketInv, TypeOK, archive, memory, bounds
  <2>5. QED
    BY <1>1, <2>1, <2>2, <2>3, <2>4, QuietStep
<1>6. CASE FinishItem
  <2>1. events' \in SUBSET Event
    BY <1>2, <1>3, <1>6 DEF FinishItem, Publish, EventType, Event, DocketInv, TypeOK
  <2>2. RestOK' /\ UNCHANGED <<log, seals, approvals>>
    BY <1>6, <2>1 DEF FinishItem, RestOK, DocketInv, TypeOK, archive, bounds
  <2>3. QED
    BY <1>1, <1>6, <2>2, IdleStep DEF FinishItem
<1>7. CASE NoteAmendment
  <2>1. amendment' \in BOOLEAN
    BY <1>7, Zenon DEF NoteAmendment, DocketInv, TypeOK
  <2>2. RestOK' /\ UNCHANGED <<log, seals, approvals>> /\ Goto(Worker, "publish")
    BY <1>7, <2>1 DEF NoteAmendment, RestOK, DocketInv, TypeOK, archive, bounds
  <2>3. Relies([proc[Worker] EXCEPT !.at = "publish"], log, seals, approvals)
    BY <1>1, <1>2 DEF Relies, Appending, Local, Msg
  <2>4. QED
    BY <1>1, <2>2, <2>3, GotoStep DEF Locations
<1>8. QED
  BY <1>4, <1>5, <1>6, <1>7

\* applySealsAndArchive and appendNextTransition up to the insert.
LEMMA PipelineReadStep ==
    ASSUME DocketInv, NEW p \in Procs,
           \/ CreateSealChain(p) \/ SnapshotForArchive(p)
           \/ SnapshotForReject(p) \/ CountTransitions(p)
    PROVE  DocketInv'
<1>1. /\ proc[p] \in Local /\ proc \in [Procs -> Local]
      /\ Relies(proc[p], log, seals, approvals)
  BY ProcType DEF DocketInv, TypeOK
<1>2. Msg(p) \in Msgs /\ proc[p].at # "idle"
  BY <1>1 DEF CreateSealChain, SnapshotForArchive, SnapshotForReject, CountTransitions,
              At, Relies, Msg
<1>3. State(Msg(p)) \in MessageState /\ NextSeq(log[Msg(p)]) \in Nat \ {0}
  BY <1>2, StateType, LastSeqOfLog DEF DocketInv, TypeOK, ContiguousLog
<1>4. RestOK' /\ UNCHANGED <<log, seals, approvals>>
  BY DEF CreateSealChain, SnapshotForArchive, SnapshotForReject, CountTransitions,
         RestOK, DocketInv, TypeOK, archive, memory, bounds
<1>5. CASE CreateSealChain(p)
  <2>1. PICK location \in {"sealing", "sealFailed"} :
          proc' = [proc EXCEPT ![p].sealNo = 0, ![p].at = location]
    BY <1>5 DEF CreateSealChain
  <2> DEFINE l == [proc[p] EXCEPT !.sealNo = 0, !.at = location]
  <2>2. l \in Local
    <3>1. location \in Locations /\ 0 \in 0..6
      BY DEF Locations
    <3>2. QED
      BY <1>1, <3>1 DEF Local
  <2>3. proc' = [proc EXCEPT ![p] = l]
    BY <1>1, <2>1
  <2>4. Relies(l, log, seals, approvals)
    BY <1>1, <1>2, <1>5 DEF Relies, Appending, Local, Msg, CreateSealChain, At
  <2>5. QED
    BY <1>4, <2>2, <2>3, <2>4, QuietStep
<1>6. CASE SnapshotForArchive(p)
  <2>1. /\ proc[p].sealNo = 6
        /\ AcksMet(Msg(p), Materialized(Msg(p)), approvals[Msg(p)])
    BY <1>1, <1>6 DEF Relies, SnapshotForArchive, At, Msg
  <2>2. QED
    BY <1>2, <1>3, <1>4, <1>6, <2>1, ProposeStep DEF SnapshotForArchive, MessageState
<1>7. CASE SnapshotForReject(p)
  BY <1>2, <1>3, <1>4, <1>7, ProposeStep DEF SnapshotForReject, MessageState
<1>8. CASE CountTransitions(p)
  <2> DEFINE l == [proc[p] EXCEPT !.seqNo = NextSeq(log[Msg(p)]), !.at = "append"]
  <2>1. l \in Local
    BY <1>1, <1>3 DEF Local, Locations
  <2>2. proc' = [proc EXCEPT ![p] = l]
    BY <1>1, <1>8 DEF CountTransitions
  <2>3. Relies(l, log, seals, approvals)
    BY <1>1, <1>2, <1>3, <1>8 DEF Relies, Appending, Local, Msg, CountTransitions, At
  <2>4. QED
    BY <1>4, <2>1, <2>2, <2>3, QuietStep
<1>9. QED
  BY <1>5, <1>6, <1>7, <1>8

\* appendSeal: a stored row is added, or the id collides and the call throws.
LEMMA AppendSealStep ==
    ASSUME DocketInv, NEW p \in Procs, AppendSeal(p)
    PROVE  DocketInv'
<1> DEFINE stage == proc[p].sealNo + 1
<1>1. /\ proc[p] \in Local /\ proc \in [Procs -> Local]
      /\ Relies(proc[p], log, seals, approvals)
      /\ seals \in [Msgs -> [Stages -> Nat]]
  BY ProcType DEF DocketInv, TypeOK
<1>2. Msg(p) \in Msgs /\ proc[p].at = "sealing" /\ stage \in Stages /\ proc[p].sealNo \in 0..5
  BY <1>1 DEF AppendSeal, At, Relies, Msg, Local, Stages
<1>3. RestOK' /\ UNCHANGED <<log, approvals>>
  BY DEF AppendSeal, RestOK, DocketInv, TypeOK, memory, bounds
<1>4. CASE UNCHANGED seals /\ Raise(p)
  BY <1>2, <1>3, <1>4, RaiseStep
<1>5. CASE /\ seals' = [seals EXCEPT ![Msg(p)][stage] = @ + 1]
           /\ proc' = [proc EXCEPT
                        ![p].sealNo = stage,
                        ![p].at = IF ChainStored(stage) THEN "snapshot" ELSE "sealing"]
  <2> DEFINE l == [proc[p] EXCEPT
                    !.sealNo = stage,
                    !.at = IF ChainStored(stage) THEN "snapshot" ELSE "sealing"]
  <2>1. l \in Local /\ proc' = [proc EXCEPT ![p] = l]
    <3>1. l \in Local
      <4>1. /\ stage \in 0..6
            /\ (IF ChainStored(stage) THEN "snapshot" ELSE "sealing") \in Locations
        BY <1>2 DEF Locations, Stages
      <4>2. QED
        BY <1>1, <4>1 DEF Local
    <3>2. proc' = [proc EXCEPT ![p] = l]
      BY <1>1, <1>5
    <3>3. QED
      BY <3>1, <3>2
  <2>2. /\ seals' \in [Msgs -> [Stages -> Nat]]
        /\ \A m \in Msgs : \A s \in Stages : seals[m][s] > 0 => seals'[m][s] > 0
        /\ seals'[Msg(p)][stage] > 0
    BY <1>1, <1>2, <1>5
  <2>3. TypeOK'
    BY <1>3, <2>1, <2>2, <1>1 DEF DocketInv, TypeOK, RestOK
  <2>4. \A m \in Msgs : NextSeq(log[m]) \in Nat
    BY LastSeqOfLog DEF DocketInv, TypeOK, ContiguousLog
  <2>5. Grows
    BY <1>3, <2>2, <2>4 DEF Grows
  <2>6. /\ l.msg = Msg(p) /\ l.sealNo = stage
        /\ l.at \in {"sealing", "snapshot"}
        /\ l.at = "snapshot" => stage = 6
        /\ l.at = "sealing" => stage < 6
    BY <1>1, <1>2 DEF Local, Msg, ChainStored, Stages
  <2>7. AcksMet(Msg(p), Materialized(Msg(p)), approvals[Msg(p)])
    BY <1>1, <1>2 DEF Relies, Msg
  <2>8. \A s \in 1..stage : seals'[Msg(p)][s] > 0
    <3>1. \A s \in 1..proc[p].sealNo : seals[Msg(p)][s] > 0
      BY <1>1 DEF Relies, Msg
    <3>2. QED
      BY <1>2, <2>2, <3>1 DEF Stages
  <2> HIDE DEF l
  <2>9. Relies(l, log', seals', approvals')
    BY <1>2, <1>3, <2>6, <2>7, <2>8 DEF Relies, Appending
  <2>10. QED
    BY <1>3, <2>1, <2>3, <2>5, <2>9, StepWithoutAppend
<1>6. QED
  BY <1>4, <1>5 DEF AppendSeal

\* A call that throws sends its process to its catch block or ends it.
LEMMA FaultStep ==
    ASSUME DocketInv, NEW p \in Procs, Fault(p)
    PROVE  DocketInv'
<1>1. RestOK' /\ UNCHANGED <<log, seals, approvals>>
  BY DEF Fault, RestOK, DocketInv, TypeOK, archive, memory
<1>2. proc[p].at # "idle"
  BY DEF Fault, At
<1>3. QED
  BY <1>1, <1>2, IdleStep, RaiseStep DEF Fault

\* A restart forgets every process, so nothing is relied upon.
LEMMA CrashStep ==
    ASSUME DocketInv, Crash
    PROVE  DocketInv'
<1>1. \A q \in Procs : proc'[q] = Idle
  BY DEF Crash, Restart
<1>2. TypeOK'
  <2>1. RestOK'
    <3>1. amendment' \in BOOLEAN
      BY Zenon DEF Crash, Restart
    <3>2. crashes' \in Nat /\ events' \in SUBSET Event
      BY DEF Crash, Restart, DocketInv, TypeOK
    <3>3. QED
      BY <3>1, <3>2 DEF Crash, Restart, RestOK, DocketInv, TypeOK, archive
  <2>2. proc' \in [Procs -> Local]
    BY IdleRelies DEF Crash, Restart
  <2>3. QED
    BY <2>1, <2>2 DEF Crash, RestOK, DocketInv, TypeOK, archive
<1>3. \A q \in Procs : Relies(proc'[q], log', seals', approvals')
  BY <1>1, IdleRelies
<1>4. UNCHANGED <<log, seals, approvals>>
  BY DEF Crash, archive
<1>5. QED
  BY <1>2, <1>3, <1>4 DEF DocketInv, ContiguousLog, AuthorizedIsSealed,
     AuthorizedIsApproved, ArchivedWasAuthorized

\* A restart between the insert of an 'archived' row and its index.
LEMMA CrashInAppendStep ==
    ASSUME DocketInv, NEW p \in Procs, CrashInAppend(p)
    PROVE  DocketInv'
<1>1. /\ proc[p].at = "append"
      /\ Accepts(log[Msg(p)], proc[p].seqNo, proc[p].edge)
      /\ log' = [log EXCEPT ![Msg(p)] =
                InsertRow(log[Msg(p)], proc[p].seqNo, proc[p].edge, ArchiveLink(Msg(p)))]
      /\ UNCHANGED <<seals, approvals>>
  BY DEF CrashInAppend, At
<1>2. Msg(p) \in Msgs
  BY <1>1, ProcType DEF Relies, Msg
<1>3. ArchiveLink(Msg(p)) \in Nat
  BY <1>2, ArchiveLinkType
<1>4. /\ DOMAIN log' = Msgs /\ \A m \in Msgs : IsLog(log'[m])
      /\ ContiguousLog' /\ AuthorizedIsSealed' /\ AuthorizedIsApproved'
      /\ ArchivedWasAuthorized'
  BY <1>1, <1>3, AppendedRow
<1>5. \A q \in Procs : proc'[q] = Idle
  BY DEF CrashInAppend, Restart
<1>6. TypeOK'
  <2>1. RestOK'
    <3>1. amendment' \in BOOLEAN
      BY Zenon DEF CrashInAppend, Restart
    <3>2. crashes' \in Nat /\ events' \in SUBSET Event
      BY DEF CrashInAppend, Restart, DocketInv, TypeOK
    <3>3. QED
      BY <3>1, <3>2 DEF CrashInAppend, Restart, RestOK, DocketInv, TypeOK
  <2>2. proc' \in [Procs -> Local]
    BY IdleRelies DEF CrashInAppend, Restart
  <2>3. QED
    BY <1>1, <1>4, <2>1, <2>2 DEF RestOK, DocketInv, TypeOK
<1>7. \A q \in Procs : Relies(proc'[q], log', seals', approvals')
  BY <1>5, IdleRelies
<1>8. QED
  BY <1>4, <1>6, <1>7 DEF DocketInv

-----------------------------------------------------------------------------
(* The theorems.                                                           *)

\* The empty archive satisfies the invariant.
LEMMA InitInv == Init => DocketInv
<1> SUFFICES ASSUME Init PROVE DocketInv
  OBVIOUS
<1>1. /\ DOMAIN EmptyLog = {} /\ EmptyLog \in [{} -> Row]
      /\ Cardinality({}) = 0 /\ IsFiniteSet({})
  BY FS_EmptySet DEF EmptyLog
<1>2. IsLog(EmptyLog)
  BY <1>1 DEF IsLog
<1>3. DOMAIN log = Msgs /\ \A m \in Msgs : log[m] = EmptyLog
  BY DEF Init
<1>4. TypeOK
  <2>1. proc \in [Procs -> Local]
    BY IdleRelies DEF Init
  <2>2. /\ seals \in [Msgs -> [Stages -> Nat]]
        /\ approvals \in [Msgs -> SUBSET Offices]
        /\ docket \in Seq(Msgs)
    BY DEF Init
  <2>3. amendment \in BOOLEAN /\ events \in SUBSET Event
    BY DEF Init
  <2>4. QED
    BY <1>2, <1>3, <2>1, <2>2, <2>3 DEF Init, TypeOK
<1>5. \A m \in Msgs : DOMAIN log[m] = {} /\ \A state : Entered(log[m], state) = {}
  BY <1>1, <1>3 DEF Entered
<1>6. ContiguousLog
  <2>1. 1..0 = {}
    OBVIOUS
  <2>2. QED
    BY <1>1, <1>5, <2>1 DEF ContiguousLog
<1>7. AuthorizedIsSealed /\ AuthorizedIsApproved /\ ArchivedWasAuthorized
  BY <1>5 DEF AuthorizedIsSealed, AuthorizedIsApproved, ArchivedWasAuthorized
<1>8. \A q \in Procs : Relies(proc[q], log, seals, approvals)
  BY IdleRelies DEF Init
<1>9. QED
  BY <1>4, <1>6, <1>7, <1>8 DEF DocketInv

\* Every step of the worker, the handlers and the environment keeps it.
LEMMA NextInv == DocketInv /\ [Next]_vars => DocketInv'
<1> SUFFICES ASSUME DocketInv, [Next]_vars PROVE DocketInv'
  OBVIOUS
<1>1. CASE WorkerStep
  BY <1>1, WorkerDecisionStep, WorkerEpilogueStep, CatchAppendStep DEF WorkerStep
<1>2. CASE \E h \in Handlers : Client(h) \/ HandlerStep(h)
  <2>1. PICK h \in Handlers : Client(h) \/ HandlerStep(h)
    BY <1>2
  <2>2. CASE Client(h)
    BY <2>2, SubmitStep, ApprovalStep DEF Client
  <2>3. CASE EnqueueDocket(h)
    <3>1. \A m \in Msgs : DocketInv'
      BY <2>3, SubmitStep
    <3>2. Msg(h) \in Msgs
      BY <2>3, ProcType DEF EnqueueDocket, At, Relies, Msg, Procs
    <3>3. QED
      BY <3>1, <3>2
  <2>4. CASE TallyApprovals(h) \/ FinalizePending(h) \/ LawRefusesApproval(h)
    BY <2>4, DecideStep
  <2>5. QED
    BY <2>1, <2>2, <2>3, <2>4 DEF HandlerStep
<1>3. CASE \E p \in Procs : PipelineStep(p) \/ Fault(p) \/ CrashInAppend(p)
  <2>1. PICK p \in Procs : PipelineStep(p) \/ Fault(p) \/ CrashInAppend(p)
    BY <1>3
  <2>2. CASE PipelineStep(p)
    BY <2>2, PipelineReadStep, AppendSealStep, AppendTransitionStep DEF PipelineStep
  <2>3. QED
    BY <2>1, <2>2, FaultStep, CrashInAppendStep
<1>4. CASE Crash
  BY <1>4, CrashStep
<1>5. CASE UNCHANGED vars
  BY <1>5 DEF vars, archive, memory, bounds, DocketInv, TypeOK, ContiguousLog,
     AuthorizedIsSealed, AuthorizedIsApproved, ArchivedWasAuthorized
<1>6. QED
  BY <1>1, <1>2, <1>3, <1>4, <1>5 DEF Next

\* For any messages, offices, handlers, laws and bounds, every reachable state
\* satisfies the inductive invariant: the archive is well formed and every
\* coroutine of the gateway can rely on what it read before its last await.
THEOREM DocketInvariant == Spec => []DocketInv
BY InitInv, NextInv, PTL DEF Spec

\* Type correctness of the docket, for every value of the constants.
THEOREM DocketTypeOK == Spec => []TypeOK
<1>1. DocketInv => TypeOK
  BY DEF DocketInv
<1>2. QED
  BY <1>1, DocketInvariant, PTL

\* The numbers getTransitions(id).length + 1 that writers read in one await
\* and insert in another never leave a gap, whatever the writers.
THEOREM LogIsContiguous == Spec => []ContiguousLog
<1>1. DocketInv => ContiguousLog
  BY DEF DocketInv
<1>2. QED
  BY <1>1, DocketInvariant, PTL

\* What is authorized has a stored seal of each stage (applySealsAndArchive).
THEOREM AuthorizedSealed == Spec => []AuthorizedIsSealed
<1>1. DocketInv => AuthorizedIsSealed
  BY DEF DocketInv
<1>2. QED
  BY <1>1, DocketInvariant, PTL

\* What is authorized was acknowledged by the offices the routed message owed,
\* whether the worker or an approval handler finalized it.
THEOREM AuthorizedApproved == Spec => []AuthorizedIsApproved
<1>1. DocketInv => AuthorizedIsApproved
  BY DEF DocketInv
<1>2. QED
  BY <1>1, DocketInvariant, PTL

\* Nothing is archived that was not authorized first (appendTransition).
THEOREM ArchivedAuthorized == Spec => []ArchivedWasAuthorized
<1>1. DocketInv => ArchivedWasAuthorized
  BY DEF DocketInv
<1>2. QED
  BY <1>1, DocketInvariant, PTL

\* A row accepted by the archive replaces no row.
LEMMA AppendKeepsRows ==
    ASSUME DocketInv, NEW p \in Procs, proc[p].at \in {"append", "catchAppend"},
           Accepts(log[Msg(p)], proc[p].seqNo, proc[p].edge), NEW prev \in Nat,
           log' = [log EXCEPT ![Msg(p)] =
                    InsertRow(log[Msg(p)], proc[p].seqNo, proc[p].edge, prev)],
           UNCHANGED <<seals, approvals>>
    PROVE  RowsKept
<1>1. Grows
  BY AppendedRow
<1>2. QED
  BY <1>1 DEF Grows, RowsKept

\* Process p inserts its row, linked by the archive or by the catch block.
Appends(p) ==
    /\ Accepts(log[Msg(p)], proc[p].seqNo, proc[p].edge)
    /\ UNCHANGED <<seals, approvals>>
    /\ \/ /\ proc[p].at = "append"
          /\ log' = [log EXCEPT ![Msg(p)] =
                InsertRow(log[Msg(p)], proc[p].seqNo, proc[p].edge, ArchiveLink(Msg(p)))]
       \/ /\ proc[p].at = "catchAppend"
          /\ log' = [log EXCEPT ![Msg(p)] =
                InsertRow(log[Msg(p)], proc[p].seqNo, proc[p].edge, CatchLink(Msg(p)))]

\* A step that changes the transitions table is the append of one process.
LEMMA OnlyAppendsWrite ==
    ASSUME DocketInv, [Next]_vars, log' # log
    PROVE  \E p \in Procs : Appends(p)
<1>1. \/ CatchAppend
      \/ \E p \in Procs : AppendTransition(p) \/ CrashInAppend(p)
  <2>1. ~UNCHANGED vars /\ ~Crash
    BY Zenon DEF Crash, archive, vars
  <2>2. WorkerStep => CatchAppend
    BY Zenon DEF archive, WorkerStep, DequeueDocket, ApplyRoutingLaw, Review, Authorize,
       CatchSnapshot, CatchCount, NoteAmendment, FinishItem
  <2>3. \A h \in Handlers : ~Client(h)
    BY Zenon DEF Client, AppendMessage, AddOfficeApproval
  <2>4. \A h \in Handlers : ~HandlerStep(h)
    BY Zenon DEF archive, HandlerStep, EnqueueDocket, TallyApprovals, FinalizePending,
       LawRefusesApproval
  <2>5. \A p \in Procs : PipelineStep(p) => AppendTransition(p)
    BY Zenon DEF archive, PipelineStep, CreateSealChain, AppendSeal, SnapshotForArchive,
       SnapshotForReject, CountTransitions
  <2>6. \A p \in Procs : ~Fault(p)
    BY Zenon DEF archive, Fault
  <2>7. QED
    BY <2>1, <2>2, <2>3, <2>4, <2>5, <2>6, Zenon DEF Next
<1>2. CASE CatchAppend
  <2>1. Worker \in Procs /\ Appends(Worker)
    BY <1>2 DEF CatchAppend, At, WriteRow, Procs, Appends
  <2>2. QED
    BY <2>1
<1>3. ASSUME NEW p \in Procs, AppendTransition(p) \/ CrashInAppend(p)
      PROVE  Appends(p)
  <2>1. CASE AppendTransition(p)
    BY <2>1 DEF AppendTransition, At, WriteRow, Appends
  <2>2. CASE CrashInAppend(p)
    BY <2>2 DEF CrashInAppend, At, Appends
  <2>3. QED
    BY <1>3, <2>1, <2>2
<1>4. QED
  BY <1>1, <1>2, <1>3

\* A step either leaves the transitions table alone or only adds to it.
LEMMA NextKeepsRows == DocketInv /\ [Next]_vars => [RowsKept]_log
<1> SUFFICES ASSUME DocketInv, [Next]_vars, log' # log PROVE RowsKept
  OBVIOUS
<1>1. PICK p \in Procs : Appends(p)
  BY OnlyAppendsWrite
<1>2. Msg(p) \in Msgs
  BY <1>1, ProcType DEF Relies, Msg, Appends
<1>3. QED
  BY <1>1, <1>2, ArchiveLinkType, AppendKeepsRows DEF Appends

\* The archive is append-only: no step of any writer, no fault and no restart
\* replaces or removes a transition row.
THEOREM ArchiveAppendOnly == Spec => AppendOnly
BY DocketInvariant, NextKeepsRows, PTL DEF Spec, AppendOnly

-----------------------------------------------------------------------------
(* The events on the stream.                                               *)

\* The states a row may enter that an event for an edge to `to` tells of.
Told(to) == IF to = "rejected" THEN {"rejected"} ELSE {"pending", "archived"}

\* When the loop body is at its end, the decision it is about to publish is in
\* the log.
Decides(l, lg) ==
    l.at \in {"done", "publish"} =>
        \E i \in DOMAIN lg[l.msg] : lg[l.msg][i].to \in Told(l.edge.to)

DecisionInv == EventsTellDecisions /\ Decides(proc[Worker], log)

\* Nothing is published, and the worker stays or does not come to its end.
LEMMA DecisionKept ==
    ASSUME DocketInv, DecisionInv, RowsKept, events' \subseteq events,
           \/ proc'[Worker] = proc[Worker]
           \/ proc'[Worker].at \notin {"done", "publish"}
    PROVE  DecisionInv'
<1>1. \A e \in events : e.msg \in Msgs
  BY DEF DocketInv, TypeOK, Event
<1>2. EventsTellDecisions'
  <2> SUFFICES ASSUME NEW e \in events'
               PROVE  \E i \in DOMAIN log'[e.msg] :
                         i <= e.seq /\ log'[e.msg][i].to \in
                            (IF e.type = "message.rejected" THEN {"rejected"}
                             ELSE {"pending", "archived"})
    BY DEF EventsTellDecisions
  <2>1. e \in events /\ e.msg \in Msgs
    BY <1>1
  <2>2. PICK i \in DOMAIN log[e.msg] :
            i <= e.seq /\ log[e.msg][i].to \in
               (IF e.type = "message.rejected" THEN {"rejected"} ELSE {"pending", "archived"})
    BY <2>1 DEF DecisionInv, EventsTellDecisions
  <2>3. i \in DOMAIN log'[e.msg] /\ log'[e.msg][i] = log[e.msg][i]
    BY <2>1, <2>2 DEF RowsKept
  <2>4. QED
    BY <2>2, <2>3
<1>3. Decides(proc'[Worker], log')
  <2>1. CASE proc'[Worker].at \notin {"done", "publish"}
    BY <2>1 DEF Decides
  <2>2. CASE proc'[Worker] = proc[Worker] /\ proc[Worker].at \in {"done", "publish"}
    <3>1. proc[Worker].msg \in Msgs
      BY <2>2, ProcType DEF Relies, Procs
    <3>2. PICK i \in DOMAIN log[proc[Worker].msg] :
              log[proc[Worker].msg][i].to \in Told(proc[Worker].edge.to)
      BY <2>2 DEF DecisionInv, Decides
    <3>3. /\ i \in DOMAIN log'[proc[Worker].msg]
          /\ log'[proc[Worker].msg][i] = log[proc[Worker].msg][i]
      BY <3>1, <3>2 DEF RowsKept
    <3>4. QED
      BY <2>2, <3>2, <3>3 DEF Decides
  <2>3. QED
    BY <2>1, <2>2
<1>4. QED
  BY <1>2, <1>3 DEF DecisionInv

\* The worker comes to its end: the decision is in the log.
LEMMA DecisionReached ==
    ASSUME DocketInv, DecisionInv, RowsKept, events' = events, NEW l,
           proc' = [proc EXCEPT ![Worker] = l],
           \E i \in DOMAIN log'[l.msg] : log'[l.msg][i].to \in Told(l.edge.to)
    PROVE  DecisionInv'
<1>1. proc'[Worker] = l
  BY DEF DocketInv, TypeOK, Procs
<1>2. EventsTellDecisions'
  <2>1. \A e \in events : e.msg \in Msgs
    BY DEF DocketInv, TypeOK, Event
  <2>2. QED
    BY <2>1 DEF DecisionInv, EventsTellDecisions, RowsKept
<1>3. QED
  BY <1>1, <1>2 DEF DecisionInv, Decides

\* A row that is accepted enters the state it was proposed for.
LEMMA RowEnters ==
    ASSUME DocketInv, NEW p \in Procs, proc[p].at \in {"append", "catchAppend"},
           NEW prev,
           log' = [log EXCEPT ![Msg(p)] =
                    InsertRow(log[Msg(p)], proc[p].seqNo, proc[p].edge, prev)]
    PROVE  \E i \in DOMAIN log'[proc[p].msg] : log'[proc[p].msg][i].to = proc[p].edge.to
<1> DEFINE k == proc[p].seqNo
           g == InsertRow(log[Msg(p)], k, proc[p].edge, prev)
<1>1. proc[p].msg \in Msgs /\ Msg(p) = proc[p].msg
  BY ProcType DEF Relies, Msg
<1>2. log'[proc[p].msg] = g
  BY <1>1 DEF DocketInv, TypeOK
<1>3. k \in DOMAIN g /\ g[k].to = proc[p].edge.to
  BY DEF InsertRow
<1> HIDE DEF g
<1>4. QED
  BY <1>2, <1>3

\* The steps that neither append a row nor end the worker's loop body.
LEMMA QuietDecision ==
    ASSUME DocketInv, DecisionInv, RowsKept,
           \/ DequeueDocket \/ ApplyRoutingLaw \/ Review \/ Authorize \/ CatchCount
           \/ \E h \in Handlers : Client(h) \/ HandlerStep(h)
           \/ \E p \in Procs : \/ CreateSealChain(p) \/ AppendSeal(p)
                               \/ SnapshotForArchive(p) \/ SnapshotForReject(p)
                               \/ CountTransitions(p) \/ Fault(p)
    PROVE  DecisionInv'
<1>1. proc \in [Procs -> Local] /\ Worker \in Procs
  BY DEF DocketInv, TypeOK, Procs
<1>2. ASSUME NEW p \in Procs, NEW l, proc' = [proc EXCEPT ![p] = l],
             p = Worker => l.at \notin {"done", "publish"}, events' = events
      PROVE  DecisionInv'
  <2>1. \/ proc'[Worker] = proc[Worker] \/ proc'[Worker].at \notin {"done", "publish"}
    BY <1>1, <1>2
  <2>2. QED
    BY <1>2, <2>1, DecisionKept
<1>3. ASSUME NEW p \in Procs, NEW location \in Locations \ {"done", "publish"}, Goto(p, location),
             events' = events
      PROVE  DecisionInv'
  <2> DEFINE l == [proc[p] EXCEPT !.at = location]
  <2>1. proc' = [proc EXCEPT ![p] = l] /\ l.at = location
    BY <1>1, <1>3 DEF Goto, Local
  <2> HIDE DEF l
  <2>2. QED
    BY <1>2, <1>3, <2>1
<1>4. ASSUME NEW p \in Procs, NEW from, NEW to, Propose(p, from, to), events' = events
      PROVE  DecisionInv'
  <2> DEFINE l == [proc[p] EXCEPT !.edge = [from |-> from, to |-> to], !.at = "count"]
  <2>1. proc' = [proc EXCEPT ![p] = l] /\ l.at = "count"
    BY <1>1, <1>4 DEF Propose, Local
  <2> HIDE DEF l
  <2>2. QED
    BY <1>2, <1>4, <2>1
<1>5. ASSUME NEW p \in Procs, proc' = [proc EXCEPT ![p] = Idle], events' = events
      PROVE  DecisionInv'
  <2>1. Idle.at = "idle"
    BY DEF Idle
  <2>2. QED
    BY <1>2, <1>5, <2>1
<1>6. ASSUME NEW p \in Procs, Raise(p), events' = events
      PROVE  DecisionInv'
  BY <1>3, <1>5, <1>6 DEF Raise, Locations
<1>7. CASE DequeueDocket
  <2> DEFINE l == [Idle EXCEPT !.at = "route", !.msg = Head(docket)]
  <2>1. proc' = [proc EXCEPT ![Worker] = l] /\ l.at = "route" /\ events' = events
    BY <1>7 DEF DequeueDocket, Idle, memory
  <2> HIDE DEF l
  <2>2. QED
    BY <1>1, <1>2, <2>1
<1>8. CASE ApplyRoutingLaw \/ Review \/ Authorize
  <2>1. events' = events
    BY <1>8 DEF ApplyRoutingLaw, Review, Authorize, memory
  <2>2. (\E from, to : Propose(Worker, from, to)) \/ Goto(Worker, "seal")
    BY <1>8 DEF ApplyRoutingLaw, Review, Authorize
  <2>3. QED
    BY <1>1, <1>3, <1>4, <2>1, <2>2 DEF Locations
<1>9. CASE CatchCount
  <2> DEFINE l == [proc[Worker] EXCEPT !.seqNo = NextSeq(log[Msg(Worker)]),
                                       !.at = "catchAppend"]
  <2>1. proc' = [proc EXCEPT ![Worker] = l] /\ l.at = "catchAppend" /\ events' = events
    BY <1>1, <1>9 DEF CatchCount, Local, memory
  <2> HIDE DEF l
  <2>2. QED
    BY <1>1, <1>2, <2>1
<1>10. ASSUME NEW h \in Handlers, Client(h) \/ HandlerStep(h)
       PROVE  DecisionInv'
  <2>1. h # Worker /\ h \in Procs
    BY DocketAssumption DEF Procs
  <2>2. events' = events
    BY <1>10, Zenon DEF Client, AppendMessage, AddOfficeApproval, HandlerStep,
       EnqueueDocket, TallyApprovals, FinalizePending, LawRefusesApproval, memory
  <2>3. (\E l : proc' = [proc EXCEPT ![h] = l]) \/ (\E at : Goto(h, at))
    BY <1>10, Zenon DEF Client, AppendMessage, AddOfficeApproval, HandlerStep,
       EnqueueDocket, TallyApprovals, FinalizePending, LawRefusesApproval
  <2>4. proc'[Worker] = proc[Worker]
    BY <1>1, <2>1, <2>3 DEF Goto
  <2>5. QED
    BY <2>2, <2>4, DecisionKept
<1>11. ASSUME NEW p \in Procs, CreateSealChain(p)
       PROVE  DecisionInv'
  <2>1. PICK location \in {"sealing", "sealFailed"} :
            proc' = [proc EXCEPT ![p].sealNo = 0, ![p].at = location]
    BY <1>11 DEF CreateSealChain
  <2> DEFINE l == [proc[p] EXCEPT !.sealNo = 0, !.at = location]
  <2>2. events' = events
    BY <1>11 DEF CreateSealChain, memory
  <2>3. proc' = [proc EXCEPT ![p] = l]
    BY <2>1
  <2>4. l.at = location
    BY <1>1 DEF Local
  <2> HIDE DEF l
  <2>5. QED
    BY <1>2, <2>1, <2>2, <2>3, <2>4
<1>12. ASSUME NEW p \in Procs, AppendSeal(p)
       PROVE  DecisionInv'
  <2> DEFINE stage == proc[p].sealNo + 1
             at == IF ChainStored(stage) THEN "snapshot" ELSE "sealing"
             l == [proc[p] EXCEPT !.sealNo = stage, !.at = at]
  <2>1. events' = events
    BY <1>12 DEF AppendSeal, memory
  <2>2. Raise(p) \/ proc' = [proc EXCEPT ![p] = l]
    BY <1>12 DEF AppendSeal
  <2>3. at \notin {"done", "publish"}
    OBVIOUS
  <2> HIDE DEF at, stage
  <2>4. l.at = at
    BY <1>1 DEF Local
  <2> HIDE DEF l
  <2>5. QED
    BY <1>2, <1>6, <2>1, <2>2, <2>3, <2>4
<1>13. ASSUME NEW p \in Procs, SnapshotForArchive(p) \/ SnapshotForReject(p)
       PROVE  DecisionInv'
  BY <1>4, <1>13 DEF SnapshotForArchive, SnapshotForReject, memory
<1>14. ASSUME NEW p \in Procs, CountTransitions(p)
       PROVE  DecisionInv'
  <2> DEFINE l == [proc[p] EXCEPT !.seqNo = NextSeq(log[Msg(p)]), !.at = "append"]
  <2>1. proc' = [proc EXCEPT ![p] = l] /\ l.at = "append" /\ events' = events
    BY <1>1, <1>14 DEF CountTransitions, Local, memory
  <2> HIDE DEF l
  <2>2. QED
    BY <1>2, <2>1
<1>15. ASSUME NEW p \in Procs, Fault(p)
       PROVE  DecisionInv'
  <2>1. events' = events /\ (Raise(p) \/ proc' = [proc EXCEPT ![p] = Idle])
    BY <1>15 DEF Fault, memory
  <2>2. QED
    BY <1>5, <1>6, <2>1
<1>16. QED
  BY <1>7, <1>8, <1>9, <1>10, <1>11, <1>12, <1>13, <1>14, <1>15

\* A transition is appended, by the worker or by a handler.
LEMMA AppendDecision ==
    ASSUME DocketInv, DecisionInv, RowsKept, NEW p \in Procs, AppendTransition(p)
    PROVE  DecisionInv'
<1>1. /\ proc \in [Procs -> Local] /\ Worker \in Procs /\ events' = events
      /\ proc[p].at = "append" /\ proc[p].edge.to \in MessageState
  BY DEF DocketInv, TypeOK, Procs, AppendTransition, At, memory, Local, Edge
<1>2. ASSUME NEW l, proc' = [proc EXCEPT ![p] = l],
             p = Worker => l.at \notin {"done", "publish"}
      PROVE  DecisionInv'
  <2>1. \/ proc'[Worker] = proc[Worker] \/ proc'[Worker].at \notin {"done", "publish"}
    BY <1>1, <1>2
  <2>2. QED
    BY <1>1, <2>1, DecisionKept
<1>3. ASSUME NEW location \in Locations \ {"done", "publish"}, Goto(p, location)
      PROVE  DecisionInv'
  <2> DEFINE l == [proc[p] EXCEPT !.at = location]
  <2>1. proc' = [proc EXCEPT ![p] = l] /\ l.at = location
    BY <1>1, <1>3 DEF Goto, Local
  <2> HIDE DEF l
  <2>2. QED
    BY <1>2, <1>3, <2>1
<1>4. CASE proc' = [proc EXCEPT ![p] = Idle]
  <2>1. Idle.at = "idle"
    BY DEF Idle
  <2>2. QED
    BY <1>2, <1>4, <2>1
<1>5. CASE Propose(p, "authorized", "archived")
  <2> DEFINE l == [proc[p] EXCEPT !.edge = [from |-> "authorized", to |-> "archived"],
                                  !.at = "count"]
  <2>1. proc' = [proc EXCEPT ![p] = l] /\ l.at = "count"
    BY <1>1, <1>5 DEF Propose, Local
  <2> HIDE DEF l
  <2>2. QED
    BY <1>2, <2>1
<1>6. CASE ~Accepts(log[Msg(p)], proc[p].seqNo, proc[p].edge)
  <2>1. Raise(p)
    BY <1>6 DEF AppendTransition
  <2>2. QED
    BY <1>3, <1>4, <2>1 DEF Raise, Locations
<1>7. CASE Accepts(log[Msg(p)], proc[p].seqNo, proc[p].edge)
  <2>1. AfterAppend(p) /\ WriteRow(p, ArchiveLink(Msg(p)))
    BY <1>7 DEF AppendTransition
  <2>2. \E i \in DOMAIN log'[proc[p].msg] : log'[proc[p].msg][i].to = proc[p].edge.to
    BY <1>1, <2>1, RowEnters DEF WriteRow
  <2>3. CASE proc[p].edge.to \in {"validated", "reviewed", "authorized"}
    <3>1. Goto(p, "review") \/ Goto(p, "authorize") \/ Propose(p, "authorized", "archived")
      BY <2>1, <2>3 DEF AfterAppend
    <3>2. QED
      BY <1>3, <1>5, <3>1 DEF Locations
  <2>4. CASE proc[p].edge.to \notin {"validated", "reviewed", "authorized"}
    <3>1. Return(p)
      BY <2>1, <2>4 DEF AfterAppend
    <3>2. CASE p # Worker
      BY <1>4, <3>1, <3>2 DEF Return
    <3>3. CASE p = Worker
      <4> DEFINE l == [proc[Worker] EXCEPT !.at = "done"]
      <4>1. /\ proc' = [proc EXCEPT ![Worker] = l]
            /\ l.msg = proc[Worker].msg /\ l.edge = proc[Worker].edge
        BY <1>1, <3>1, <3>3 DEF Return, Goto, Local
      <4> HIDE DEF l
      <4>2. proc[p].edge.to \in Told(proc[p].edge.to)
        BY <1>1, <2>4 DEF Told, MessageState
      <4>3. \E i \in DOMAIN log'[l.msg] : log'[l.msg][i].to \in Told(l.edge.to)
        BY <2>2, <3>3, <4>1, <4>2
      <4>4. QED
        BY <1>1, <4>1, <4>3, DecisionReached
    <3>4. QED
      BY <3>2, <3>3
  <2>5. QED
    BY <2>3, <2>4
<1>8. QED
  BY <1>6, <1>7

\* The worker's catch block ends with a rejection that is in the log: the one it
\* found or the one it appends.
LEMMA CatchDecision ==
    ASSUME DocketInv, DecisionInv, RowsKept, CatchSnapshot \/ CatchAppend
    PROVE  DecisionInv'
<1> DEFINE w == proc[Worker]
<1>1. /\ proc \in [Procs -> Local] /\ Worker \in Procs /\ w \in Local /\ events' = events
  BY DEF DocketInv, TypeOK, Procs, CatchSnapshot, CatchAppend, memory
<1>2. w.at # "idle" /\ Relies(w, log, seals, approvals) /\ w.msg \in Msgs /\ Msg(Worker) = w.msg
  BY <1>1, ProcType DEF CatchSnapshot, CatchAppend, At, Relies, Msg
<1>3. CASE CatchSnapshot
  <2> DEFINE state == State(Msg(Worker))
             at == IF state = "rejected" THEN "done" ELSE "catchCount"
             l == [proc[Worker] EXCEPT !.edge = [from |-> state, to |-> "rejected"],
                                       !.at = at]
  <2>1. proc' = [proc EXCEPT ![Worker] = l] /\ log' = log
    BY <1>3 DEF CatchSnapshot, archive
  <2>2. /\ state = "rejected" => at = "done"
        /\ state # "rejected" => at = "catchCount"
    OBVIOUS
  <2>3. state = "rejected" => \E i \in DOMAIN log[w.msg] : log[w.msg][i].to = "rejected"
    <3> SUFFICES ASSUME state = "rejected"
                 PROVE  \E i \in DOMAIN log[w.msg] : log[w.msg][i].to = "rejected"
      OBVIOUS
    <3>1. DOMAIN log[w.msg] # {} /\ log[w.msg][LastSeq(log[w.msg])].to = "rejected"
      BY <1>2 DEF State, SnapshotState
    <3>2. LastSeq(log[w.msg]) \in DOMAIN log[w.msg]
      BY <1>2, <3>1, LastSeqOfLog DEF DocketInv, TypeOK, ContiguousLog
    <3>3. QED
      BY <3>1, <3>2
  <2> HIDE DEF state, at
  <2>4. l.at = at /\ l.msg = w.msg /\ l.edge.to = "rejected"
    BY <1>1 DEF Local
  <2> HIDE DEF l
  <2>5. CASE state = "rejected"
    <3>1. \E i \in DOMAIN log'[l.msg] : log'[l.msg][i].to \in Told(l.edge.to)
      BY <2>1, <2>3, <2>4, <2>5 DEF Told
    <3>2. QED
      BY <1>1, <2>1, <3>1, DecisionReached
  <2>6. CASE state # "rejected"
    <3>1. proc'[Worker].at \notin {"done", "publish"}
      BY <1>1, <2>1, <2>2, <2>4, <2>6
    <3>2. QED
      BY <1>1, <3>1, DecisionKept
  <2>7. QED
    BY <2>5, <2>6
<1>4. CASE CatchAppend
  <2>1. CASE ~Accepts(log[Msg(Worker)], w.seqNo, w.edge)
    <3>1. proc' = [proc EXCEPT ![Worker] = Idle] /\ Idle.at = "idle"
      BY <1>4, <2>1 DEF CatchAppend, Idle
    <3>2. proc'[Worker].at \notin {"done", "publish"}
      BY <1>1, <3>1
    <3>3. QED
      BY <1>1, <3>2, DecisionKept
  <2>2. CASE Accepts(log[Msg(Worker)], w.seqNo, w.edge)
    <3> DEFINE l == [proc[Worker] EXCEPT !.at = "done"]
    <3>1. WriteRow(Worker, CatchLink(Msg(Worker))) /\ Goto(Worker, "done")
      BY <1>4, <2>2 DEF CatchAppend
    <3>2. w.at = "catchAppend" /\ w.edge.to = "rejected"
      BY <1>2, <1>4 DEF CatchAppend, At, Relies
    <3>3. \E i \in DOMAIN log'[w.msg] : log'[w.msg][i].to = "rejected"
      BY <1>1, <3>1, <3>2, RowEnters DEF WriteRow
    <3>4. proc' = [proc EXCEPT ![Worker] = l] /\ l.msg = w.msg /\ l.edge = w.edge
      BY <1>1, <3>1 DEF Goto, Local
    <3> HIDE DEF l, w
    <3>5. \E i \in DOMAIN log'[l.msg] : log'[l.msg][i].to \in Told(l.edge.to)
      BY <3>2, <3>3, <3>4 DEF Told
    <3>6. QED
      BY <1>1, <3>4, <3>5, DecisionReached
  <2>3. QED
    BY <2>1, <2>2
<1>5. QED
  BY <1>3, <1>4

\* The event names the last row, which is no earlier than the decision.
LEMMA PublishDecision ==
    ASSUME DocketInv, DecisionInv, FinishItem
    PROVE  DecisionInv'
<1> DEFINE m == Msg(Worker)
           to == proc[Worker].edge.to
           last == LastSeq(log[m])
           e == [msg |-> m, seq |-> last, type |-> EventType(to)]
<1>1. /\ proc \in [Procs -> Local] /\ Worker \in Procs /\ log' = log
      /\ proc[Worker].at = "publish" /\ m = proc[Worker].msg
      /\ proc' = [proc EXCEPT ![Worker] = Idle]
  BY DEF DocketInv, TypeOK, Procs, FinishItem, At, archive, Msg
<1>2. m \in Msgs
  BY <1>1, ProcType DEF Relies
<1>3. events' = events \/ events' = events \cup {e}
  BY DEF FinishItem, Publish
<1>4. e.msg = m /\ e.seq = last /\ e.type = EventType(to)
  OBVIOUS
<1>5. PICK i \in DOMAIN log[m] : log[m][i].to \in Told(to)
  BY <1>1 DEF DecisionInv, Decides
<1>6. i <= last
  <2>1. /\ IsLog(log[m]) /\ DOMAIN log[m] = 1..Cardinality(DOMAIN log[m])
    BY <1>2 DEF DocketInv, TypeOK, ContiguousLog
  <2>2. \A j \in DOMAIN log[m] : j <= LastSeq(log[m])
    BY <2>1, <1>5, LastSeqOfLog
  <2>3. QED
    BY <1>5, <2>2
<1>7. Told(to) = IF EventType(to) = "message.rejected" THEN {"rejected"}
                 ELSE {"pending", "archived"}
  BY DEF Told, EventType
<1> HIDE DEF e, last, to, m
<1>8. EventsTellDecisions'
  BY <1>1, <1>3, <1>4, <1>5, <1>6, <1>7 DEF DecisionInv, EventsTellDecisions
<1>9. Decides(proc'[Worker], log')
  <2>1. proc'[Worker] = Idle /\ Idle.at = "idle"
    BY <1>1 DEF Idle
  <2>2. QED
    BY <2>1 DEF Decides
<1>10. QED
  BY <1>8, <1>9 DEF DecisionInv

\* Nothing is published and the worker is idle at the start.
LEMMA InitDecision == Init => DecisionInv
<1>1. Idle.at = "idle"
  BY DEF Idle
<1>2. QED
  BY <1>1 DEF Init, DecisionInv, EventsTellDecisions, Decides, Procs

\* The published events and the worker's pending decision stay in the log.
LEMMA DecisionStep == DocketInv /\ DecisionInv /\ [Next]_vars => DecisionInv'
<1> SUFFICES ASSUME DocketInv, DecisionInv, [Next]_vars PROVE DecisionInv'
  OBVIOUS
<1>1. RowsKept
  BY NextKeepsRows DEF RowsKept
<1>2. proc \in [Procs -> Local] /\ Worker \in Procs
  BY DEF DocketInv, TypeOK, Procs
<1>3. CASE WorkerStep
  <2>1. CASE NoteAmendment
    <3> DEFINE l == [proc[Worker] EXCEPT !.at = "publish"]
    <3>1. /\ proc' = [proc EXCEPT ![Worker] = l] /\ log' = log /\ events' = events
          /\ proc[Worker].at = "done"
          /\ l.msg = proc[Worker].msg /\ l.edge = proc[Worker].edge
      BY <1>2, <2>1 DEF NoteAmendment, Goto, At, archive, Local
    <3> HIDE DEF l
    <3>2. \E i \in DOMAIN log'[l.msg] : log'[l.msg][i].to \in Told(l.edge.to)
      BY <3>1 DEF DecisionInv, Decides
    <3>3. QED
      BY <1>1, <3>1, <3>2, DecisionReached
  <2>2. QED
    BY <1>1, <1>3, <2>1, QuietDecision, CatchDecision, PublishDecision DEF WorkerStep
<1>4. CASE \E h \in Handlers : Client(h) \/ HandlerStep(h)
  BY <1>1, <1>4, QuietDecision
<1>5. ASSUME NEW p \in Procs, PipelineStep(p) \/ Fault(p)
      PROVE  DecisionInv'
  BY <1>1, <1>5, QuietDecision, AppendDecision DEF PipelineStep
<1>6. CASE Restart
  <2>1. events' = {} /\ proc'[Worker] = Idle /\ Idle.at = "idle"
    BY <1>2, <1>6 DEF Restart, Idle
  <2>2. QED
    BY <1>1, <2>1, DecisionKept
<1>7. CASE UNCHANGED vars
  BY <1>1, <1>7, DecisionKept DEF vars, memory
<1>8. QED
  BY <1>3, <1>4, <1>5, <1>6, <1>7 DEF Next, Crash, CrashInAppend

\* An event on the stream tells of a decision that is in the log no later than
\* the row the event names, although handlers may append between the decision
\* and the publication (the end of processDocketLoop's body).
THEOREM EventsAreTrue == Spec => []EventsTellDecisions
<1>1. DecisionInv => EventsTellDecisions
  BY DEF DecisionInv
<1>2. QED
  BY <1>1, InitDecision, DocketInvariant, DecisionStep, PTL DEF Spec

-----------------------------------------------------------------------------
(* The hash links.                                                         *)

\* A row that extends a log by its last number and links to the last row, or
\* is a rejection that copies the last row's link, keeps the links in order.
LEMMA AppendLinks ==
    ASSUME DocketInv, LinksFollowRows,
           NEW p \in Procs, proc[p].at \in {"append", "catchAppend"},
           Accepts(log[Msg(p)], proc[p].seqNo, proc[p].edge),
           NEW prev \in {ArchiveLink(Msg(p)), CatchLink(Msg(p))},
           prev = ArchiveLink(Msg(p)) \/ proc[p].edge.to = "rejected",
           log' = [log EXCEPT ![Msg(p)] =
                    InsertRow(log[Msg(p)], proc[p].seqNo, proc[p].edge, prev)]
    PROVE  LinksFollowRows'
<1> DEFINE m0 == Msg(p)
           k == proc[p].seqNo
           edge == proc[p].edge
           f == log[m0]
           n == Cardinality(DOMAIN f)
           g == InsertRow(f, k, edge, prev)
<1>1. m0 \in Msgs /\ k \in 1..NextSeq(f) /\ k \notin DOMAIN f
  BY ProcType DEF Relies, Local, Msg, Accepts
<1>2. IsLog(f) /\ DOMAIN f = 1..n
  BY <1>1 DEF DocketInv, TypeOK, ContiguousLog
<1>3. n \in Nat /\ LastSeq(f) = n /\ k = n + 1
  BY <1>1, <1>2, LastSeqOfLog DEF NextSeq
<1>4. log'[m0] = g /\ \A m \in Msgs : m # m0 => log'[m] = log[m]
  BY <1>1 DEF DocketInv, TypeOK
<1>5. /\ DOMAIN g = DOMAIN f \cup {k} /\ \A i \in DOMAIN f : g[i] = f[i]
      /\ g[k].to = edge.to /\ g[k].prev = prev
  BY <1>1 DEF InsertRow
<1>6. prev = n \/ (edge.to = "rejected" /\ prev = IF n = 0 THEN 0 ELSE f[n].prev)
  BY <1>3 DEF ArchiveLink, CatchLink
<1> HIDE DEF m0, k, edge, f, n, g
<1> SUFFICES ASSUME NEW m \in Msgs, NEW i \in DOMAIN log'[m]
             PROVE  \/ log'[m][i].prev = i - 1
                    \/ /\ i - 1 \in DOMAIN log'[m]
                       /\ log'[m][i].to = "rejected"
                       /\ log'[m][i].prev = log'[m][i - 1].prev
  BY DEF LinksFollowRows
<1>7. CASE m # m0
  BY <1>4, <1>7 DEF LinksFollowRows
<1>8. CASE m = m0 /\ i = k
  <2>1. n = 0 => i - 1 = 0
    BY <1>3, <1>8
  <2>2. n # 0 => n \in DOMAIN f /\ i - 1 = n
    BY <1>2, <1>3, <1>8
  <2>3. QED
    BY <1>3, <1>4, <1>5, <1>6, <1>8, <2>1, <2>2
<1>9. CASE m = m0 /\ i # k
  <2>1. i \in DOMAIN f
    BY <1>4, <1>5, <1>9
  <2>2. \/ f[i].prev = i - 1
        \/ /\ i - 1 \in DOMAIN f /\ f[i].to = "rejected"
           /\ f[i].prev = f[i - 1].prev
    BY <1>1, <2>1 DEF LinksFollowRows, f
  <2>3. QED
    BY <1>4, <1>5, <1>9, <2>1, <2>2
<1>10. QED
  BY <1>7, <1>8, <1>9

\* Only the appends write links, and only the catch block's is a copy.
LEMMA LinkStep == DocketInv /\ LinksFollowRows /\ [Next]_vars => LinksFollowRows'
<1> SUFFICES ASSUME DocketInv, LinksFollowRows, [Next]_vars PROVE LinksFollowRows'
  OBVIOUS
<1>1. CASE log' = log
  BY <1>1 DEF LinksFollowRows
<1>2. CASE log' # log
  <2>1. PICK p \in Procs : log' # log /\ Appends(p)
    BY <1>2, OnlyAppendsWrite
  <2>2. CASE proc[p].at = "append"
    BY <2>1, <2>2, AppendLinks DEF Appends
  <2>3. CASE proc[p].at = "catchAppend"
    <3>1. proc[p].edge.to = "rejected"
      BY <2>3, ProcType DEF Relies
    <3>2. QED
      BY <2>1, <2>3, <3>1, AppendLinks DEF Appends
  <2>4. QED
    BY <2>1, <2>2, <2>3 DEF Appends
<1>3. QED
  BY <1>1, <1>2

\* Every row names the row before it, or it is a rejection that names what that
\* row names: the one link that does not come from the archive is the one the
\* worker's catch block passes (appendTransition, processDocketLoop).
THEOREM LinksInOrder == Spec => []LinksFollowRows
<1>1. Init => LinksFollowRows
  BY DEF Init, LinksFollowRows, EmptyLog
<1>2. QED
  BY <1>1, DocketInvariant, LinkStep, PTL DEF Spec

-----------------------------------------------------------------------------
(* One append at a time.                                                   *)

\* The rows of a log with the links the archive gives them.
Relink(f) == [i \in DOMAIN f |-> [f[i] EXCEPT !.prev = i - 1]]

\* A log without gaps is a sequence of rows whose last one snapshotState reads.
LEMMA RelinkIsSequence ==
    ASSUME NEW f, IsLog(f), DOMAIN f = 1..Cardinality(DOMAIN f)
    PROVE  /\ Relink(f) \in Seq(Row)
           /\ Len(Relink(f)) = Cardinality(DOMAIN f)
           /\ DOMAIN Relink(f) = DOMAIN f
           /\ \A i \in DOMAIN f : Relink(f)[i] =
                 [from |-> f[i].from, to |-> f[i].to, prev |-> i - 1]
           /\ Serial!StateOf(Relink(f)) = SnapshotState(f)
<1> DEFINE n == Cardinality(DOMAIN f)
           s == Relink(f)
<1>1. n \in Nat /\ LastSeq(f) = n
  BY LastSeqOfLog
<1>2. ASSUME NEW i \in DOMAIN f
      PROVE  /\ s[i] = [from |-> f[i].from, to |-> f[i].to, prev |-> i - 1]
             /\ s[i] \in Row
  <2>1. f[i] \in Row /\ i - 1 \in Nat
    BY <1>1 DEF IsLog
  <2>2. s[i] = [f[i] EXCEPT !.prev = i - 1]
    BY DEF Relink
  <2> HIDE DEF s
  <2>3. QED
    BY <2>1, <2>2 DEF Row
<1>3. DOMAIN s = 1..n /\ s = [i \in 1..n |-> s[i]]
  BY DEF Relink
<1>4. s \in [1..n -> Row]
  <2> HIDE DEF s
  <2>1. QED
    BY <1>2, <1>3
<1> HIDE DEF s
<1>5. s \in Seq(Row) /\ Len(s) = n
  BY <1>1, <1>3, <1>4
<1>6. Serial!StateOf(s) = SnapshotState(f)
  <2>1. CASE n = 0
    <3>1. DOMAIN f = {} /\ s = <<>>
      BY <1>5, <2>1
    <3>2. QED
      BY <3>1 DEF SnapshotState, Serial!StateOf
  <2>2. CASE n # 0
    <3>1. n \in DOMAIN f /\ s # <<>>
      BY <1>1, <1>5, <2>2
    <3>2. s[n] = [from |-> f[n].from, to |-> f[n].to, prev |-> n - 1]
      BY <1>2, <3>1
    <3>3. s[n].to = f[n].to
      BY <3>2
    <3>4. SnapshotState(f) = f[n].to
      BY <1>1, <3>1 DEF SnapshotState
    <3>5. Serial!StateOf(s) = s[n].to
      BY <1>5, <3>1 DEF Serial!StateOf
    <3>6. QED
      BY <3>3, <3>4, <3>5
  <2>3. QED
    BY <2>1, <2>2
<1>7. QED
  BY <1>2, <1>3, <1>5, <1>6 DEF s

\* The row that is inserted is the row that is appended.
LEMMA InsertIsAppend ==
    ASSUME NEW f, IsLog(f), DOMAIN f = 1..Cardinality(DOMAIN f),
           NEW k \in 1..NextSeq(f), k \notin DOMAIN f,
           NEW edge \in Edge, NEW prev \in Nat
    PROVE  Relink(InsertRow(f, k, edge, prev)) =
              Append(Relink(f), [from |-> edge.from, to |-> edge.to,
                                 prev |-> Len(Relink(f))])
<1> DEFINE n == Cardinality(DOMAIN f)
           g == InsertRow(f, k, edge, prev)
           row == [from |-> edge.from, to |-> edge.to, prev |-> n]
           s == Relink(f)
           t == Relink(g)
           u == Append(s, row)
<1>1. n \in Nat /\ k = n + 1 /\ k - 1 = n
  BY LastSeqOfLog DEF NextSeq
<1>2. Extends(f, g, k, edge.to)
  BY InsertNext
<1>3. /\ IsLog(g) /\ DOMAIN g = 1..Cardinality(DOMAIN g)
      /\ Cardinality(DOMAIN g) = n + 1
      /\ \A i \in DOMAIN f : g[i] = f[i]
  BY <1>1, <1>2, LastSeqOfLog DEF Extends, NextSeq
<1>4. g[k] = [from |-> edge.from, to |-> edge.to, prev |-> prev]
  BY DEF InsertRow
<1>5. row \in Row
  BY <1>1 DEF Row, Edge
<1> HIDE DEF g, row
<1>6. /\ s \in Seq(Row) /\ Len(s) = n
      /\ \A i \in 1..n : s[i] = [from |-> f[i].from, to |-> f[i].to, prev |-> i - 1]
  BY RelinkIsSequence
<1>7. /\ t \in Seq(Row) /\ Len(t) = n + 1
      /\ \A i \in 1..(n + 1) :
            t[i] = [from |-> g[i].from, to |-> g[i].to, prev |-> i - 1]
  BY <1>3, RelinkIsSequence
<1> HIDE DEF s, t
<1>8. /\ u \in Seq(Row) /\ Len(u) = n + 1 /\ u[n + 1] = row
      /\ \A i \in 1..n : u[i] = s[i]
  BY <1>1, <1>5, <1>6
<1> HIDE DEF u
<1>9. ASSUME NEW i \in 1..(n + 1) PROVE t[i] = u[i]
  <2>1. CASE i = n + 1
    BY <1>1, <1>4, <1>7, <1>8, <2>1 DEF row
  <2>2. CASE i # n + 1
    <3>1. i \in 1..n /\ g[i] = f[i]
      BY <1>1, <1>3, <2>2
    <3>2. QED
      BY <1>6, <1>7, <1>8, <3>1
  <2>3. QED
    BY <2>1, <2>2
<1>10. t = u
  <2>1. DOMAIN t = 1..(n + 1) /\ DOMAIN u = 1..(n + 1)
    BY <1>1, <1>7, <1>8
  <2>2. t = [i \in 1..(n + 1) |-> t[i]] /\ u = [i \in 1..(n + 1) |-> u[i]]
    BY <1>7, <1>8, <2>1
  <2>3. QED
    BY <1>9, <2>2
<1>11. QED
  BY <1>6, <1>10 DEF s, t, u, g, row

\* A step of Docket is one append, or leaves every log alone.
LEMMA SerialStep == DocketInv /\ [Next]_vars => [Serial!Next]_Relinked
<1> SUFFICES ASSUME DocketInv, [Next]_vars PROVE Relinked' = Relinked \/ Serial!Next
  OBVIOUS
<1>1. CASE log' = log
  BY <1>1 DEF Relinked
<1>2. CASE log' # log
  <2>1. PICK p \in Procs : Appends(p)
    BY <1>2, OnlyAppendsWrite
  <2> DEFINE m == Msg(p)
             f == log[m]
             k == proc[p].seqNo
             edge == proc[p].edge
  <2>2. m \in Msgs /\ edge \in Edge /\ k \in 1..NextSeq(f)
    BY <2>1, ProcType DEF Relies, Local, Msg, Appends
  <2>3. /\ k \notin DOMAIN f
        /\ CanTransition(SnapshotState(f), edge.to) \/ SnapshotState(f) = edge.from
    BY <2>1 DEF Appends, Accepts
  <2>4. PICK prev \in Nat : log' = [log EXCEPT ![m] = InsertRow(f, k, edge, prev)]
    BY <2>1, <2>2, ArchiveLinkType DEF Appends
  <2>5. /\ IsLog(f) /\ DOMAIN f = 1..Cardinality(DOMAIN f) /\ DOMAIN log = Msgs
    BY <2>2 DEF DocketInv, TypeOK, ContiguousLog
  <2> HIDE DEF f, k, edge, m
  <2> DEFINE g == InsertRow(f, k, edge, prev)
  <2>6. /\ log'[m] = g /\ \A x \in Msgs : x # m => log'[x] = log[x]
    BY <2>2, <2>4, <2>5
  <2>7. Relink(g) = Append(Relink(f), [from |-> edge.from, to |-> edge.to,
                                       prev |-> Len(Relink(f))])
    BY <2>2, <2>3, <2>5, InsertIsAppend
  <2> HIDE DEF g
  <2>8. Relinked = [x \in Msgs |-> Relink(log[x])]
    BY DEF Relinked, Relink
  <2>9. Relinked' = [x \in Msgs |-> Relink(log'[x])]
    BY DEF Relinked, Relink
  <2>10. Relinked[m] = Relink(f)
    BY <2>2, <2>8 DEF f
  <2>11. Relinked' = [Relinked EXCEPT ![m] =
              Append(@, [from |-> edge.from, to |-> edge.to, prev |-> Len(@)])]
    BY <2>2, <2>6, <2>7, <2>8, <2>9, <2>10
  <2>12. \/ edge.to \in AllowedTransitions[Serial!StateOf(Relinked[m])]
         \/ edge.from = Serial!StateOf(Relinked[m])
    BY <2>3, <2>5, <2>10, RelinkIsSequence DEF CanTransition
  <2>13. Serial!Write(m, edge)
    BY <2>11, <2>12 DEF Serial!Write
  <2>14. QED
    BY <2>2, <2>13 DEF Serial!Next
<1>3. QED
  BY <1>1, <1>2

\* The docket worker, the approval handlers and the SQLite archive together
\* write transitions as AtomicLog says, the same promise the D1 archive keeps:
\* the await between counting the rows and inserting one does not show.
THEOREM WritersRefine == Spec => WritersAreSerial
<1>1. DocketInv /\ Init => Serial!Init
  <2> SUFFICES ASSUME DocketInv, Init PROVE Serial!Init
    OBVIOUS
  <2>1. \A m \in Msgs : Relinked[m] = Relink(log[m])
    BY DEF Relinked, Relink
  <2>2. \A m \in Msgs : Relinked[m] \in Seq(Row)
    BY <2>1, RelinkIsSequence DEF DocketInv, TypeOK, ContiguousLog
  <2>3. Relinked = [m \in Msgs |-> Relinked[m]]
    BY DEF Relinked
  <2>4. Relinked \in [Msgs -> Seq(Row)]
    BY <2>2, <2>3
  <2>5. \A m \in Msgs : DOMAIN Relinked[m] = {}
    BY DEF Init, EmptyLog, Relinked
  <2>6. Serial!LogRow = Row
    BY DEF Serial!LogRow, Row
  <2>7. QED
    BY <2>4, <2>5, <2>6 DEF Serial!Init
<1>2. QED
  BY <1>1, DocketInvariant, SerialStep, PTL DEF Spec, WritersAreSerial, Serial!Spec

-----------------------------------------------------------------------------
(* Where a message is.                                                     *)

\* Process p goes on with the locals l.  A handler that goes on was not about
\* to queue a message; the worker keeps its message in hand unless that message
\* is decided.
GoesOn(p, l) ==
    /\ proc' = [proc EXCEPT ![p] = l]
    /\ l.at # "enqueue"
    /\ p \in Handlers => proc[p].at # "enqueue"
    /\ p = Worker => \/ l.at # "idle" /\ l.msg = proc[Worker].msg
                     \/ DOMAIN log[proc[Worker].msg] # {}

\* A step that neither feeds nor empties the docket and is no failure.
Quiet == UNCHANGED <<stored, docket>> /\ \E p \in Procs, l \in Local : GoesOn(p, l)

\* The locals a process goes on with keep its message or are those of Idle.
LEMMA GoingOn ==
    ASSUME DocketInv, NEW p \in Procs, NEW l \in Local,
           proc' = [proc EXCEPT ![p] = l], proc[p].at # "enqueue",
           l.at \notin {"idle", "enqueue"}, l.msg = proc[p].msg
    PROVE  \E q \in Procs, k \in Local : GoesOn(q, k)
<1>1. GoesOn(p, l)
  BY DEF GoesOn
<1>2. QED
  BY <1>1

LEMMA GoingIdle ==
    ASSUME DocketInv, NEW p \in Procs, proc' = [proc EXCEPT ![p] = Idle],
           proc[p].at # "enqueue",
           p = Worker => DOMAIN log[proc[Worker].msg] # {}
    PROVE  \E q \in Procs, k \in Local : GoesOn(q, k)
<1>1. Idle \in Local /\ Idle.at = "idle"
  BY IdleRelies DEF Idle, Local, Edge, MessageState, Locations
<1>2. GoesOn(p, Idle)
  BY <1>1 DEF GoesOn
<1>3. QED
  BY <1>1, <1>2

\* Goto, Propose and Raise are such steps; where a handler returns, a worker
\* that is not idle goes to a location of its loop.
LEMMA GotoGoesOn ==
    ASSUME DocketInv, NEW p \in Procs, NEW location \in Locations \ {"idle", "enqueue"},
           proc[p].at # "enqueue", Goto(p, location)
    PROVE  \E q \in Procs, k \in Local : GoesOn(q, k)
<1> DEFINE l == [proc[p] EXCEPT !.at = location]
<1>1. proc[p] \in Local /\ proc \in [Procs -> Local]
  BY DEF DocketInv, TypeOK
<1>2. l \in Local /\ l.at = location /\ l.msg = proc[p].msg
  BY <1>1 DEF Local
<1>3. proc' = [proc EXCEPT ![p] = l]
  BY DEF Goto
<1>4. QED
  BY <1>2, <1>3, GoingOn

LEMMA ProposeGoesOn ==
    ASSUME DocketInv, NEW p \in Procs, proc[p].at # "enqueue",
           NEW from \in MessageState, NEW to \in MessageState, Propose(p, from, to)
    PROVE  \E q \in Procs, k \in Local : GoesOn(q, k)
<1> DEFINE l == [proc[p] EXCEPT !.edge = [from |-> from, to |-> to], !.at = "count"]
<1>1. proc[p] \in Local /\ proc \in [Procs -> Local]
  BY DEF DocketInv, TypeOK
<1>2. l \in Local /\ l.at = "count" /\ l.msg = proc[p].msg
  BY <1>1 DEF Local, Edge, Locations
<1>3. proc' = [proc EXCEPT ![p] = l]
  BY <1>1 DEF Propose, Local
<1>4. QED
  BY <1>2, <1>3, GoingOn

LEMMA RaiseGoesOn ==
    ASSUME DocketInv, NEW p \in Procs, proc[p].at # "enqueue", Raise(p)
    PROVE  \E q \in Procs, k \in Local : GoesOn(q, k)
<1>1. CASE p = Worker
  <2>1. Goto(p, "catch") /\ "catch" \in Locations \ {"idle", "enqueue"}
    BY <1>1 DEF Raise, Locations
  <2>2. QED
    BY <2>1, GotoGoesOn
<1>2. CASE p # Worker
  BY <1>2, GoingIdle DEF Raise
<1>3. QED
  BY <1>1, <1>2

\* The worker's steps after it has dequeued a message.
LEMMA WorkerGoesOn ==
    ASSUME DocketInv, DecisionInv, WorkerStep, ~DequeueDocket
    PROVE  Quiet
<1>1. Worker \in Procs /\ proc[Worker] \in Local /\ proc \in [Procs -> Local]
  BY DEF Procs, DocketInv, TypeOK
<1>2. proc[Worker].at # "idle" => Msg(Worker) \in Msgs /\ Msg(Worker) = proc[Worker].msg
  BY <1>1, ProcType DEF Relies, Msg
<1>3. \A s \in {"pending", "validated", "reviewed", "rejected"} : s \in MessageState
  BY DEF MessageState
<1>4. \A x \in {"seal", "catch", "done", "publish", "catchCount", "catchAppend"} :
        x \in Locations \ {"idle", "enqueue"}
  BY DEF Locations
<1>5. CASE ApplyRoutingLaw \/ Review
  <2>1. /\ proc[Worker].at # "enqueue" /\ UNCHANGED <<stored, docket>>
        /\ \E from, to \in {"pending", "validated", "reviewed", "rejected"} :
              Propose(Worker, from, to)
    BY <1>5, Zenon DEF ApplyRoutingLaw, Review, At, archive
  <2>2. QED
    BY <1>1, <1>3, <2>1, ProposeGoesOn DEF Quiet
<1>6. CASE Authorize
  <2>1. /\ proc[Worker].at # "enqueue" /\ UNCHANGED <<stored, docket>>
        /\ \/ Goto(Worker, "seal")
           \/ Propose(Worker, "reviewed", "rejected")
           \/ Propose(Worker, "reviewed", "pending")
    BY <1>6, Zenon DEF Authorize, At, archive
  <2>2. QED
    BY <1>1, <1>3, <1>4, <2>1, ProposeGoesOn, GotoGoesOn DEF Quiet
<1>7. CASE CatchSnapshot \/ CatchCount
  <2> DEFINE l == proc'[Worker]
  <2>1. /\ proc[Worker].at \in {"catch", "catchCount"} /\ UNCHANGED <<stored, docket>>
        /\ proc' = [proc EXCEPT ![Worker] = l]
    BY <1>1, <1>7 DEF CatchSnapshot, CatchCount, At, archive
  <2>2. l.at \in {"done", "catchCount", "catchAppend"} /\ l.msg = proc[Worker].msg
    BY <1>1, <1>7 DEF CatchSnapshot, CatchCount, Local
  <2>3. l \in Local
    <3>1. DocketInv'
      BY <1>7, WorkerEpilogueStep
    <3>2. QED
      BY <1>1, <3>1 DEF DocketInv, TypeOK
  <2>4. QED
    BY <1>1, <2>1, <2>2, <2>3, GoingOn DEF Quiet
<1>8. CASE CatchAppend
  <2> DEFINE m == Msg(Worker)
  <2>1. /\ proc[Worker].at = "catchAppend" /\ UNCHANGED <<stored, docket>>
        /\ \/ Goto(Worker, "done")
           \/ /\ ~Accepts(log[m], proc[Worker].seqNo, proc[Worker].edge)
              /\ proc' = [proc EXCEPT ![Worker] = Idle]
    BY <1>8 DEF CatchAppend, At
  <2>2. ~Accepts(log[m], proc[Worker].seqNo, proc[Worker].edge) => DOMAIN log[m] # {}
    <3>1. proc[Worker].edge.to = "rejected"
      BY <1>1, <2>1, ProcType DEF Relies
    <3>2. SUFFICES ASSUME DOMAIN log[m] = {}
                   PROVE  Accepts(log[m], proc[Worker].seqNo, proc[Worker].edge)
      OBVIOUS
    <3>3. SnapshotState(log[m]) = "pending"
      BY <3>2 DEF SnapshotState
    <3>4. CanTransition("pending", "rejected")
      BY DEF CanTransition, AllowedTransitions, MessageState
    <3>5. QED
      BY <3>1, <3>2, <3>3, <3>4 DEF Accepts
  <2>3. QED
    BY <1>1, <1>2, <1>4, <2>1, <2>2, GotoGoesOn, GoingIdle DEF Quiet
<1>9. CASE NoteAmendment
  <2>1. /\ proc[Worker].at = "done" /\ UNCHANGED <<stored, docket>>
        /\ Goto(Worker, "publish")
    BY <1>9 DEF NoteAmendment, At, archive
  <2>2. QED
    BY <1>1, <1>4, <2>1, GotoGoesOn DEF Quiet
<1>10. CASE FinishItem
  <2>1. /\ proc[Worker].at = "publish" /\ UNCHANGED <<stored, docket>>
        /\ proc' = [proc EXCEPT ![Worker] = Idle]
    BY <1>10 DEF FinishItem, At, archive
  <2>2. DOMAIN log[proc[Worker].msg] # {}
    BY <2>1 DEF DecisionInv, Decides
  <2>3. QED
    BY <1>1, <2>1, <2>2, GoingIdle DEF Quiet
<1>11. QED
  BY <1>5, <1>6, <1>7, <1>8, <1>9, <1>10 DEF WorkerStep

\* The steps of an approval handler.
LEMMA HandlerGoesOn ==
    ASSUME DocketInv, NEW h \in Handlers,
           \/ TallyApprovals(h) \/ FinalizePending(h) \/ LawRefusesApproval(h)
           \/ \E m \in Msgs, office \in Offices : AddOfficeApproval(h, m, office)
    PROVE  Quiet
<1>1. h \in Procs /\ h # Worker /\ proc[h] \in Local /\ proc \in [Procs -> Local]
  BY DocketAssumption DEF Procs, DocketInv, TypeOK
<1>2. CASE TallyApprovals(h) \/ FinalizePending(h) \/ LawRefusesApproval(h)
  <2>1. /\ proc[h].at # "enqueue" /\ UNCHANGED <<stored, docket>>
        /\ \/ proc' = [proc EXCEPT ![h] = Idle]
           \/ Goto(h, "finalize")
           \/ Goto(h, "seal")
    BY <1>2, Zenon DEF TallyApprovals, FinalizePending, LawRefusesApproval, At, archive
  <2>2. \A x \in {"finalize", "seal"} : x \in Locations \ {"idle", "enqueue"}
    BY DEF Locations
  <2>3. QED
    BY <1>1, <2>1, <2>2, GotoGoesOn, GoingIdle DEF Quiet
<1>3. ASSUME NEW m \in Msgs, NEW office \in Offices, AddOfficeApproval(h, m, office)
      PROVE  Quiet
  <2> DEFINE l == [Idle EXCEPT !.at = "tally", !.msg = m]
  <2>1. /\ proc[h].at # "enqueue" /\ UNCHANGED <<stored, docket>>
        /\ proc' = [proc EXCEPT ![h] = l]
    BY <1>3 DEF AddOfficeApproval, At
  <2>2. l \in Local /\ l.at = "tally"
    BY IdleRelies DEF Local, Locations
  <2>3. GoesOn(h, l)
    BY <1>1, <2>1, <2>2 DEF GoesOn
  <2>4. QED
    BY <1>1, <2>1, <2>2, <2>3 DEF Quiet
<1>4. QED
  BY <1>2, <1>3

\* The steps of applySealsAndArchive and appendNextTransition.
LEMMA PipelineGoesOn ==
    ASSUME DocketInv, NEW p \in Procs, PipelineStep(p)
    PROVE  Quiet
<1>1. /\ proc[p] \in Local /\ proc \in [Procs -> Local]
      /\ Msg(p) = proc[p].msg
      /\ proc[p].at # "idle" => Msg(p) \in Msgs
  BY ProcType DEF DocketInv, TypeOK, Relies, Msg
<1>2. \A x \in {"sealing", "sealFailed", "snapshot", "review", "authorize", "done", "append"} :
        x \in Locations \ {"idle", "enqueue"}
  BY DEF Locations
<1>3. CASE CreateSealChain(p)
  <2>1. PICK location \in {"sealing", "sealFailed"} :
            proc' = [proc EXCEPT ![p].sealNo = 0, ![p].at = location]
    BY <1>3, Zenon DEF CreateSealChain
  <2>2. proc[p].at # "enqueue" /\ UNCHANGED <<stored, docket>>
    BY <1>3 DEF CreateSealChain, At, archive
  <2> DEFINE l == [proc[p] EXCEPT !.sealNo = 0, !.at = location]
  <2>3. location \in Locations /\ location \notin {"idle", "enqueue"} /\ 0 \in 0..6
    BY <2>1 DEF Locations
  <2>4. l \in Local /\ l.at = location /\ l.msg = proc[p].msg
    BY <1>1, <2>3 DEF Local
  <2>5. proc' = [proc EXCEPT ![p] = l]
    BY <1>1, <2>1 DEF Local
  <2> HIDE DEF l
  <2>6. QED
    BY <2>2, <2>3, <2>4, <2>5, GoingOn DEF Quiet
<1>4. CASE AppendSeal(p)
  <2> DEFINE stage == proc[p].sealNo + 1
             x == IF ChainStored(stage) THEN "snapshot" ELSE "sealing"
             l == [proc[p] EXCEPT !.sealNo = stage, !.at = x]
  <2>1. /\ proc[p].at = "sealing" /\ UNCHANGED <<stored, docket>>
        /\ \/ proc' = [proc EXCEPT ![p].sealNo = stage, ![p].at = x]
           \/ Raise(p)
    BY <1>4, Zenon DEF AppendSeal, At
  <2>2. CASE proc' = [proc EXCEPT ![p].sealNo = stage, ![p].at = x]
    <3>1. proc[p].sealNo < 6
      BY <2>1, ProcType DEF Relies
    <3>2. stage \in 0..6 /\ x \in {"snapshot", "sealing"}
      BY <1>1, <3>1 DEF Local
    <3> HIDE DEF stage, x
    <3>3. l \in Local /\ l.at = x /\ l.msg = proc[p].msg
      BY <1>1, <1>2, <3>2 DEF Local
    <3>4. proc' = [proc EXCEPT ![p] = l]
      BY <1>1, <2>2 DEF Local
    <3> HIDE DEF l
    <3>5. QED
      BY <2>1, <3>2, <3>3, <3>4, GoingOn DEF Quiet
  <2>3. CASE Raise(p)
    BY <2>1, <2>3, RaiseGoesOn DEF Quiet
  <2>4. QED
    BY <2>1, <2>2, <2>3
<1>5. CASE SnapshotForArchive(p) \/ SnapshotForReject(p)
  <2>1. /\ proc[p].at \in {"snapshot", "sealFailed"} /\ UNCHANGED <<stored, docket>>
        /\ \/ Propose(p, State(Msg(p)), "authorized")
           \/ Propose(p, State(Msg(p)), "rejected")
    BY <1>5, Zenon DEF SnapshotForArchive, SnapshotForReject, At, archive
  <2>2. State(Msg(p)) \in MessageState
    BY <1>1, <2>1, StateType
  <2>3. QED
    BY <2>1, <2>2, ProposeGoesOn DEF Quiet, MessageState
<1>6. CASE CountTransitions(p)
  <2> DEFINE l == [proc[p] EXCEPT !.seqNo = NextSeq(log[Msg(p)]), !.at = "append"]
  <2>1. /\ proc[p].at = "count" /\ UNCHANGED <<stored, docket>>
        /\ proc' = [proc EXCEPT ![p].seqNo = NextSeq(log[Msg(p)]), ![p].at = "append"]
    BY <1>6 DEF CountTransitions, At, archive
  <2>2. NextSeq(log[Msg(p)]) \in Nat
    BY <1>1, <2>1, LastSeqOfLog DEF DocketInv, TypeOK, ContiguousLog
  <2>3. l \in Local /\ l.at = "append" /\ l.msg = proc[p].msg
    BY <1>1, <1>2, <2>2 DEF Local
  <2>4. proc' = [proc EXCEPT ![p] = l]
    BY <1>1, <2>1 DEF Local
  <2> HIDE DEF l
  <2>5. QED
    BY <2>1, <2>3, <2>4, GoingOn DEF Quiet
<1>7. CASE AppendTransition(p)
  <2>1. /\ proc[p].at = "append" /\ UNCHANGED <<stored, docket>>
        /\ AfterAppend(p) \/ Raise(p)
    BY <1>7, Zenon DEF AppendTransition, At
  <2>2. CASE AfterAppend(p)
    <3>1. \/ Goto(p, "review") \/ Goto(p, "authorize") \/ Goto(p, "done")
          \/ Propose(p, "authorized", "archived")
          \/ p # Worker /\ proc' = [proc EXCEPT ![p] = Idle]
      BY <2>2 DEF AfterAppend, Return
    <3>2. QED
      BY <1>2, <2>1, <3>1, GotoGoesOn, ProposeGoesOn, GoingIdle DEF Quiet, MessageState
  <2>3. CASE Raise(p)
    BY <2>1, <2>3, RaiseGoesOn DEF Quiet
  <2>4. QED
    BY <2>1, <2>2, <2>3
<1>8. QED
  BY <1>3, <1>4, <1>5, <1>6, <1>7 DEF PipelineStep

\* Every step is quiet, moves a message between archive, handler, docket and
\* worker, or is a failure.
LEMMA StepKinds ==
    ASSUME DocketInv, DecisionInv, [Next]_vars
    PROVE  \/ Quiet
           \/ \E h \in Handlers, m \in Msgs : AppendMessage(h, m)
           \/ \E h \in Handlers : EnqueueDocket(h)
           \/ DequeueDocket
           \/ \E p \in Procs : Fault(p)
           \/ Restart /\ UNCHANGED <<stored, docket>>
           \/ UNCHANGED vars
<1>1. ASSUME NEW h \in Handlers, Client(h), ~Quiet
      PROVE  \E m \in Msgs : AppendMessage(h, m)
  BY <1>1, HandlerGoesOn, Zenon DEF Client
<1>2. ASSUME NEW h \in Handlers, HandlerStep(h), ~Quiet
      PROVE  EnqueueDocket(h)
  BY <1>2, HandlerGoesOn DEF HandlerStep
<1>3. Crash \/ (\E p \in Procs : CrashInAppend(p)) => Restart /\ UNCHANGED <<stored, docket>>
  BY Zenon DEF Crash, CrashInAppend, archive
<1>4. WorkerStep => Quiet \/ DequeueDocket
  BY WorkerGoesOn
<1>5. \A p \in Procs : PipelineStep(p) => Quiet
  BY PipelineGoesOn
<1>6. QED
  BY <1>1, <1>2, <1>3, <1>4, <1>5, Zenon DEF Next

\* A handler that waits to queue its message has stored it, and no other
\* handler waits with the same message.
OneWaiter ==
    /\ \A h \in Handlers : At(h, "enqueue") => Msg(h) \in stored
    /\ \A h, g \in Handlers :
          At(h, "enqueue") /\ At(g, "enqueue") /\ Msg(h) = Msg(g) => h = g

\* No handler begins to wait.
LEMMA NoNewWaiter ==
    ASSUME OneWaiter, stored' = stored,
           \A h \in Handlers : proc'[h] = proc[h] \/ proc'[h].at # "enqueue"
    PROVE  OneWaiter' /\ Waiting' \in SUBSET Waiting
<1>1. \A h \in Handlers : At(h, "enqueue")' => At(h, "enqueue") /\ Msg(h)' = Msg(h)
  BY DEF At, Msg
<1>2. QED
  BY <1>1, Zenon DEF OneWaiter, Waiting

\* A failure only ends processes, or sends the worker to its catch block.
LEMMA FailureEnds ==
    ASSUME DocketInv, (\E p \in Procs : Fault(p)) \/ (Restart /\ UNCHANGED <<stored, docket>>)
    PROVE  /\ UNCHANGED <<stored, docket>>
           /\ <<faults, crashes>>' # <<faults, crashes>>
           /\ \A h \in Handlers : proc'[h] = proc[h] \/ proc'[h].at # "enqueue"
<1>1. /\ proc \in [Procs -> Local] /\ Handlers \subseteq Procs /\ Idle.at = "idle"
      /\ faults \in Nat /\ crashes \in Nat
  BY DEF DocketInv, TypeOK, Procs, Idle
<1>2. ASSUME NEW p \in Procs, Fault(p)
      PROVE  /\ UNCHANGED <<stored, docket>> /\ faults' = faults + 1
             /\ proc' = [proc EXCEPT ![p] = Idle] \/ Goto(p, "catch")
    BY <1>2, Zenon DEF Fault, Raise, archive
<1>3. ASSUME NEW p \in Procs, Fault(p), NEW h \in Handlers
      PROVE  proc'[h] = proc[h] \/ proc'[h].at # "enqueue"
  <2>1. CASE proc' = [proc EXCEPT ![p] = Idle]
    BY <1>1, <2>1
  <2>2. CASE Goto(p, "catch")
    BY <1>1, <2>2 DEF Goto, Local
  <2>3. QED
    BY <1>2, <1>3, <2>1, <2>2
<1>4. CASE Restart /\ UNCHANGED <<stored, docket>>
  <2>1. crashes' = crashes + 1 /\ \A h \in Handlers : proc'[h] = Idle
    BY <1>1, <1>4 DEF Restart
  <2>2. QED
    BY <1>1, <1>4, <2>1
<1>5. CASE \E p \in Procs : Fault(p)
  <2>1. PICK p \in Procs : Fault(p)
    BY <1>5
  <2>2. UNCHANGED <<stored, docket>> /\ faults' = faults + 1
    BY <1>2, <2>1
  <2>3. QED
    BY <1>1, <1>3, <2>1, <2>2
<1>6. QED
  BY <1>4, <1>5

\* A step of Docket is a step of Intake or leaves its variables alone.
LEMMA IntakeStep ==
    DocketInv /\ DecisionInv /\ OneWaiter /\ [Next]_vars
        => OneWaiter' /\ [Entry!Next]_(Entry!vars)
<1> SUFFICES ASSUME DocketInv, DecisionInv, OneWaiter, [Next]_vars
             PROVE  OneWaiter' /\ [Entry!Next]_(Entry!vars)
  OBVIOUS
<1>1. proc \in [Procs -> Local] /\ Handlers \subseteq Procs /\ Idle.at = "idle"
  BY DEF DocketInv, TypeOK, Procs, Idle
<1>2. CASE Quiet
  <2>1. PICK p \in Procs, l \in Local : GoesOn(p, l)
    BY <1>2, Zenon DEF Quiet
  <2>2. UNCHANGED <<stored, docket>>
    BY <1>2, Zenon DEF Quiet
  <2>3. \A h \in Handlers :
          \/ proc'[h] = proc[h]
          \/ proc[h].at # "enqueue" /\ proc'[h].at # "enqueue"
    BY <1>1, <2>1 DEF GoesOn
  <2>4. OneWaiter' /\ Waiting' \in SUBSET Waiting
    BY <2>2, <2>3, NoNewWaiter
  <2>5. Waiting \subseteq Waiting'
    BY <2>3 DEF Waiting, At, Msg
  <2>6. Waiting' = Waiting
    BY <2>4, <2>5
  <2>7. QED
    BY <2>2, <2>4, <2>6, Zenon DEF Entry!vars
<1>3. ASSUME NEW h \in Handlers, NEW m \in Msgs, AppendMessage(h, m)
      PROVE  OneWaiter' /\ Entry!Next
  <2> DEFINE l == [Idle EXCEPT !.at = "enqueue", !.msg = m]
  <2>1. /\ proc[h].at = "idle" /\ m \notin stored /\ stored' = stored \cup {m}
        /\ docket' = docket /\ proc' = [proc EXCEPT ![h] = l]
    BY <1>3, Zenon DEF AppendMessage, At
  <2>2. l.at = "enqueue" /\ l.msg = m
    BY DEF Idle
  <2> HIDE DEF l
  <2>3. /\ ~At(h, "enqueue")
        /\ At(h, "enqueue")' /\ Msg(h)' = m
        /\ \A g \in Handlers : g # h => (At(g, "enqueue")' <=> At(g, "enqueue"))
                                        /\ Msg(g)' = Msg(g)
    BY <1>1, <2>1, <2>2 DEF At, Msg
  <2>4. \A g \in Handlers : At(g, "enqueue") => Msg(g) # m
    BY <2>1 DEF OneWaiter
  <2>5. OneWaiter'
    BY <2>1, <2>3, <2>4, Zenon DEF OneWaiter
  <2>6. Waiting' = Waiting \cup {m}
    BY <2>3 DEF Waiting
  <2>7. Entry!Store(m)
    BY <2>1, <2>6 DEF Entry!Store
  <2>8. QED
    BY <2>5, <2>7 DEF Entry!Next
<1>4. ASSUME NEW h \in Handlers, EnqueueDocket(h)
      PROVE  OneWaiter' /\ Entry!Next
  <2>1. /\ At(h, "enqueue") /\ docket' = Append(docket, Msg(h)) /\ stored' = stored
        /\ proc' = [proc EXCEPT ![h] = Idle]
    BY <1>4, Zenon DEF EnqueueDocket
  <2>2. Msg(h) \in Msgs
    BY <1>1, <2>1, ProcType DEF At, Relies, Msg
  <2>3. /\ ~At(h, "enqueue")'
        /\ \A g \in Handlers : g # h => proc'[g] = proc[g]
    BY <1>1, <2>1 DEF At
  <2>4. OneWaiter'
    BY <2>1, <2>3, NoNewWaiter DEF At
  <2>5. \A g \in Handlers : g # h => (At(g, "enqueue")' <=> At(g, "enqueue"))
                                     /\ Msg(g)' = Msg(g)
    BY <2>3 DEF At, Msg
  <2>6. \A g \in Handlers : At(g, "enqueue") /\ Msg(g) = Msg(h) => g = h
    BY <2>1 DEF OneWaiter
  <2>7. Waiting' = Waiting \ {Msg(h)}
    BY <2>1, <2>3, <2>5, <2>6 DEF Waiting
  <2>8. Msg(h) \in Waiting
    BY <2>1 DEF Waiting
  <2>9. Entry!Put(Msg(h))
    BY <2>1, <2>7, <2>8 DEF Entry!Put
  <2>10. QED
    BY <2>2, <2>4, <2>9 DEF Entry!Next
<1>5. CASE DequeueDocket
  <2>1. /\ docket # <<>> /\ docket' = Tail(docket) /\ stored' = stored
        /\ \E l : proc' = [proc EXCEPT ![Worker] = l]
    BY <1>5, Zenon DEF DequeueDocket
  <2>2. \A h \in Handlers : proc'[h] = proc[h]
    BY <1>1, <2>1, DocketAssumption
  <2>3. OneWaiter'
    BY <2>1, <2>2, NoNewWaiter
  <2>4. Waiting' = Waiting
    BY <2>2 DEF Waiting, At, Msg
  <2>5. Entry!Take
    BY <2>1, <2>4 DEF Entry!Take
  <2>6. QED
    BY <2>3, <2>5 DEF Entry!Next
<1>6. CASE (\E p \in Procs : Fault(p)) \/ (Restart /\ UNCHANGED <<stored, docket>>)
  <2>1. /\ UNCHANGED <<stored, docket>>
        /\ \A h \in Handlers : proc'[h] = proc[h] \/ proc'[h].at # "enqueue"
    BY <1>6, FailureEnds
  <2>2. OneWaiter' /\ Entry!Drop
    BY <2>1, NoNewWaiter DEF Entry!Drop
  <2>3. QED
    BY <2>2 DEF Entry!Next
<1>7. CASE UNCHANGED vars
  <2>1. stored' = stored /\ docket' = docket /\ proc' = proc
    BY <1>7 DEF vars, archive
  <2>2. OneWaiter' /\ Waiting' = Waiting
    BY <2>1 DEF OneWaiter, Waiting, At, Msg
  <2>3. QED
    BY <2>1, <2>2 DEF Entry!vars
<1>8. QED
  BY <1>2, <1>3, <1>4, <1>5, <1>6, <1>7, StepKinds, Zenon

\* The docket of the running gateway is fed and emptied as Intake says: an id is
\* stored once, queued at most once after that and taken from the head, under
\* every interleaving of handlers and worker, exceptions and restarts.
THEOREM DocketImplementsIntake == Spec => DocketIsIntake
<1>1. Init => OneWaiter /\ Entry!Init
  <2> SUFFICES ASSUME Init PROVE OneWaiter /\ Entry!Init
    OBVIOUS
  <2>1. \A p \in Procs : proc[p].at = "idle"
    BY DEF Init, Idle
  <2>2. \A h \in Handlers : ~At(h, "enqueue")
    BY <2>1 DEF At, Procs
  <2>3. Waiting = {}
    BY <2>2 DEF Waiting
  <2>4. QED
    BY <2>2, <2>3 DEF OneWaiter, Entry!Init, Init
<1>2. QED
  BY <1>1, InitDecision, DocketInvariant, DecisionStep, IntakeStep, PTL DEF Spec, DocketIsIntake, Entry!Spec

\* What a step owes message m.
NotForgotten(m) ==
    /\ m \in stored' \ stored => Tracked(m)'
    /\ Tracked(m) =>
          \/ Tracked(m)'
          \/ InHand(m) /\ <<faults, crashes>>' # <<faults, crashes>>

\* A decided message stays decided; a queued one stays queued unless the worker
\* dequeues it.
LEMMA StaysTracked ==
    ASSUME RowsKept, NEW m \in Msgs
    PROVE  /\ DOMAIN log[m] # {} => Tracked(m)'
           /\ docket' = docket /\ Queued(m) => Tracked(m)'
BY DEF RowsKept, Tracked, Queued

\* Every kind of step keeps track of message m, or is a failure that finds it
\* in hand.
LEMMA TrackStep ==
    ASSUME DocketInv, DecisionInv, [Next]_vars, NEW m \in Msgs
    PROVE  NotForgotten(m)
<1>1. RowsKept
  BY NextKeepsRows DEF RowsKept
<1>2. /\ proc \in [Procs -> Local] /\ Handlers \subseteq Procs /\ Worker \in Procs
      /\ Worker \notin Handlers /\ docket \in Seq(Msgs) /\ Idle.at = "idle"
  BY DocketAssumption DEF DocketInv, TypeOK, Procs, Idle
<1>3. CASE Quiet
  <2>1. PICK p \in Procs, l \in Local : GoesOn(p, l)
    BY <1>3, Zenon DEF Quiet
  <2>2. stored' = stored /\ docket' = docket
    BY <1>3, Zenon DEF Quiet
  <2>3. ASSUME NEW h \in Handlers, At(h, "enqueue"), Msg(h) = m
        PROVE  InHand(m)'
    <3>1. proc'[h] = proc[h]
      BY <1>2, <2>1, <2>3 DEF GoesOn, At
    <3>2. QED
      BY <2>3, <3>1 DEF InHand, At, Msg
  <2>4. ASSUME ~At(Worker, "idle"), Msg(Worker) = m
        PROVE  InHand(m)' \/ DOMAIN log[m] # {}
    <3>1. CASE p # Worker
      <4>1. proc'[Worker] = proc[Worker]
        BY <1>2, <2>1, <3>1 DEF GoesOn
      <4>2. QED
        BY <2>4, <4>1 DEF InHand, At, Msg
    <3>2. CASE p = Worker
      <4>1. proc'[Worker] = l
        BY <1>2, <2>1, <3>2 DEF GoesOn
      <4>2. (l.at # "idle" /\ l.msg = m) \/ DOMAIN log[m] # {}
        BY <2>1, <2>4, <3>2 DEF GoesOn, Msg
      <4>3. QED
        BY <4>1, <4>2 DEF InHand, At, Msg
    <3>3. QED
      BY <3>1, <3>2
  <2>5. InHand(m) => InHand(m)' \/ DOMAIN log[m] # {}
    BY <2>3, <2>4, Zenon DEF InHand
  <2>6. QED
    BY <1>1, <2>2, <2>5, StaysTracked, Zenon DEF NotForgotten, Tracked
<1>4. ASSUME NEW h \in Handlers, NEW x \in Msgs, AppendMessage(h, x)
      PROVE  NotForgotten(m)
  <2> DEFINE l == [Idle EXCEPT !.at = "enqueue", !.msg = x]
  <2>1. /\ proc[h].at = "idle" /\ stored' = stored \cup {x}
        /\ docket' = docket /\ proc' = [proc EXCEPT ![h] = l]
    BY <1>4, Zenon DEF AppendMessage, At
  <2>2. l.at = "enqueue" /\ l.msg = x
    BY DEF Idle
  <2> HIDE DEF l
  <2>3. /\ proc'[h] = l /\ proc'[Worker] = proc[Worker]
        /\ \A g \in Handlers : At(g, "enqueue") => proc'[g] = proc[g]
    BY <1>2, <2>1 DEF At
  <2>4. m \in stored' \ stored => InHand(m)'
    BY <2>1, <2>2, <2>3 DEF InHand, At, Msg
  <2>5. InHand(m) => InHand(m)'
    BY <2>3 DEF InHand, At, Msg
  <2>6. QED
    BY <1>1, <2>1, <2>4, <2>5, StaysTracked, Zenon DEF NotForgotten, Tracked
<1>5. ASSUME NEW h \in Handlers, EnqueueDocket(h)
      PROVE  NotForgotten(m)
  <2>1. /\ At(h, "enqueue") /\ docket' = Append(docket, Msg(h)) /\ stored' = stored
        /\ proc' = [proc EXCEPT ![h] = Idle]
    BY <1>5, Zenon DEF EnqueueDocket
  <2>2. Msg(h) \in Msgs
    BY <1>2, <2>1, ProcType DEF At, Relies, Msg
  <2>3. \A q \in Procs : q # h => proc'[q] = proc[q]
    BY <1>2, <2>1
  <2>4. /\ Len(docket) + 1 \in DOMAIN docket' /\ docket'[Len(docket) + 1] = Msg(h)
        /\ \A i \in DOMAIN docket : i \in DOMAIN docket' /\ docket'[i] = docket[i]
    BY <1>2, <2>1, <2>2
  <2>5. Queued(m) => Queued(m)'
    BY <2>4 DEF Queued
  <2>6. ASSUME NEW g \in Handlers, At(g, "enqueue"), Msg(g) = m
        PROVE  Tracked(m)'
    <3>1. CASE g = h
      BY <2>4, <2>6, <3>1 DEF Tracked, Queued
    <3>2. CASE g # h
      BY <1>2, <2>3, <2>6, <3>2 DEF Tracked, InHand, At, Msg
    <3>3. QED
      BY <3>1, <3>2
  <2>7. ~At(Worker, "idle") /\ Msg(Worker) = m => Tracked(m)'
    BY <1>2, <2>3 DEF Tracked, InHand, At, Msg
  <2>8. InHand(m) => Tracked(m)'
    BY <2>6, <2>7, Zenon DEF InHand
  <2>9. Tracked(m) => Tracked(m)'
    BY <1>1, <2>5, <2>8, StaysTracked, Zenon DEF Tracked
  <2>10. QED
    BY <2>1, <2>9 DEF NotForgotten
<1>6. CASE DequeueDocket
  <2> DEFINE l == [Idle EXCEPT !.at = "route", !.msg = Head(docket)]
  <2>1. /\ At(Worker, "idle") /\ docket # <<>> /\ docket' = Tail(docket)
        /\ stored' = stored /\ proc' = [proc EXCEPT ![Worker] = l]
    BY <1>6, Zenon DEF DequeueDocket
  <2>2. l.at = "route" /\ l.msg = Head(docket)
    BY DEF Idle
  <2> HIDE DEF l
  <2>3. proc'[Worker] = l /\ \A h \in Handlers : proc'[h] = proc[h]
    BY <1>2, <2>1
  <2>4. InHand(m) => InHand(m)'
    BY <2>1, <2>3 DEF InHand, At, Msg
  <2>5. Head(docket) = m => InHand(m)'
    BY <2>2, <2>3 DEF InHand, At, Msg
  <2>6. ASSUME NEW i \in DOMAIN docket, docket[i] = m, Head(docket) # m
        PROVE  Queued(m)'
    <3>1. i \in Nat /\ i # 1 /\ i \in 1..Len(docket)
      BY <1>2, <2>1, <2>6
    <3>2. i - 1 \in DOMAIN docket' /\ docket'[i - 1] = m
      BY <1>2, <2>1, <2>6, <3>1
    <3>3. QED
      BY <3>2 DEF Queued
  <2>7. Queued(m) => Tracked(m)'
    BY <2>5, <2>6, Zenon DEF Queued, Tracked
  <2>8. QED
    BY <1>1, <2>1, <2>4, <2>7, StaysTracked, Zenon DEF NotForgotten, Tracked
<1>7. CASE (\E p \in Procs : Fault(p)) \/ (Restart /\ UNCHANGED <<stored, docket>>)
  <2>1. /\ stored' = stored /\ docket' = docket
        /\ <<faults, crashes>>' # <<faults, crashes>>
    BY <1>7, FailureEnds
  <2>2. QED
    BY <1>1, <2>1, StaysTracked, Zenon DEF NotForgotten, Tracked
<1>8. CASE UNCHANGED vars
  <2>1. stored' = stored /\ docket' = docket /\ proc' = proc
    BY <1>8 DEF vars, archive
  <2>2. InHand(m) => InHand(m)'
    BY <2>1 DEF InHand, At, Msg
  <2>3. QED
    BY <1>1, <2>1, <2>2, StaysTracked, Zenon DEF NotForgotten, Tracked
<1>9. QED
  BY <1>3, <1>4, <1>5, <1>6, <1>7, <1>8, StepKinds, Zenon

\* A stored message is on the docket, in hand or decided until a call throws or
\* the process restarts while it is in hand; no interleaving of handlers and
\* worker, and no race for a transition, forgets one.
THEOREM NothingForgotten == Spec => OnlyFailuresForget
<1> DEFINE Kept == \A m \in Msgs :
                      /\ m \in stored' \ stored => Tracked(m)'
                      /\ Tracked(m) =>
                            \/ Tracked(m)'
                            \/ InHand(m) /\ <<faults, crashes>>' # <<faults, crashes>>
<1>1. DocketInv /\ DecisionInv /\ [Next]_vars => [Kept]_vars
  BY TrackStep DEF NotForgotten
<1>2. QED
  BY <1>1, InitDecision, DocketInvariant, DecisionStep, PTL DEF Spec, OnlyFailuresForget
==============================================================================
