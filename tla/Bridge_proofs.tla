---------------------------- MODULE Bridge_proofs ----------------------------
(***************************************************************************)
(* Proof that the bridge loses no document it could fetch and that rows    *)
(* leave its queue only published, for any documents, adapters, number of  *)
(* overlapping runs, batch size and breaker.                               *)
(***************************************************************************)
EXTENDS Bridge, SequenceTheorems, TLAPS

-----------------------------------------------------------------------------
(* The queue's operations.                                                 *)

\* A row is put at the end.
LEMMA AppendRow ==
    ASSUME NEW q \in Seq(Row), NEW r \in Row
    PROVE  /\ Append(q, r) \in Seq(Row)
           /\ Rows(Append(q, r)) = Rows(q) \cup {r}
           /\ Distinct(q) /\ (\A x \in Rows(q) : x.id # r.id) => Distinct(Append(q, r))
<1>1. /\ Append(q, r) \in Seq(Row) /\ DOMAIN q = 1..Len(q) /\ Len(q) \in Nat
      /\ DOMAIN Append(q, r) = 1..(Len(q) + 1)
      /\ \A i \in 1..Len(q) : Append(q, r)[i] = q[i]
      /\ Append(q, r)[Len(q) + 1] = r
  OBVIOUS
<1>2. \A i \in DOMAIN Append(q, r) : i \in DOMAIN q \/ i = Len(q) + 1
  BY <1>1
<1> DEFINE z == Append(q, r)
<1>3. DOMAIN q \subseteq DOMAIN z /\ Len(q) + 1 \in DOMAIN z
  BY <1>1
<1>4. (\A i \in DOMAIN q : z[i] = q[i]) /\ z[Len(q) + 1] = r
  BY <1>1
<1>5. z \in Seq(Row)
  BY <1>1
<1>6. \A i \in DOMAIN z : i \in DOMAIN q \/ i = Len(q) + 1
  BY <1>2
<1> HIDE DEF z
<1>7. Rows(z) = Rows(q) \cup {r}
  BY <1>3, <1>4, <1>6 DEF Rows
<1>8. ASSUME Distinct(q), \A x \in Rows(q) : x.id # r.id
      PROVE  Distinct(z)
  BY <1>4, <1>6, <1>8 DEF Distinct, Rows
<1>9. QED
  BY <1>5, <1>7, <1>8 DEF z

\* A row is taken out.
LEMMA WithoutRow ==
    ASSUME NEW q \in Seq(Row), NEW i \in DOMAIN q
    PROVE  /\ Without(q, i) \in Seq(Row)
           /\ Len(Without(q, i)) = Len(q) - 1
           /\ \A j \in 1..(Len(q) - 1) :
                Without(q, i)[j] = IF j < i THEN q[j] ELSE q[j + 1]
<1>1. DOMAIN q = 1..Len(q) /\ Len(q) \in Nat /\ i \in 1..Len(q)
  OBVIOUS
<1> DEFINE a == SubSeq(q, 1, i - 1)
           b == SubSeq(q, i + 1, Len(q))
<1>2. \A j \in 1..Len(q) : q[j] \in Row
  OBVIOUS
<1>3. a \in Seq(Row) /\ Len(a) = i - 1 /\ \A j \in 1..(i - 1) : a[j] = q[j]
  BY <1>1, <1>2, SubSeqProperties
<1>4. b \in Seq(Row) /\ Len(b) = Len(q) - i /\ \A j \in 1..(Len(q) - i) : b[j] = q[i + j]
  BY <1>1, <1>2, SubSeqProperties
<1> HIDE DEF a, b
<1>5. /\ a \o b \in Seq(Row) /\ Len(a \o b) = Len(a) + Len(b)
      /\ \A j \in 1..(Len(a) + Len(b)) : (a \o b)[j] = IF j <= Len(a) THEN a[j] ELSE b[j - Len(a)]
  BY <1>3, <1>4, ConcatProperties
<1>7. Without(q, i) = a \o b
  BY DEF Without, a, b
<1> DEFINE c == a \o b
<1>8. /\ c \in Seq(Row) /\ Len(c) = Len(q) - 1
      /\ \A j \in 1..(Len(q) - 1) : c[j] = IF j <= i - 1 THEN a[j] ELSE b[j - (i - 1)]
  <2>1. Len(a) + Len(b) = Len(q) - 1 /\ Len(a) = i - 1
    BY <1>1, <1>3, <1>4
  <2>2. QED
    BY <1>5, <2>1
<1> HIDE DEF c
<1>6. ASSUME NEW j \in 1..(Len(q) - 1)
      PROVE  c[j] = IF j < i THEN q[j] ELSE q[j + 1]
  <2>1. CASE j < i
    <3>1. c[j] = a[j] /\ j \in 1..(i - 1)
      BY <1>1, <1>8, <2>1
    <3>2. QED
      BY <1>3, <2>1, <3>1
  <2>2. CASE ~(j < i)
    <3>1. j - (i - 1) \in 1..(Len(q) - i) /\ i + (j - (i - 1)) = j + 1 /\ ~(j <= i - 1)
      BY <1>1, <2>2
    <3>2. c[j] = b[j - (i - 1)]
      BY <1>8, <3>1
    <3>3. b[j - (i - 1)] = q[i + (j - (i - 1))]
      BY <1>4, <3>1
    <3>4. QED
      BY <2>2, <3>1, <3>2, <3>3
  <2>3. QED
    BY <2>1, <2>2
<1>9. QED
  BY <1>6, <1>7, <1>8 DEF c

\* What is left after a row is taken out of a queue with distinct ids.
LEMMA RemoveRow ==
    ASSUME NEW q \in Seq(Row), Distinct(q), NEW i \in DOMAIN q
    PROVE  /\ Without(q, i) \in Seq(Row) /\ Distinct(Without(q, i))
           /\ Rows(Without(q, i)) = {r \in Rows(q) : r.id # q[i].id}
<1> DEFINE w == Without(q, i)
<1>1. /\ w \in Seq(Row) /\ Len(q) \in Nat /\ DOMAIN q = 1..Len(q) /\ i \in 1..Len(q)
      /\ DOMAIN w = 1..(Len(q) - 1)
      /\ \A j \in 1..(Len(q) - 1) : w[j] = IF j < i THEN q[j] ELSE q[j + 1]
  BY WithoutRow
<1> HIDE DEF w
<1>2. \A j \in DOMAIN w : \E k \in DOMAIN q : k # i /\ w[j] = q[k] /\ k = IF j < i THEN j ELSE j + 1
  BY <1>1
<1>3. \A k \in DOMAIN q : k # i => \E j \in DOMAIN w : w[j] = q[k]
  <2> TAKE k \in DOMAIN q
  <2> HAVE k # i
  <2>1. CASE k < i
    <3>1. k \in DOMAIN w /\ w[k] = q[k]
      BY <1>1, <2>1
    <3>2. QED
      BY <3>1
  <2>2. CASE k > i
    <3>1. k - 1 \in DOMAIN w /\ w[k - 1] = q[k]
      BY <1>1, <2>2
    <3>2. QED
      BY <3>1
  <2>3. QED
    BY <1>1, <2>1, <2>2
<1>4. Distinct(w)
  <2> SUFFICES ASSUME NEW j \in DOMAIN w, NEW h \in DOMAIN w, w[j].id = w[h].id
               PROVE  j = h
    BY DEF Distinct
  <2>1. PICK k \in DOMAIN q : w[j] = q[k] /\ k = IF j < i THEN j ELSE j + 1
    BY <1>2
  <2>2. PICK m \in DOMAIN q : w[h] = q[m] /\ m = IF h < i THEN h ELSE h + 1
    BY <1>2
  <2>3. k = m
    BY <2>1, <2>2 DEF Distinct
  <2>4. QED
    BY <1>1, <2>1, <2>2, <2>3
<1>5. \A k \in DOMAIN q : q[k].id = q[i].id <=> k = i
  BY DEF Distinct
<1>6. Rows(w) = {r \in Rows(q) : r.id # q[i].id}
  BY <1>2, <1>3, <1>5 DEF Rows
<1>7. QED
  BY <1>1, <1>4, <1>6 DEF w

\* A row is put in at any place.
LEMMA InsertRowAt ==
    ASSUME NEW w \in Seq(Row), Distinct(w), NEW r \in Row,
           \A x \in Rows(w) : x.id # r.id, NEW k \in 0..Len(w)
    PROVE  LET z == SubSeq(w, 1, k) \o <<r>> \o SubSeq(w, k + 1, Len(w)) IN
           z \in Seq(Row) /\ Distinct(z) /\ Rows(z) = Rows(w) \cup {r}
<1> DEFINE a == SubSeq(w, 1, k)
           b == SubSeq(w, k + 1, Len(w))
           ar == a \o <<r>>
           z == ar \o b
<1>1. Len(w) \in Nat /\ DOMAIN w = 1..Len(w) /\ k \in Nat /\ k <= Len(w)
  OBVIOUS
<1>2. \A j \in 1..Len(w) : w[j] \in Row
  OBVIOUS
<1>3. a \in Seq(Row) /\ Len(a) = k /\ \A j \in 1..k : a[j] = w[j]
  BY <1>1, <1>2, SubSeqProperties
<1>4. b \in Seq(Row) /\ Len(b) = Len(w) - k /\ \A j \in 1..(Len(w) - k) : b[j] = w[k + j]
  <2>1. k + 1 \in 1..(Len(w) + 1) /\ Len(w) \in (k + 1) - 1..Len(w)
    BY <1>1
  <2>2. b \in Seq(Row)
    BY <1>1, <1>2, <2>1, SubSeqProperties
  <2>3. Len(b) = Len(w) - k
    <3>1. Len(b) = IF k + 1 <= Len(w) THEN Len(w) - (k + 1) + 1 ELSE 0
      BY <1>1, <1>2, SubSeqProperties
    <3> HIDE DEF b
    <3>2. CASE k + 1 <= Len(w)
      BY <1>1, <3>1, <3>2
    <3>3. CASE k = Len(w)
      <4>1. \A n \in Nat : ~(n + 1 <= n) /\ n - n = 0
        OBVIOUS
      <4>2. ~(Len(w) + 1 <= Len(w)) /\ Len(w) - Len(w) = 0
        BY <1>1, <4>1
      <4>3. QED
        BY <3>1, <3>3, <4>2
    <3>4. k + 1 <= Len(w) \/ k = Len(w)
      <4>1. \A m, n \in Nat : m <= n => m + 1 <= n \/ m = n
        OBVIOUS
      <4>2. QED
        BY <1>1, <4>1, Zenon
    <3>5. QED
      BY <3>2, <3>3, <3>4
  <2>4. \A j \in 1..(Len(w) - k) : b[j] = w[k + j]
    BY <1>1, <2>1, SubSeqProperties
  <2>5. QED
    BY <2>2, <2>3, <2>4
<1> HIDE DEF a, b
<1>5. <<r>> \in Seq(Row) /\ Len(<<r>>) = 1 /\ <<r>>[1] = r
  OBVIOUS
<1>6. /\ ar \in Seq(Row) /\ Len(ar) = Len(a) + Len(<<r>>)
      /\ \A j \in 1..(Len(a) + Len(<<r>>)) : ar[j] = IF j <= Len(a) THEN a[j] ELSE <<r>>[j - Len(a)]
  BY <1>3, <1>5, ConcatProperties
<1>7. Len(ar) = k + 1 /\ ar[k + 1] = r /\ \A j \in 1..k : ar[j] = w[j]
  BY <1>1, <1>3, <1>5, <1>6
<1> HIDE DEF ar
<1>8. /\ z \in Seq(Row) /\ Len(z) = Len(ar) + Len(b)
      /\ \A j \in 1..(Len(ar) + Len(b)) : z[j] = IF j <= Len(ar) THEN ar[j] ELSE b[j - Len(ar)]
  <2>1. ar \in Seq(Row) /\ b \in Seq(Row)
    BY <1>4, <1>6
  <2>2. QED
    BY <2>1, ConcatProperties
<1>9. /\ DOMAIN z = 1..(Len(w) + 1) /\ z[k + 1] = r
      /\ \A j \in 1..k : z[j] = w[j]
      /\ \A j \in (k + 2)..(Len(w) + 1) : z[j] = w[j - 1]
  <2> HIDE DEF z
  <2>1. /\ Len(z) = Len(w) + 1
        /\ \A j \in 1..(Len(w) + 1) : z[j] = IF j <= k + 1 THEN ar[j] ELSE b[j - (k + 1)]
    BY <1>1, <1>4, <1>7, <1>8
  <2>2. DOMAIN z = 1..(Len(w) + 1)
    BY <1>8, <2>1
  <2>3. z[k + 1] = r
    BY <1>1, <1>7, <2>1
  <2>4. \A j \in 1..k : z[j] = w[j]
    BY <1>1, <1>7, <2>1
  <2>5. ASSUME NEW j \in (k + 2)..(Len(w) + 1)
        PROVE  z[j] = w[j - 1]
    <3>1. j - (k + 1) \in 1..(Len(w) - k) /\ k + (j - (k + 1)) = j - 1 /\ ~(j <= k + 1)
             /\ j \in 1..(Len(w) + 1)
      BY <1>1
    <3>2. z[j] = b[j - (k + 1)]
      BY <2>1, <3>1
    <3>3. b[j - (k + 1)] = w[k + (j - (k + 1))]
      BY <1>4, <3>1
    <3>4. QED
      BY <3>1, <3>2, <3>3
  <2>6. QED
    BY <2>2, <2>3, <2>4, <2>5
<1>z. z \in Seq(Row)
  BY <1>8
<1> HIDE DEF z
<1>10. \A j \in DOMAIN z : j = k + 1 \/ (j # k + 1 /\ \E h \in DOMAIN w : z[j] = w[h]
                                                     /\ h = IF j <= k THEN j ELSE j - 1)
  BY <1>1, <1>9
<1>11. \A h \in DOMAIN w : \E j \in DOMAIN z : z[j] = w[h]
  <2> TAKE h \in DOMAIN w
  <2>1. CASE h <= k
    <3>1. h \in DOMAIN z /\ z[h] = w[h]
      BY <1>1, <1>9, <2>1
    <3>2. QED
      BY <3>1
  <2>2. CASE h > k
    <3>1. h + 1 \in DOMAIN z /\ z[h + 1] = w[h]
      BY <1>1, <1>9, <2>2
    <3>2. QED
      BY <3>1
  <2>3. QED
    BY <1>1, <2>1, <2>2
<1>12. k + 1 \in DOMAIN z
  BY <1>1, <1>9
<1>13. Rows(z) = Rows(w) \cup {r}
  <2>1. ASSUME NEW j \in DOMAIN z PROVE z[j] = r \/ \E h \in DOMAIN w : z[j] = w[h]
    BY <1>9, <1>10
  <2>2. \E j \in DOMAIN z : z[j] = r
    BY <1>9, <1>12
  <2>3. QED
    BY <1>11, <2>1, <2>2 DEF Rows
<1>14. Distinct(z)
  <2> SUFFICES ASSUME NEW i \in DOMAIN z, NEW j \in DOMAIN z, z[i].id = z[j].id
               PROVE  i = j
    BY DEF Distinct
  <2>1. \A h \in DOMAIN w : w[h].id # r.id
    BY DEF Rows
  <2>2. CASE i = k + 1 \/ j = k + 1
    BY <1>9, <1>10, <2>1, <2>2
  <2>3. CASE i # k + 1 /\ j # k + 1
    <3>1. PICK h \in DOMAIN w : z[i] = w[h] /\ h = IF i <= k THEN i ELSE i - 1
      BY <1>10, <2>3
    <3>2. PICK m \in DOMAIN w : z[j] = w[m] /\ m = IF j <= k THEN j ELSE j - 1
      BY <1>10, <2>3
    <3>3. h = m
      BY <3>1, <3>2 DEF Distinct
    <3>4. QED
      BY <1>1, <1>9, <2>3, <3>1, <3>2, <3>3
  <2>4. QED
    BY <2>2, <2>3
<1>15. QED
  BY <1>z, <1>13, <1>14 DEF z, ar, a, b

\* Marking a row 'failed' keeps the rows and their ids.
LEMMA MarkFailedKeeps ==
    ASSUME queue \in Seq(Row), Distinct(queue), NEW id, MarkFailed(id)
    PROVE  queue' \in Seq(Row) /\ Distinct(queue') /\ Rows(queue') = Rows(queue)
<1>1. CASE queue' = queue
  BY <1>1
<1>2. CASE \E i \in DOMAIN queue :
        /\ queue[i].id = id
        /\ \E k \in 0..Len(Without(queue, i)) :
             queue' = SubSeq(Without(queue, i), 1, k) \o <<queue[i]>>
                        \o SubSeq(Without(queue, i), k + 1, Len(Without(queue, i)))
  <2>1. PICK i \in DOMAIN queue :
          /\ queue[i].id = id
          /\ \E k \in 0..Len(Without(queue, i)) :
               queue' = SubSeq(Without(queue, i), 1, k) \o <<queue[i]>>
                          \o SubSeq(Without(queue, i), k + 1, Len(Without(queue, i)))
    BY <1>2
  <2> DEFINE rest == Without(queue, i)
  <2>2. PICK k \in 0..Len(rest) :
          queue' = SubSeq(rest, 1, k) \o <<queue[i]>> \o SubSeq(rest, k + 1, Len(rest))
    BY <2>1
  <2>3. rest \in Seq(Row) /\ Distinct(rest) /\ Rows(rest) = {r \in Rows(queue) : r.id # queue[i].id}
    BY RemoveRow
  <2>4. queue[i] \in Row /\ queue[i] \in Rows(queue)
    BY DEF Rows
  <2> HIDE DEF rest
  <2>5. queue' \in Seq(Row) /\ Distinct(queue') /\ Rows(queue') = Rows(rest) \cup {queue[i]}
    BY <2>2, <2>3, <2>4, InsertRowAt
  <2>6. \A r \in Rows(queue) : r.id = queue[i].id => r = queue[i]
    BY DEF Distinct, Rows
  <2>7. QED
    BY <2>3, <2>4, <2>5, <2>6
<1>3. QED
  BY <1>1, <1>2 DEF MarkFailed

\* Marking a row 'sent' removes that row and no other.
LEMMA MarkSentRemoves ==
    ASSUME queue \in Seq(Row), Distinct(queue), NEW id, MarkSent(id)
    PROVE  /\ queue' \in Seq(Row) /\ Distinct(queue')
           /\ Rows(queue') = {r \in Rows(queue) : r.id # id}
<1>1. CASE (\A r \in Rows(queue) : r.id # id) /\ queue' = queue
  BY <1>1
<1>2. CASE \E i \in DOMAIN queue : queue[i].id = id /\ queue' = Without(queue, i)
  BY <1>2, RemoveRow
<1>3. QED
  BY <1>1, <1>2 DEF MarkSent

\* The stamps name ids, whichever way a row is marked.
LEMMA StampsOK ==
    ASSUME instant \in SUBSET Nat, NEW id \in Nat, MarkFailed(id) \/ MarkSent(id) \/ Stamp(id)
    PROVE  instant' \in SUBSET Nat
<1>1. CASE Stamp(id)
  BY <1>1 DEF Stamp
<1>2. CASE instant' = instant \/ instant' = instant \ {id}
  BY <1>2
<1>3. Stamp(id) \/ instant' = instant \/ instant' = instant \ {id}
  BY DEF MarkFailed, MarkSent
<1>4. QED
  BY <1>1, <1>2, <1>3

-----------------------------------------------------------------------------
(* What a run relies on survives the steps of the others.                  *)

\* Publications stay, and a row stays until it is published.
Keeps(q, pub, q2, pub2) ==
    /\ pub \subseteq pub2
    /\ \A r \in Rows(q) : r \in Rows(q2) \/ <<r.adapter, r.msg>> \in pub2

LEMMA ReachedStays ==
    ASSUME NEW q, NEW pub, NEW q2, NEW pub2, Keeps(q, pub, q2, pub2), NEW a, NEW m,
           Reached(q, pub, a, m)
    PROVE  Reached(q2, pub2, a, m)
<1>1. CASE <<a, m>> \in pub
  BY <1>1 DEF Keeps, Reached
<1>2. CASE \E r \in Rows(q) : r.adapter = a /\ r.msg = m
  <2>1. PICK r \in Rows(q) : r.adapter = a /\ r.msg = m
    BY <1>2
  <2>2. r \in Rows(q2) \/ <<r.adapter, r.msg>> \in pub2
    BY DEF Keeps
  <2>3. QED
    BY <2>1, <2>2 DEF Reached
<1>3. QED
  BY <1>1, <1>2 DEF Reached

LEMMA DeliveredStays ==
    ASSUME NEW q, NEW pub, NEW q2, NEW pub2, Keeps(q, pub, q2, pub2), NEW e,
           Delivered(q, pub, e)
    PROVE  Delivered(q2, pub2, e)
BY ReachedStays DEF Delivered

LEMMA ReliesStays ==
    ASSUME NEW q, NEW pub, NEW q2, NEW pub2, Keeps(q, pub, q2, pub2),
           NEW ev, NEW ev2, ev2 \subseteq ev, NEW l, Relies(l, ev, q, pub)
    PROVE  Relies(l, ev2, q2, pub2)
<1>1. l.at = "replay" => \A f \in ev2 : f.at < l.since => Delivered(q2, pub2, f)
  BY DeliveredStays DEF Relies
<1>2. \A e \in l.events : \A f \in ev2 \ l.events : f.no < e.no => Delivered(q2, pub2, f)
  BY DeliveredStays DEF Relies
<1>3. l.at = "enqueue" =>
        \A e \in l.events : (\A f \in l.events : e.no <= f.no) =>
            \A a \in Matches[e.msg] \ l.targets : Reached(q2, pub2, a, e.msg)
  BY ReachedStays DEF Relies
<1>4. l.at \in {"publish", "sent", "failed"} => l.items # <<>>
  BY DEF Relies
<1>5. l.at = "sent" => <<Head(l.items).adapter, Head(l.items).msg>> \in pub2
  BY DEF Relies, Keeps
<1>6. QED
  BY <1>1, <1>2, <1>3, <1>4, <1>5 DEF Relies

\* A run without events at hand that holds no item relies on nothing.
LEMMA ReliesOnNothing ==
    ASSUME NEW l, l.events = {}, l.at \in {"idle", "dequeue", "items"}, NEW ev, NEW q, NEW pub
    PROVE  Relies(l, ev, q, pub)
BY DEF Relies

-----------------------------------------------------------------------------
(* The frame of a run's step.                                              *)

BreakersOK(b) ==
    /\ b \in [Adapters -> [outcomes: Seq(BOOLEAN), paused: Nat]]
    /\ \A a \in Adapters : Len(b[a].outcomes) <= Window

\* The type of what the invariant says nothing else about.
SideOK ==
    /\ synced \in SUBSET (Adapters \X Msgs)
    /\ dead \in SUBSET (Adapters \X Msgs)
    /\ BreakersOK(breaker) /\ instant \in SUBSET Nat
    /\ captures \in Nat /\ faults \in Nat

\* The queue after a step: the rows it had, or new ones with new ids.
QueueStep ==
    /\ queue' \in Seq(Row) /\ Distinct(queue')
    /\ nextId' \in Nat /\ nextId <= nextId'
    /\ \A r \in Rows(queue') : r \in Rows(queue) \/ (nextId <= r.id /\ r.id < nextId')
    /\ published' \in SUBSET (Adapters \X Msgs) /\ published \subseteq published'
    /\ RowsLeavePublished

LEMMA QueueKept ==
    ASSUME BridgeInv, queue' = queue, nextId' = nextId, published' = published
    PROVE  QueueStep
<1>1. queue \in Seq(Row) /\ nextId \in Nat /\ published \in SUBSET (Adapters \X Msgs) /\ Distinct(queue)
  BY DEF BridgeInv, TypeOK, UniqueIds
<1>2. nextId <= nextId
  BY <1>1
<1>3. RowsLeavePublished
  BY DEF RowsLeavePublished
<1>4. QED
  BY <1>1, <1>2, <1>3 DEF QueueStep

\* A step of run s that leaves it with the locals l.
LEMMA RunStep ==
    ASSUME BridgeInv, NEW s \in Syncs, NEW l \in Local, sync' = [sync EXCEPT ![s] = l],
           UNCHANGED gateway, cursor' \in Nat, cursor' <= clock,
           skipped' \in SUBSET Event, skipped \subseteq skipped',
           SideOK', QueueStep,
           l.since <= clock, l.events \subseteq Known,
           \A i \in Rows(l.items) : i \in Rows(sync[s].items) \/ i \in Rows(queue),
           cursor' # cursor => NoDocumentLost',
           Relies(l, stream \ skipped', queue', published')
    PROVE  BridgeInv' /\ RowsLeavePublished
<1>1. /\ TypeOK /\ Timeline /\ UniqueIds /\ NoDocumentLost
      /\ \A t \in Syncs : Relies(sync[t], stream \ skipped, queue, published)
  BY DEF BridgeInv
<1>2. clock' = clock /\ emitted' = emitted /\ stream' = stream /\ expired' = expired
  BY DEF gateway
<1>3. sync \in [Syncs -> Local]
  BY <1>1 DEF TypeOK
<1>4. sync' \in [Syncs -> Local] /\ sync'[s] = l /\ \A t \in Syncs : t # s => sync'[t] = sync[t]
  BY <1>3
<1>5. Keeps(queue, published, queue', published')
  BY DEF Keeps, QueueStep, RowsLeavePublished
<1>6. TypeOK'
  BY <1>1, <1>2, <1>4 DEF TypeOK, SideOK, QueueStep, BreakersOK
<1>7. Known' \subseteq Known
  BY <1>2, <1>4 DEF Known
<1>8. Timeline'
  <2>1. \A t \in Syncs : sync'[t].since <= clock'
    BY <1>1, <1>2, <1>4 DEF Timeline
  <2>2. QED
    BY <1>1, <1>2, <1>7, <2>1 DEF Timeline
<1>9. UniqueIds'
  <2>1. nextId \in Nat /\ \A r \in Rows(queue) : r.id < nextId
    BY <1>1 DEF TypeOK, UniqueIds
  <2>2. \A r \in Rows(queue') : r \in Row
    BY ElementOfSeq DEF QueueStep, Rows
  <2>3. \A r \in Rows(queue') : r.id < nextId'
    <3>1. TAKE r \in Rows(queue')
    <3>2. r.id \in Nat
      BY <2>2 DEF Row
    <3>3. QED
      BY <2>1, <3>2 DEF QueueStep
  <2>4. ASSUME NEW t \in Syncs PROVE HeldOK(sync'[t].items, queue', nextId')
    <3> SUFFICES ASSUME NEW i \in Rows(sync'[t].items)
                 PROVE  i.id < nextId' /\ \A r \in Rows(queue') : r.id = i.id => r = i
      BY DEF HeldOK
    <3>1. \A u \in Syncs : \A j \in Rows(sync[u].items) : 
             j.id < nextId /\ \A r \in Rows(queue) : r.id = j.id => r = j
      BY <1>1 DEF UniqueIds, HeldOK
    <3>2. \A j \in Rows(queue) : \A r \in Rows(queue) : r.id = j.id => r = j
      BY <1>1 DEF UniqueIds, Distinct, Rows
    <3>3. i \in Rows(sync[t].items) \/ i \in Rows(queue)
      BY <1>4
    <3>4. i.id < nextId /\ \A r \in Rows(queue) : r.id = i.id => r = i
      BY <2>1, <3>1, <3>2, <3>3
    <3>5. i \in Row
      <4>1. sync'[t].items \in Seq(Row)
        BY <1>4 DEF Local
      <4>2. QED
        BY <4>1, ElementOfSeq DEF Rows
    <3>6. i.id \in Nat
      BY <3>5 DEF Row
    <3>7. i.id < nextId'
      BY <2>1, <3>4, <3>6 DEF QueueStep
    <3>8. ASSUME NEW r \in Rows(queue'), r.id = i.id PROVE r = i
      <4>1. r \in Rows(queue) \/ nextId <= r.id
        BY DEF QueueStep
      <4>2. ~(nextId <= r.id)
        BY <2>1, <3>4, <3>6, <3>8
      <4>3. QED
        BY <3>4, <3>8, <4>1, <4>2
    <3>9. QED
      BY <3>7, <3>8
  <2>5. QED
    BY <2>3, <2>4 DEF UniqueIds, QueueStep
<1>10. NoDocumentLost'
  <2>1. ASSUME cursor' = cursor PROVE NoDocumentLost'
    BY <1>1, <1>2, <1>5, <2>1, DeliveredStays DEF NoDocumentLost
  <2>2. QED
    BY <2>1
<1>11. \A t \in Syncs : Relies(sync'[t], stream' \ skipped', queue', published')
  <2>1. ASSUME NEW t \in Syncs, t # s PROVE Relies(sync[t], stream \ skipped', queue', published')
    <3>1. Relies(sync[t], stream \ skipped, queue, published)
      BY <1>1
    <3>2. stream \ skipped' \subseteq stream \ skipped
      OBVIOUS
    <3>3. QED
      BY <1>5, <3>1, <3>2, ReliesStays
  <2>2. QED
    BY <1>2, <1>4, <2>1
<1>12. QED
  BY <1>6, <1>8, <1>9, <1>10, <1>11 DEF BridgeInv, QueueStep

-----------------------------------------------------------------------------
(* The runs' steps outside the loops.                                      *)

\* A run that starts anew, with a location and nothing else to rely on.
LEMMA FreshStep ==
    ASSUME BridgeInv, NEW s \in Syncs, NEW l \in Local, sync' = [sync EXCEPT ![s] = l],
           UNCHANGED <<gateway, cursor, skipped>>, SideOK', QueueStep,
           l.since <= clock, l.events = {}, l.at \in {"idle", "dequeue", "items"},
           \A i \in Rows(l.items) : i \in Rows(queue)
    PROVE  BridgeInv' /\ RowsLeavePublished
<1>1. cursor \in Nat /\ cursor <= clock /\ skipped \in SUBSET Event
  BY DEF BridgeInv, TypeOK, Timeline
<1>2. Relies(l, stream \ skipped', queue', published')
  BY ReliesOnNothing
<1>3. l.events \subseteq Known
  OBVIOUS
<1>4. QED
  BY <1>1, <1>2, <1>3, RunStep

LEMMA SideKept ==
    ASSUME BridgeInv
    PROVE  SideOK
BY DEF BridgeInv, TypeOK, SideOK, BreakersOK

LEMMA IdleLocal ==
    /\ Idle \in Local /\ Rows(Idle.items) = {} /\ Idle.since = 0 /\ Idle.events = {}
    /\ Idle.at = "idle"
<1>1. <<>> \in Seq(Row)
  OBVIOUS
<1>2. Rows(<<>>) = {}
  BY DEF Rows
<1>3. QED
  BY <1>1, <1>2 DEF Idle, Local

LEMMA ToDequeue ==
    ASSUME BridgeInv, NEW s \in Syncs,
           sync' = [sync EXCEPT ![s] = [Idle EXCEPT !.at = "dequeue"]],
           UNCHANGED <<gateway, cursor, skipped>>, SideOK', QueueStep
    PROVE  BridgeInv' /\ RowsLeavePublished
<1> DEFINE l == [Idle EXCEPT !.at = "dequeue"]
<1>1. l \in Local
  BY IdleLocal DEF Local
<1>2. l.since = 0 /\ l.events = {} /\ l.at = "dequeue" /\ Rows(l.items) = {}
  BY IdleLocal DEF Idle
<1>3. 0 <= clock
  BY DEF BridgeInv, TypeOK
<1> HIDE DEF l
<1>4. sync' = [sync EXCEPT ![s] = l]
  BY DEF l
<1>5. QED
  BY <1>1, <1>2, <1>3, <1>4, FreshStep

LEMMA ToIdle ==
    ASSUME BridgeInv, NEW s \in Syncs, sync' = [sync EXCEPT ![s] = Idle],
           UNCHANGED <<gateway, cursor, skipped>>, SideOK', QueueStep
    PROVE  BridgeInv' /\ RowsLeavePublished
<1>1. 0 <= clock
  BY DEF BridgeInv, TypeOK
<1>2. QED
  BY <1>1, IdleLocal, FreshStep

LEMMA PollStep ==
    ASSUME BridgeInv, NEW s \in Syncs, Poll(s)
    PROVE  BridgeInv' /\ RowsLeavePublished
<1> DEFINE l == [Idle EXCEPT !.at = "replay", !.since = cursor]
<1>0. cursor \in Nat /\ cursor <= clock /\ skipped \in SUBSET Event /\ NoDocumentLost
  BY DEF BridgeInv, TypeOK, Timeline
<1>1. l \in Local
  BY <1>0, IdleLocal DEF Local
<1>2. l.since = cursor /\ l.events = {} /\ l.at = "replay" /\ Rows(l.items) = {}
  BY IdleLocal DEF Idle
<1>3. sync' = [sync EXCEPT ![s] = l] /\ UNCHANGED <<gateway, cursor, skipped, queue, nextId, published>>
  BY DEF Poll
<1> HIDE DEF l
<1>4. Relies(l, stream \ skipped', queue', published')
  BY <1>0, <1>2, <1>3 DEF Relies, NoDocumentLost
<1>5. QueueStep
  BY <1>3, QueueKept
<1>6. SideOK'
  BY SideKept DEF SideOK, Poll, bounds
<1>7. QED
  BY <1>0, <1>1, <1>2, <1>3, <1>4, <1>5, <1>6, RunStep

LEMMA ReplayStep ==
    ASSUME BridgeInv, NEW s \in Syncs, Replay(s)
    PROVE  BridgeInv' /\ RowsLeavePublished
<1> DEFINE ev == ReplayFrom(sync[s].since)
           l == [Idle EXCEPT !.events = ev, !.at = AfterEvent(ev)]
<1>0. /\ cursor \in Nat /\ cursor <= clock /\ skipped \in SUBSET Event /\ stream \in SUBSET Event
      /\ clock \in Nat /\ sync \in [Syncs -> Local]
      /\ Relies(sync[s], stream \ skipped, queue, published)
  BY DEF BridgeInv, TypeOK, Timeline
<1>1. ev \subseteq stream /\ \A f \in stream \ ev : f.at < sync[s].since
  <2>1. sync[s].since \in Nat
    BY <1>0 DEF Local
  <2>2. \A f \in stream : f.at \in Nat
    BY <1>0 DEF Event
  <2>3. QED
    BY <2>1, <2>2 DEF ReplayFrom
<1>2. sync' = [sync EXCEPT ![s] = l] /\ UNCHANGED <<gateway, cursor, skipped, queue, nextId, published>>
      /\ At(s, "replay")
  BY DEF Replay, tables
<1> HIDE DEF ev
<1>3. AfterEvent(ev) \in {"dequeue", "capture"}
  BY DEF AfterEvent
<1>4. l \in Local
  BY <1>0, <1>1, <1>3, IdleLocal DEF Local
<1>5. l.since = 0 /\ l.events = ev /\ l.at \in {"dequeue", "capture"} /\ Rows(l.items) = {}
  BY <1>3, IdleLocal DEF Idle
<1> HIDE DEF l
<1>6. Relies(l, stream \ skipped', queue', published')
  BY <1>0, <1>1, <1>2, <1>5 DEF Relies, At
<1>7. QueueStep
  BY <1>2, QueueKept
<1>8. SideOK'
  BY SideKept DEF SideOK, Replay, tables
<1>9. l.since <= clock /\ l.events \subseteq Known
  BY <1>0, <1>1, <1>5 DEF Known
<1>10. QED
  BY <1>0, <1>2, <1>4, <1>5, <1>6, <1>7, <1>8, <1>9, RunStep

LEMMA DequeueStep ==
    ASSUME BridgeInv, NEW s \in Syncs, DequeueOutbound(s)
    PROVE  BridgeInv' /\ RowsLeavePublished
<1> DEFINE n == IF Len(queue) < Batch THEN Len(queue) ELSE Batch
           b == SubSeq(queue, 1, n)
           l == [Idle EXCEPT !.at = "items", !.items = b]
<1>0. clock \in Nat /\ queue \in Seq(Row) /\ Batch \in Nat
  BY BridgeAssumption DEF BridgeInv, TypeOK
<1>1. n \in Nat /\ n <= Len(queue) /\ Len(queue) \in Nat /\ \A i \in 1..Len(queue) : queue[i] \in Row
  BY <1>0
<1>2. sync' = [sync EXCEPT ![s] = l] /\ UNCHANGED <<gateway, cursor, skipped, queue, nextId, published>>
  BY DEF DequeueOutbound, tables
<1> HIDE DEF n
<1>3. b \in Seq(Row) /\ Len(b) = n /\ \A i \in 1..n : b[i] = queue[i]
  BY <1>1, SubSeqProperties
<1> HIDE DEF b
<1>4. \A i \in Rows(b) : i \in Rows(queue)
  BY <1>0, <1>1, <1>3 DEF Rows
<1>5. l \in Local
  BY <1>3, IdleLocal DEF Local
<1>6. l.since = 0 /\ l.events = {} /\ l.at = "items" /\ l.items = b
  BY DEF Idle
<1> HIDE DEF l
<1>7. QueueStep
  BY <1>2, QueueKept
<1>8. SideOK'
  BY SideKept DEF SideOK, DequeueOutbound, tables, bounds
<1>9. 0 <= clock
  BY <1>0
<1>10. QED
  BY <1>2, <1>4, <1>5, <1>6, <1>7, <1>8, <1>9, FreshStep

-----------------------------------------------------------------------------
(* The capture's loop.                                                     *)

\* What the invariant says of a run, for its steps.
LEMMA RunFacts ==
    ASSUME BridgeInv, NEW s \in Syncs
    PROVE  /\ sync \in [Syncs -> Local] /\ sync[s] \in Local /\ sync[s].since <= clock
           /\ sync[s].events \subseteq Known /\ sync[s].events \subseteq Event
           /\ Relies(sync[s], stream \ skipped, queue, published)
           /\ cursor \in Nat /\ cursor <= clock /\ skipped \in SUBSET Event
<1>1. sync \in [Syncs -> Local] /\ cursor \in Nat /\ skipped \in SUBSET Event
  BY DEF BridgeInv, TypeOK
<1>2. sync[s] \in Local
  BY <1>1
<1>3. sync[s].events \subseteq Event
  BY <1>2 DEF Local
<1>4. QED
  BY <1>1, <1>2, <1>3 DEF BridgeInv, Timeline, Known

\* The loop is at one event.
LEMMA CurrentUnique ==
    ASSUME BridgeInv, NEW s \in Syncs, NEW e \in sync[s].events, Current(s, e),
           NEW g \in sync[s].events, \A f \in sync[s].events : g.no <= f.no
    PROVE  g = e
<1>1. e \in Known /\ g \in Known /\ e.no \in Nat /\ g.no \in Nat
  BY RunFacts DEF Event
<1>2. e.no <= g.no /\ g.no <= e.no
  BY DEF Current
<1>3. e.no = g.no
  BY <1>1, <1>2
<1>4. QED
  BY <1>1, <1>3 DEF BridgeInv, Timeline

\* The loop goes on once the event at hand is dealt with.
LEMMA EventDoneStep ==
    ASSUME BridgeInv, NEW s \in Syncs, NEW e \in sync[s].events, EventDone(s, e),
           UNCHANGED gateway, cursor' \in Nat, cursor' <= clock,
           skipped' \in SUBSET Event, skipped \subseteq skipped', SideOK', QueueStep,
           cursor' # cursor => NoDocumentLost',
           e \in skipped' \/ Delivered(queue', published', e)
    PROVE  BridgeInv' /\ RowsLeavePublished
<1> DEFINE rest == sync[s].events \ {e}
           l == [sync[s] EXCEPT !.events = rest, !.targets = {}, !.at = AfterEvent(rest)]
<1>1. /\ sync \in [Syncs -> Local] /\ sync[s] \in Local /\ sync[s].since <= clock
      /\ sync[s].events \subseteq Known /\ sync[s].events \subseteq Event
      /\ Relies(sync[s], stream \ skipped, queue, published)
  BY RunFacts
<1>2. sync' = [sync EXCEPT ![s] = l]
  BY <1>1 DEF EventDone
<1>3. AfterEvent(rest) \in {"dequeue", "capture"}
  BY DEF AfterEvent
<1>4. rest \subseteq sync[s].events /\ \A f : f \notin rest => f \notin sync[s].events \/ f = e
  OBVIOUS
<1> HIDE DEF rest
<1>5. l \in Local
  BY <1>1, <1>3, <1>4 DEF Local
<1>6. /\ l.events = rest /\ l.at \in {"dequeue", "capture"}
      /\ l.items = sync[s].items /\ l.since = sync[s].since
  BY <1>1, <1>3 DEF Local
<1> HIDE DEF l
<1>7. Keeps(queue, published, queue', published')
  BY DEF Keeps, QueueStep, RowsLeavePublished
<1>8. Relies(l, stream \ skipped', queue', published')
  <2>1. ASSUME NEW g \in rest, NEW f \in (stream \ skipped') \ rest, f.no < g.no
        PROVE  Delivered(queue', published', f)
    <3>1. CASE f = e
      BY <3>1
    <3>2. CASE f \notin sync[s].events
      <4>1. Delivered(queue, published, f)
        BY <1>1, <1>4, <2>1, <3>2 DEF Relies
      <4>2. QED
        BY <1>7, <4>1, DeliveredStays
    <3>3. QED
      BY <1>4, <3>1, <3>2
  <2>2. QED
    BY <1>6, <2>1 DEF Relies
<1>9. l.since <= clock /\ l.events \subseteq Known
  BY <1>1, <1>4, <1>6
<1>10. \A i \in Rows(l.items) : i \in Rows(sync[s].items)
  BY <1>6
<1>11. QED
  BY <1>2, <1>5, <1>8, <1>9, <1>10, RunStep

\* A step that changes where the run is, and its targets, while it keeps its
\* events and its items.
LEMMA MoveStep ==
    ASSUME BridgeInv, NEW s \in Syncs, NEW at, NEW targets \in SUBSET Adapters,
           at \in {"fetch", "enqueue", "publish", "sent", "failed"},
           sync' = [sync EXCEPT ![s].at = at, ![s].targets = targets],
           UNCHANGED <<gateway, skipped>>, cursor' \in Nat, cursor' <= clock,
           SideOK', QueueStep, cursor' # cursor => NoDocumentLost',
           at = "enqueue" =>
             \A e \in sync[s].events : (\A f \in sync[s].events : e.no <= f.no) =>
               \A a \in Matches[e.msg] \ targets : Reached(queue', published', a, e.msg),
           at \in {"publish", "sent", "failed"} => sync[s].items # <<>>,
           at = "sent" =>
             <<Head(sync[s].items).adapter, Head(sync[s].items).msg>> \in published'
    PROVE  BridgeInv' /\ RowsLeavePublished
<1> DEFINE l == [sync[s] EXCEPT !.at = at, !.targets = targets]
<1>1. /\ sync \in [Syncs -> Local] /\ sync[s] \in Local /\ sync[s].since <= clock
      /\ sync[s].events \subseteq Known /\ skipped \in SUBSET Event
      /\ Relies(sync[s], stream \ skipped, queue, published)
  BY RunFacts
<1>2. sync' = [sync EXCEPT ![s] = l]
  BY <1>1
<1>3. l \in Local
  BY <1>1 DEF Local
<1>4. /\ l.at = at /\ l.targets = targets /\ l.events = sync[s].events
      /\ l.items = sync[s].items /\ l.since = sync[s].since
  BY <1>1 DEF Local
<1> HIDE DEF l
<1>5. Keeps(queue, published, queue', published')
  BY DEF Keeps, QueueStep, RowsLeavePublished
<1>6. Relies(l, stream \ skipped', queue', published')
  <2>1. \A e \in l.events : \A f \in (stream \ skipped') \ l.events :
           f.no < e.no => Delivered(queue', published', f)
    BY <1>1, <1>4, <1>5, DeliveredStays DEF Relies
  <2>2. l.at # "replay"
    BY <1>4
  <2>3. QED
    BY <1>4, <2>1, <2>2 DEF Relies
<1>7. \A i \in Rows(l.items) : i \in Rows(sync[s].items)
  BY <1>4
<1>8. l.since <= clock /\ l.events \subseteq Known
  BY <1>1, <1>4
<1>9. QED
  BY <1>1, <1>2, <1>3, <1>6, <1>7, <1>8, RunStep

\* Goto, as a move that keeps the targets.
LEMMA GotoMoves ==
    ASSUME BridgeInv, NEW s \in Syncs, NEW at, Goto(s, at)
    PROVE  /\ sync' = [sync EXCEPT ![s].at = at, ![s].targets = sync[s].targets]
           /\ sync[s].targets \in SUBSET Adapters
<1>1. sync \in [Syncs -> Local] /\ sync[s] \in Local
  BY RunFacts
<1>2. [sync[s] EXCEPT !.at = at] = [sync[s] EXCEPT !.at = at, !.targets = sync[s].targets]
  BY <1>1 DEF Local
<1>3. QED
  BY <1>1, <1>2 DEF Goto, Local

LEMMA GotoStep ==
    ASSUME BridgeInv, NEW s \in Syncs, NEW at \in {"fetch", "publish", "sent", "failed"},
           Goto(s, at), UNCHANGED <<gateway, skipped>>, cursor' \in Nat, cursor' <= clock,
           SideOK', QueueStep, cursor' # cursor => NoDocumentLost',
           at # "fetch" => sync[s].items # <<>>,
           at = "sent" =>
             <<Head(sync[s].items).adapter, Head(sync[s].items).msg>> \in published'
    PROVE  BridgeInv' /\ RowsLeavePublished
<1> DEFINE targets == sync[s].targets
<1>1. targets \in SUBSET Adapters /\ sync' = [sync EXCEPT ![s].at = at, ![s].targets = targets]
  BY GotoMoves
<1> HIDE DEF targets
<1>2. at \in {"fetch", "enqueue", "publish", "sent", "failed"} /\ at # "enqueue"
  OBVIOUS
<1>3. at \in {"publish", "sent", "failed"} => sync[s].items # <<>>
  OBVIOUS
<1>4. at = "enqueue" =>
        \A e \in sync[s].events : (\A f \in sync[s].events : e.no <= f.no) =>
          \A a \in Matches[e.msg] \ targets : Reached(queue', published', a, e.msg)
  BY <1>2
<1>5. QED
  BY <1>1, <1>2, <1>3, <1>4, MoveStep

LEMMA TakeEventStep ==
    ASSUME BridgeInv, NEW s \in Syncs, NEW e \in sync[s].events, TakeEvent(s, e)
    PROVE  BridgeInv' /\ RowsLeavePublished
<1>1. /\ sync[s].events \subseteq Known /\ sync[s].events \subseteq Event
      /\ Relies(sync[s], stream \ skipped, queue, published) /\ skipped \in SUBSET Event
  BY RunFacts
<1>2. UNCHANGED <<gateway, skipped, queue, nextId, published>> /\ cursor' = e.at /\ Current(s, e)
  BY DEF TakeEvent, tables
<1>3. cursor' \in Nat /\ cursor' <= clock
  BY <1>1, <1>2 DEF Event, BridgeInv, Timeline
<1>4. QueueStep
  BY <1>2, QueueKept
<1>5. SideOK'
  BY SideKept DEF SideOK, TakeEvent, tables, bounds
<1>6. NoDocumentLost'
  <2>1. ASSUME NEW f \in stream \ skipped, f.at < e.at PROVE Delivered(queue, published, f)
    <3>1. f \in Known /\ e \in Known /\ f \in Event /\ e \in Event
      BY <1>1 DEF Known, BridgeInv, TypeOK
    <3>2. f.no \in Nat /\ e.no \in Nat /\ f.at \in Nat /\ e.at \in Nat
      BY <3>1 DEF Event
    <3>3. (e.no < f.no => e.at <= f.at) /\ (e.no = f.no => e = f)
      BY <3>1 DEF BridgeInv, Timeline
    <3>4. e # f
      BY <2>1, <3>2
    <3>5. f.no < e.no
      BY <2>1, <3>2, <3>3, <3>4
    <3>6. f \notin sync[s].events
      BY <1>2, <3>2, <3>5 DEF Current
    <3>7. QED
      BY <1>1, <3>5, <3>6 DEF Relies
  <2>2. QED
    BY <1>2, <2>1 DEF NoDocumentLost, gateway
<1>7. CASE e.type = "archive.appended"
  <2>1. Goto(s, "fetch")
    BY <1>7 DEF TakeEvent
  <2>2. QED
    BY <1>2, <1>3, <1>4, <1>5, <1>6, <2>1, GotoStep
<1>8. CASE e.type # "archive.appended"
  <2>1. EventDone(s, e)
    BY <1>8 DEF TakeEvent
  <2>2. Delivered(queue', published', e)
    BY <1>8 DEF Delivered
  <2>3. QED
    BY <1>1, <1>2, <1>3, <1>4, <1>5, <1>6, <2>1, <2>2, EventDoneStep
<1>9. QED
  BY <1>7, <1>8

LEMMA FetchStep ==
    ASSUME BridgeInv, NEW s \in Syncs, NEW e \in sync[s].events, FetchForCapture(s, e)
    PROVE  BridgeInv' /\ RowsLeavePublished
<1>1. cursor \in Nat /\ cursor <= clock /\ skipped \in SUBSET Event /\ sync[s].events \subseteq Event
  BY RunFacts
<1>2. UNCHANGED <<gateway, cursor, skipped, queue, nextId, published>> /\ Current(s, e)
  BY DEF FetchForCapture, tables
<1>3. QueueStep
  BY <1>2, QueueKept
<1>4. SideOK'
  BY SideKept DEF SideOK, FetchForCapture, tables, bounds
<1>5. CASE Matches[e.msg] = {}
  <2>1. EventDone(s, e)
    BY <1>5 DEF FetchForCapture
  <2>2. Delivered(queue', published', e)
    BY <1>5 DEF Delivered
  <2>3. QED
    BY <1>1, <1>2, <1>3, <1>4, <2>1, <2>2, EventDoneStep
<1>6. CASE Matches[e.msg] # {}
  <2>1. sync' = [sync EXCEPT ![s].at = "enqueue", ![s].targets = Matches[e.msg]]
    <3>1. sync' = [sync EXCEPT ![s].targets = Matches[e.msg], ![s].at = "enqueue"]
      BY <1>6 DEF FetchForCapture
    <3>2. sync \in [Syncs -> Local]
      BY RunFacts
    <3>3. QED
      BY <3>1, <3>2 DEF Local
  <2>2. Matches[e.msg] \in SUBSET Adapters
    BY <1>1, BridgeAssumption DEF Event
  <2>3. \A g \in sync[s].events : (\A f \in sync[s].events : g.no <= f.no) => g = e
    BY <1>2, CurrentUnique
  <2>4. QED
    BY <1>1, <1>2, <1>3, <1>4, <2>1, <2>2, <2>3, MoveStep
<1>7. QED
  BY <1>5, <1>6

LEMMA FetchFailsStep ==
    ASSUME BridgeInv, NEW s \in Syncs, NEW e \in sync[s].events, FetchForCaptureFails(s, e)
    PROVE  BridgeInv' /\ RowsLeavePublished
<1>1. cursor \in Nat /\ cursor <= clock /\ skipped \in SUBSET Event /\ sync[s].events \subseteq Event
  BY RunFacts
<1>2. UNCHANGED <<gateway, cursor, queue, nextId, published>> /\ EventDone(s, e)
      /\ skipped' = skipped \cup {e}
  BY DEF FetchForCaptureFails, tables
<1>3. QueueStep
  BY <1>2, QueueKept
<1>4. SideOK'
  BY SideKept DEF SideOK, FetchForCaptureFails, MayFail, tables, bounds
<1>5. QED
  BY <1>1, <1>2, <1>3, <1>4, EventDoneStep

LEMMA EnqueueStep ==
    ASSUME BridgeInv, NEW s \in Syncs, NEW e \in sync[s].events, NEW a \in Adapters,
           EnqueueOutbound(s, e, a)
    PROVE  BridgeInv' /\ RowsLeavePublished
<1> DEFINE r == [id |-> nextId, adapter |-> a, msg |-> e.msg]
<1>1. /\ cursor \in Nat /\ cursor <= clock /\ skipped \in SUBSET Event /\ sync[s].events \subseteq Event
      /\ Relies(sync[s], stream \ skipped, queue, published)
      /\ sync \in [Syncs -> Local] /\ sync[s] \in Local
  BY RunFacts
<1>2. /\ UNCHANGED <<gateway, cursor, skipped, published>> /\ Current(s, e) /\ At(s, "enqueue")
      /\ queue' = Append(queue, r) /\ nextId' = nextId + 1 /\ a \in sync[s].targets
  BY DEF EnqueueOutbound
<1>3. /\ queue \in Seq(Row) /\ nextId \in Nat /\ Distinct(queue)
      /\ published \in SUBSET (Adapters \X Msgs) /\ \A x \in Rows(queue) : x.id < nextId
  BY DEF BridgeInv, TypeOK, UniqueIds
<1>4. r \in Row /\ r.id = nextId /\ r.adapter = a /\ r.msg = e.msg
  BY <1>1, <1>3 DEF Row, Event
<1> HIDE DEF r
<1>5. queue' \in Seq(Row) /\ Rows(queue') = Rows(queue) \cup {r} /\ Distinct(queue')
  <2>1. \A x \in Rows(queue) : x.id # r.id
    <3>1. TAKE x \in Rows(queue)
    <3>2. x \in Row
      BY <1>3, ElementOfSeq DEF Rows
    <3>3. x.id \in Nat
      BY <3>2 DEF Row
    <3>4. QED
      BY <1>3, <1>4, <3>3
  <2>2. QED
    BY <1>2, <1>3, <1>4, <2>1, AppendRow
<1>6. QueueStep
  <2>1. nextId' \in Nat /\ nextId <= nextId' /\ nextId <= r.id /\ r.id < nextId'
    BY <1>2, <1>3, <1>4
  <2>2. RowsLeavePublished
    BY <1>5 DEF RowsLeavePublished
  <2>3. QED
    BY <1>2, <1>3, <1>5, <2>1, <2>2 DEF QueueStep
<1>7. SideOK'
  <2>1. SideOK
    BY SideKept
  <2>2. instant' \in SUBSET Nat
    BY <1>3, <2>1, StampsOK DEF SideOK, EnqueueOutbound
  <2>3. QED
    BY <2>1, <2>2 DEF SideOK, EnqueueOutbound, bounds
<1>8. \A b \in Matches[e.msg] : b = a \/ b \notin sync[s].targets => Reached(queue', published', b, e.msg)
  <2>1. Reached(queue', published', a, e.msg)
    BY <1>4, <1>5 DEF Reached
  <2>2. Keeps(queue, published, queue', published')
    BY <1>6 DEF Keeps, QueueStep, RowsLeavePublished
  <2>3. \A b \in Matches[e.msg] \ sync[s].targets : Reached(queue, published, b, e.msg)
    BY <1>1, <1>2 DEF Relies, Current, At
  <2>4. QED
    BY <2>1, <2>2, <2>3, ReachedStays
<1>9. CASE sync[s].targets = {a}
  <2>1. EventDone(s, e)
    BY <1>9 DEF EnqueueOutbound
  <2>2. Delivered(queue', published', e)
    BY <1>8, <1>9 DEF Delivered
  <2>3. QED
    BY <1>1, <1>2, <1>6, <1>7, <2>1, <2>2, EventDoneStep
<1>10. CASE sync[s].targets # {a}
  <2> DEFINE rest == sync[s].targets \ {a}
  <2>1. sync' = [sync EXCEPT ![s].targets = rest]
    BY <1>10 DEF EnqueueOutbound
  <2>2. rest \in SUBSET Adapters
    BY <1>1 DEF Local
  <2>3. \A g \in sync[s].events : (\A f \in sync[s].events : g.no <= f.no) =>
           \A b \in Matches[g.msg] \ rest : Reached(queue', published', b, g.msg)
    <3>1. \A g \in sync[s].events : (\A f \in sync[s].events : g.no <= f.no) => g = e
      BY <1>2, CurrentUnique
    <3>2. QED
      BY <1>8, <3>1
  <2> HIDE DEF rest
  <2>4. sync' = [sync EXCEPT ![s].at = "enqueue", ![s].targets = rest]
    <3>1. [sync[s] EXCEPT !.targets = rest] = [sync[s] EXCEPT !.at = "enqueue", !.targets = rest]
      BY <1>1, <1>2 DEF Local, At
    <3>2. QED
      BY <1>1, <2>1, <3>1
  <2>5. QED
    BY <1>1, <1>2, <1>6, <1>7, <2>2, <2>3, <2>4, MoveStep
<1>11. QED
  BY <1>9, <1>10

-----------------------------------------------------------------------------
(* The loop over the batch.                                                *)

\* Recording an outcome keeps at most Window of them.
LEMMA RecordOK ==
    ASSUME BreakersOK(breaker), NEW a \in Adapters, NEW outcome \in BOOLEAN
    PROVE  Record(a, outcome) \in Seq(BOOLEAN) /\ Len(Record(a, outcome)) <= Window
<1> DEFINE o == breaker[a].outcomes
           z == Append(o, outcome)
<1>1. o \in Seq(BOOLEAN) /\ Len(o) <= Window /\ Len(o) \in Nat /\ Window \in Nat \ {0}
  BY BridgeAssumption DEF BreakersOK
<1> HIDE DEF o
<1>2. z \in Seq(BOOLEAN) /\ Len(z) = Len(o) + 1
  BY <1>1
<1>3. z # <<>>
  BY <1>1, <1>2
<1> HIDE DEF z
<1>4. Tail(z) \in Seq(BOOLEAN) /\ Len(Tail(z)) = Len(z) - 1
  BY <1>2, <1>3, HeadTailProperties
<1>5. Record(a, outcome) = IF Len(z) > Window THEN Tail(z) ELSE z
  BY DEF Record, z, o
<1>6. Len(Record(a, outcome)) <= Window
  <2>1. CASE Len(z) > Window
    BY <1>1, <1>2, <1>4, <1>5, <2>1
  <2>2. CASE ~(Len(z) > Window)
    BY <1>1, <1>2, <1>5, <2>2
  <2>3. QED
    BY <2>1, <2>2
<1>7. QED
  BY <1>2, <1>4, <1>5, <1>6

LEMMA SuccessOK ==
    ASSUME BreakersOK(breaker), NEW a \in Adapters, RecordSuccess(a)
    PROVE  BreakersOK(breaker')
<1> DEFINE o == Record(a, TRUE)
<1>1. o \in Seq(BOOLEAN) /\ Len(o) <= Window
  BY RecordOK
<1>2. breaker' = [breaker EXCEPT ![a].outcomes = o]
  BY DEF RecordSuccess
<1> HIDE DEF o
<1>3. breaker' \in [Adapters -> [outcomes: Seq(BOOLEAN), paused: Nat]]
  BY <1>1, <1>2 DEF BreakersOK
<1>4. \A b \in Adapters : breaker'[b].outcomes = IF b = a THEN o ELSE breaker[b].outcomes
  BY <1>2 DEF BreakersOK
<1>5. QED
  BY <1>1, <1>3, <1>4 DEF BreakersOK

LEMMA FailureOK ==
    ASSUME BreakersOK(breaker), NEW a \in Adapters, RecordFailure(a)
    PROVE  BreakersOK(breaker')
<1> DEFINE o == Record(a, FALSE)
           p == IF RateExceeded(o) THEN CoolDown ELSE breaker[a].paused
<1>1. o \in Seq(BOOLEAN) /\ Len(o) <= Window
  BY RecordOK
<1>2. p \in Nat
  BY BridgeAssumption DEF BreakersOK
<1>3. breaker' = [breaker EXCEPT ![a].outcomes = o, ![a].paused = p]
  BY DEF RecordFailure, BreakersOK
<1> HIDE DEF o, p
<1>4. breaker' \in [Adapters -> [outcomes: Seq(BOOLEAN), paused: Nat]]
  BY <1>1, <1>2, <1>3 DEF BreakersOK
<1>5. \A b \in Adapters : breaker'[b].outcomes = IF b = a THEN o ELSE breaker[b].outcomes
  BY <1>3 DEF BreakersOK
<1>6. QED
  BY <1>1, <1>4, <1>5 DEF BreakersOK

\* The item at hand is a row that was queued.
LEMMA ItemFacts ==
    ASSUME BridgeInv, NEW s \in Syncs, sync[s].items # <<>>
    PROVE  /\ Item(s) \in Row /\ Item(s).adapter \in Adapters /\ Item(s).msg \in Msgs
           /\ Item(s).id \in Nat
           /\ Item(s) \in Rows(sync[s].items)
           /\ \A r \in Rows(queue) : r.id = Item(s).id => r = Item(s)
           /\ Tail(sync[s].items) \in Seq(Row)
           /\ Rows(Tail(sync[s].items)) \subseteq Rows(sync[s].items)
<1> DEFINE q == sync[s].items
<1>1. q \in Seq(Row)
  BY RunFacts DEF Local
<1>2. HeldOK(q, queue, nextId)
  BY DEF BridgeInv, UniqueIds
<1>3. q # <<>> /\ Item(s) = Head(q)
  BY DEF Item
<1> HIDE DEF q
<1>4. Len(q) \in Nat /\ DOMAIN q = 1..Len(q) /\ Len(q) > 0 /\ Head(q) = q[1]
  BY <1>1, <1>3
<1>5. 1 \in DOMAIN q
  BY <1>4
<1>6. Head(q) \in Rows(q)
  BY <1>4, <1>5 DEF Rows
<1>7. /\ Head(q) \in Row /\ Tail(q) \in Seq(Row) /\ Len(Tail(q)) = Len(q) - 1
      /\ \A i \in 1..Len(Tail(q)) : Tail(q)[i] = q[i + 1]
  BY <1>1, <1>3, HeadTailProperties
<1>8. Rows(Tail(q)) \subseteq Rows(q)
  <2>1. DOMAIN Tail(q) = 1..Len(Tail(q))
    BY <1>7
  <2>2. \A i \in 1..Len(Tail(q)) : i + 1 \in DOMAIN q
    BY <1>4, <1>7
  <2>3. QED
    BY <1>7, <2>1, <2>2 DEF Rows
<1>9. Head(q).adapter \in Adapters /\ Head(q).msg \in Msgs /\ Head(q).id \in Nat
  BY <1>7 DEF Row
<1>10. QED
  BY <1>2, <1>3, <1>6, <1>7, <1>8, <1>9 DEF HeldOK, q

\* The loop goes on to the next item.
LEMMA ItemDoneStep ==
    ASSUME BridgeInv, NEW s \in Syncs, sync[s].items # <<>>, ItemDone(s),
           UNCHANGED <<gateway, cursor, skipped>>, SideOK', QueueStep
    PROVE  BridgeInv' /\ RowsLeavePublished
<1> DEFINE t == Tail(sync[s].items)
           l == [sync[s] EXCEPT !.items = t, !.at = "items"]
<1>1. /\ sync \in [Syncs -> Local] /\ sync[s] \in Local /\ sync[s].since <= clock
      /\ sync[s].events \subseteq Known
      /\ Relies(sync[s], stream \ skipped, queue, published)
      /\ cursor \in Nat /\ cursor <= clock /\ skipped \in SUBSET Event
  BY RunFacts
<1>2. sync' = [sync EXCEPT ![s] = l]
  BY <1>1 DEF ItemDone
<1>3. t \in Seq(Row) /\ Rows(t) \subseteq Rows(sync[s].items)
  BY ItemFacts
<1> HIDE DEF t
<1>4. l \in Local
  BY <1>1, <1>3 DEF Local
<1>5. l.items = t /\ l.at = "items" /\ l.since = sync[s].since /\ l.events = sync[s].events
  BY <1>1 DEF Local
<1> HIDE DEF l
<1>6. Keeps(queue, published, queue', published')
  BY DEF Keeps, QueueStep, RowsLeavePublished
<1>7. Relies(l, stream \ skipped', queue', published')
  <2>1. \A e \in l.events : \A f \in (stream \ skipped') \ l.events :
           f.no < e.no => Delivered(queue', published', f)
    BY <1>1, <1>5, <1>6, DeliveredStays DEF Relies
  <2>2. QED
    BY <1>5, <2>1 DEF Relies
<1>8. l.since <= clock /\ l.events \subseteq Known
  BY <1>1, <1>5
<1>9. \A i \in Rows(l.items) : i \in Rows(sync[s].items)
  BY <1>3, <1>5
<1>10. QED
  BY <1>1, <1>2, <1>4, <1>7, <1>8, <1>9, RunStep

LEMMA MarkFailedStep ==
    ASSUME BridgeInv, NEW id, MarkFailed(id), nextId' = nextId, published' = published
    PROVE  QueueStep
<1>1. /\ queue \in Seq(Row) /\ Distinct(queue) /\ nextId \in Nat
      /\ published \in SUBSET (Adapters \X Msgs)
  BY DEF BridgeInv, TypeOK, UniqueIds
<1>2. queue' \in Seq(Row) /\ Distinct(queue') /\ Rows(queue') = Rows(queue)
  BY <1>1, MarkFailedKeeps
<1>3. RowsLeavePublished
  BY <1>2 DEF RowsLeavePublished
<1>4. nextId <= nextId'
  BY <1>1
<1>5. QED
  BY <1>1, <1>2, <1>3, <1>4 DEF QueueStep

LEMMA HoldsItem ==
    ASSUME BridgeInv, NEW s \in Syncs, sync[s].at \in {"publish", "sent", "failed"}
    PROVE  sync[s].items # <<>>
BY DEF BridgeInv, Relies

LEMMA TakeItemStep ==
    ASSUME BridgeInv, NEW s \in Syncs, TakeItem(s)
    PROVE  BridgeInv' /\ RowsLeavePublished
<1>1. UNCHANGED <<gateway, cursor, skipped, nextId, published>> /\ sync[s].items # <<>>
  BY DEF TakeItem
<1>2. SideOK'
  <2>1. SideOK
    BY SideKept
  <2>2. instant' \in SUBSET Nat
    <3>1. Item(s).id \in Nat
      BY <1>1, ItemFacts
    <3>2. MarkFailed(Item(s).id) \/ instant' = instant
      BY DEF TakeItem
    <3>3. QED
      BY <2>1, <3>1, <3>2, StampsOK DEF SideOK
  <2>3. QED
    BY <2>1, <2>2 DEF SideOK, TakeItem, bounds
<1>3. cursor \in Nat /\ cursor <= clock
  BY RunFacts
<1>4. CASE IsBreakerOpen(Item(s).adapter)
  <2>1. MarkFailed(Item(s).id) /\ ItemDone(s)
    BY <1>4 DEF TakeItem
  <2>2. QueueStep
    BY <1>1, <2>1, MarkFailedStep
  <2>3. QED
    BY <1>1, <1>2, <2>1, <2>2, ItemDoneStep
<1>5. CASE ~IsBreakerOpen(Item(s).adapter)
  <2>1. Goto(s, "publish") /\ queue' = queue
    BY <1>5 DEF TakeItem
  <2>2. QueueStep
    BY <1>1, <2>1, QueueKept
  <2>3. QED
    BY <1>1, <1>2, <1>3, <2>1, <2>2, GotoStep
<1>6. QED
  BY <1>4, <1>5

LEMMA PublishStep ==
    ASSUME BridgeInv, NEW s \in Syncs, PublishOutbound(s)
    PROVE  BridgeInv' /\ RowsLeavePublished
<1>1. /\ UNCHANGED <<gateway, cursor, skipped, nextId, queue>> /\ sync[s].at = "publish"
      /\ published' = published \cup {<<Item(s).adapter, Item(s).msg>>} /\ Goto(s, "sent")
  BY DEF PublishOutbound, tables, At
<1>2. sync[s].items # <<>>
  BY <1>1, HoldsItem
<1>3. Item(s).adapter \in Adapters /\ Item(s).msg \in Msgs
  BY <1>2, ItemFacts
<1>4. SideOK'
  BY SideKept DEF SideOK, PublishOutbound, tables, bounds
<1>5. QueueStep
  <2>1. /\ queue \in Seq(Row) /\ Distinct(queue) /\ nextId \in Nat
        /\ published \in SUBSET (Adapters \X Msgs)
    BY DEF BridgeInv, TypeOK, UniqueIds
  <2>2. RowsLeavePublished
    BY <1>1 DEF RowsLeavePublished
  <2>3. nextId <= nextId'
    BY <1>1, <2>1
  <2>4. QED
    BY <1>1, <1>3, <2>1, <2>2, <2>3 DEF QueueStep
<1>7. <<Head(sync[s].items).adapter, Head(sync[s].items).msg>> \in published'
  BY <1>1 DEF Item
<1>8. cursor \in Nat /\ cursor <= clock
  BY RunFacts
<1>9. QED
  BY <1>1, <1>2, <1>4, <1>5, <1>7, <1>8, GotoStep

LEMMA UpsertOK ==
    ASSUME synced \in SUBSET (Adapters \X Msgs), NEW a \in Adapters, NEW m \in Msgs
    PROVE  UpsertForeignSyncState(a, m) \in SUBSET (Adapters \X Msgs)
BY DEF UpsertForeignSyncState

LEMMA SentStep ==
    ASSUME BridgeInv, NEW s \in Syncs, Sent(s)
    PROVE  BridgeInv' /\ RowsLeavePublished
<1>1. /\ UNCHANGED <<gateway, cursor, skipped, nextId, published>> /\ sync[s].at = "sent"
      /\ MarkSent(Item(s).id) /\ RecordSuccess(Item(s).adapter) /\ ItemDone(s)
      /\ synced' = UpsertForeignSyncState(Item(s).adapter, Item(s).msg)
      /\ UNCHANGED <<dead, captures, faults>>
  BY DEF Sent, At, bounds
<1>2. sync[s].items # <<>>
  BY <1>1, HoldsItem
<1>3. /\ Item(s).adapter \in Adapters /\ Item(s).msg \in Msgs /\ Item(s).id \in Nat
      /\ \A r \in Rows(queue) : r.id = Item(s).id => r = Item(s)
  BY <1>2, ItemFacts
<1>4. SideOK /\ SideOK'
  <2>1. SideOK
    BY SideKept
  <2>2. BreakersOK(breaker')
    BY <1>1, <1>3, <2>1, SuccessOK DEF SideOK
  <2>3. synced' \in SUBSET (Adapters \X Msgs)
    BY <1>1, <1>3, <2>1, UpsertOK DEF SideOK
  <2>4. instant' \in SUBSET Nat
    BY <1>1, <1>3, <2>1, StampsOK DEF SideOK
  <2>5. QED
    BY <1>1, <2>1, <2>2, <2>3, <2>4 DEF SideOK
<1>5. /\ queue \in Seq(Row) /\ Distinct(queue) /\ nextId \in Nat
      /\ published \in SUBSET (Adapters \X Msgs)
  BY DEF BridgeInv, TypeOK, UniqueIds
<1>6. /\ queue' \in Seq(Row) /\ Distinct(queue')
      /\ Rows(queue') = {r \in Rows(queue) : r.id # Item(s).id}
  BY <1>1, <1>5, MarkSentRemoves
<1>7. <<Item(s).adapter, Item(s).msg>> \in published
  BY <1>1 DEF BridgeInv, Relies, Item
<1>8. RowsLeavePublished
  BY <1>1, <1>3, <1>6, <1>7 DEF RowsLeavePublished
<1>9. QueueStep
  BY <1>1, <1>5, <1>6, <1>8 DEF QueueStep
<1>10. QED
  BY <1>1, <1>2, <1>4, <1>9, ItemDoneStep

\* FetchItemFails and the catch block both put the row back.
LEMMA ItemFailsStep ==
    ASSUME BridgeInv, NEW s \in Syncs, FetchItemFails(s) \/ Failed(s)
    PROVE  BridgeInv' /\ RowsLeavePublished
<1>1. /\ UNCHANGED <<gateway, cursor, skipped, nextId, published, synced>>
      /\ sync[s].at \in {"publish", "failed"}
      /\ MarkFailed(Item(s).id) /\ RecordFailure(Item(s).adapter) /\ ItemDone(s)
      /\ dead' = dead \/ dead' = dead \cup {<<Item(s).adapter, Item(s).msg>>}
  BY DEF FetchItemFails, Failed, At
<1>2. sync[s].items # <<>>
  BY <1>1, HoldsItem
<1>3. Item(s).adapter \in Adapters /\ Item(s).msg \in Msgs /\ Item(s).id \in Nat
  BY <1>2, ItemFacts
<1>4. SideOK'
  <2>1. SideOK
    BY SideKept
  <2>2. BreakersOK(breaker')
    BY <1>1, <1>3, <2>1, FailureOK DEF SideOK
  <2>3. captures' \in Nat /\ faults' \in Nat
    BY <2>1 DEF SideOK, FetchItemFails, Failed, MayFail, bounds
  <2>4. instant' \in SUBSET Nat
    BY <1>1, <1>3, <2>1, StampsOK DEF SideOK
  <2>5. QED
    BY <1>1, <1>3, <2>1, <2>2, <2>3, <2>4 DEF SideOK
<1>5. QueueStep
  BY <1>1, MarkFailedStep
<1>6. QED
  BY <1>1, <1>2, <1>4, <1>5, ItemDoneStep

LEMMA PublishFailsStep ==
    ASSUME BridgeInv, NEW s \in Syncs, PublishFails(s)
    PROVE  BridgeInv' /\ RowsLeavePublished
<1>1. /\ UNCHANGED <<gateway, cursor, skipped, queue, nextId, instant, published, dead, breaker>>
      /\ sync[s].at \in {"publish", "sent"} /\ Goto(s, "failed")
      /\ synced' = synced \/ synced' = UpsertForeignSyncState(Item(s).adapter, Item(s).msg)
  BY DEF PublishFails, At
<1>2. sync[s].items # <<>>
  BY <1>1, HoldsItem
<1>3. Item(s).adapter \in Adapters /\ Item(s).msg \in Msgs
  BY <1>2, ItemFacts
<1>4. SideOK'
  <2>1. SideOK
    BY SideKept
  <2>2. captures' \in Nat /\ faults' \in Nat
    BY <2>1 DEF SideOK, PublishFails, MayFail
  <2>3. synced' \in SUBSET (Adapters \X Msgs)
    BY <1>1, <1>3, <2>1, UpsertOK DEF SideOK
  <2>4. QED
    BY <1>1, <2>1, <2>2, <2>3 DEF SideOK
<1>5. QueueStep
  BY <1>1, QueueKept
<1>7. cursor \in Nat /\ cursor <= clock
  BY RunFacts
<1>8. QED
  BY <1>1, <1>2, <1>4, <1>5, <1>7, GotoStep

LEMMA SyncFailsStep ==
    ASSUME BridgeInv, NEW s \in Syncs, SyncFails(s)
    PROVE  BridgeInv' /\ RowsLeavePublished
<1>1. /\ UNCHANGED <<gateway, cursor, skipped, nextId, published>>
      /\ sync' = [sync EXCEPT ![s] = Idle]
      /\ \/ UNCHANGED <<queue, instant>>
         \/ sync[s].at = "failed" /\ MarkFailed(Item(s).id)
  BY DEF SyncFails, At
<1>2. QueueStep
  BY <1>1, QueueKept, MarkFailedStep
<1>3. SideOK'
  <2>1. SideOK
    BY SideKept
  <2>2. instant' \in SUBSET Nat
    <3>1. CASE instant' = instant
      BY <2>1, <3>1 DEF SideOK
    <3>2. CASE sync[s].at = "failed" /\ MarkFailed(Item(s).id)
      <4>1. Item(s).id \in Nat
        BY <3>2, HoldsItem, ItemFacts
      <4>2. QED
        BY <2>1, <3>2, <4>1, StampsOK DEF SideOK
    <3>3. QED
      BY <1>1, <3>1, <3>2
  <2>3. QED
    BY <2>1, <2>2 DEF SideOK, SyncFails, MayFail
<1>4. QED
  BY <1>1, <1>2, <1>3, ToIdle

-----------------------------------------------------------------------------
(* The gateway and the environment.                                        *)

LEMMA EmitStep ==
    ASSUME BridgeInv, NEW m \in Msgs, NEW type \in {"archive.appended", "message.rejected"},
           Emit(m, type)
    PROVE  BridgeInv'
<1> DEFINE n == [no |-> emitted', at |-> clock', msg |-> m, type |-> type]
<1>1. /\ TypeOK /\ Timeline /\ UniqueIds /\ NoDocumentLost
      /\ \A s \in Syncs : Relies(sync[s], stream \ skipped, queue, published)
  BY DEF BridgeInv
<1>2. /\ clock' \in {clock, clock + 1} /\ emitted' = emitted + 1 /\ stream' = stream \cup {n}
      /\ UNCHANGED <<expired, cursor, queue, nextId, instant, synced, dead, published, breaker,
                     sync, skipped, captures, faults>>
  BY DEF Emit, tables, bounds
<1>3. clock \in Nat /\ emitted \in Nat /\ cursor \in Nat /\ stream \in SUBSET Event
  BY <1>1 DEF TypeOK
<1>4. clock' \in Nat /\ emitted' \in Nat /\ clock <= clock' /\ emitted < emitted'
  BY <1>2, <1>3
<1>5. n \in Event /\ n.no = emitted' /\ n.at = clock'
  BY <1>4 DEF Event
<1> HIDE DEF n
<1>6. TypeOK'
  BY <1>1, <1>2, <1>4, <1>5 DEF TypeOK
<1>7. Known' = Known \cup {n}
  BY <1>2 DEF Known
<1>8. \A e \in Known : e \in Event /\ e.no \in Nat /\ e.at \in Nat /\ e.no <= emitted /\ e.at <= clock
  <2>1. ASSUME NEW e \in Known PROVE e \in Event
    BY <1>1, RunFacts DEF Known, TypeOK
  <2>2. QED
    BY <1>1, <2>1 DEF Event, Timeline
<1>9. Timeline'
  <2>1. cursor' <= clock' /\ \A s \in Syncs : sync'[s].since <= clock'
    <3>1. \A s \in Syncs : sync[s].since \in Nat
      BY <1>1 DEF TypeOK, Local
    <3>2. QED
      BY <1>1, <1>2, <1>3, <1>4, <3>1 DEF Timeline
  <2>2. \A e \in Known' : e.no <= emitted' /\ e.at <= clock'
    BY <1>3, <1>4, <1>5, <1>7, <1>8
  <2>3. ASSUME NEW e \in Known', NEW f \in Known'
        PROVE  (e.no < f.no => e.at <= f.at) /\ (e.no = f.no => e = f)
    <3>1. CASE e \in Known /\ f \in Known
      BY <1>1, <3>1 DEF Timeline
    <3>2. CASE e \in Known /\ f = n
      BY <1>3, <1>4, <1>5, <1>8, <3>2
    <3>3. CASE e = n /\ f \in Known
      BY <1>3, <1>4, <1>5, <1>8, <3>3
    <3>4. CASE e = n /\ f = n
      BY <1>4, <1>5, <3>4
    <3>5. QED
      BY <1>7, <3>1, <3>2, <3>3, <3>4
  <2>4. QED
    BY <2>1, <2>2, <2>3 DEF Timeline
<1>10. UniqueIds'
  BY <1>1, <1>2 DEF UniqueIds
<1>11. NoDocumentLost'
  <2>1. ~(n.at < cursor)
    BY <1>1, <1>3, <1>4, <1>5 DEF Timeline
  <2>2. QED
    BY <1>1, <1>2, <2>1 DEF NoDocumentLost
<1>12. ASSUME NEW s \in Syncs PROVE Relies(sync[s], stream' \ skipped, queue, published)
  <2>1. Relies(sync[s], stream \ skipped, queue, published)
    BY <1>1
  <2>2. ~(n.at < sync[s].since)
    <3>1. sync[s].since \in Nat /\ sync[s].since <= clock
      BY <1>1 DEF TypeOK, Local, Timeline
    <3>2. QED
      BY <1>3, <1>4, <1>5, <3>1
  <2>3. \A e \in sync[s].events : ~(n.no < e.no)
    <3>1. TAKE e \in sync[s].events
    <3>2. e \in Known
      BY DEF Known
    <3>3. QED
      BY <1>3, <1>4, <1>5, <1>8, <3>2
  <2>4. \A f \in stream' \ skipped : f \in stream \ skipped \/ f = n
    BY <1>2
  <2>5. QED
    BY <2>1, <2>2, <2>3, <2>4 DEF Relies
<1>13. \A s \in Syncs : Relies(sync'[s], stream' \ skipped', queue', published')
  BY <1>2, <1>12
<1>14. QED
  BY <1>6, <1>9, <1>10, <1>11, <1>13 DEF BridgeInv

LEMMA RestUnchanged ==
    ASSUME BridgeInv, TypeOK',
           UNCHANGED <<clock, emitted, stream, cursor, queue, nextId, published, sync, skipped>>
    PROVE  BridgeInv'
<1>1. Known' = Known
  BY DEF Known
<1>2. Timeline'
  BY <1>1 DEF BridgeInv, Timeline
<1>3. UniqueIds'
  BY DEF BridgeInv, UniqueIds
<1>4. NoDocumentLost'
  BY DEF BridgeInv, NoDocumentLost
<1>5. \A s \in Syncs : Relies(sync'[s], stream' \ skipped', queue', published')
  BY DEF BridgeInv
<1>6. QED
  BY <1>2, <1>3, <1>4, <1>5 DEF BridgeInv

LEMMA TickStep ==
    ASSUME BridgeInv, Tick
    PROVE  BridgeInv'
<1>1. UNCHANGED <<clock, emitted, stream, expired, cursor, queue, nextId, instant, synced, dead,
                  published, sync, skipped, captures, faults>>
  BY DEF Tick, gateway, tables, bounds
<1>2. BreakersOK(breaker')
  <2>1. BreakersOK(breaker)
    BY DEF BridgeInv, TypeOK, BreakersOK
  <2> DEFINE p(a) == IF breaker[a].paused > 0 THEN breaker[a].paused - 1 ELSE 0
  <2>2. \A a \in Adapters : p(a) \in Nat
    BY <2>1 DEF BreakersOK
  <2>3. breaker' = [a \in Adapters |-> [breaker[a] EXCEPT !.paused = p(a)]]
    BY DEF Tick
  <2> HIDE DEF p
  <2>4. \A a \in Adapters : /\ breaker'[a] \in [outcomes: Seq(BOOLEAN), paused: Nat]
                            /\ breaker'[a].outcomes = breaker[a].outcomes
    BY <2>1, <2>2, <2>3 DEF BreakersOK
  <2>5. QED
    BY <2>1, <2>3, <2>4 DEF BreakersOK
<1>3. TypeOK'
  BY <1>1, <1>2 DEF BridgeInv, TypeOK, BreakersOK
<1>4. QED
  BY <1>1, <1>3, RestUnchanged

LEMMA TokenExpiresStep ==
    ASSUME BridgeInv, TokenExpires
    PROVE  BridgeInv'
<1>1. /\ UNCHANGED <<clock, emitted, stream, cursor, queue, nextId, instant, synced, dead,
                     published, breaker, sync, skipped, captures, faults>>
      /\ expired' = TRUE
  BY DEF TokenExpires, tables, bounds
<1>2. TypeOK'
  BY <1>1 DEF BridgeInv, TypeOK
<1>3. QED
  BY <1>1, <1>2, RestUnchanged

LEMMA RestartBridgeStep ==
    ASSUME BridgeInv, RestartBridge
    PROVE  BridgeInv'
<1>1. /\ UNCHANGED <<clock, emitted, stream, queue, nextId, instant, synced, dead, published,
                     skipped>>
      /\ cursor' = 0 /\ expired' = FALSE /\ breaker' = [a \in Adapters |-> Closed]
      /\ captures' = captures /\ faults' = faults + 1 /\ sync' = [s \in Syncs |-> Idle]
  BY DEF RestartBridge, MayFail, tables
<1>2. BreakersOK(breaker')
  <2>1. Closed \in [outcomes: Seq(BOOLEAN), paused: Nat] /\ Len(Closed.outcomes) = 0
    BY DEF Closed
  <2>2. 0 <= Window
    BY BridgeAssumption
  <2>3. QED
    BY <1>1, <2>1, <2>2 DEF BreakersOK
<1>3. TypeOK'
  <2>1. cursor' \in Nat /\ expired' \in BOOLEAN /\ sync' \in [Syncs -> Local]
    BY <1>1, IdleLocal
  <2>2. captures' \in Nat /\ faults' \in Nat
    BY <1>1 DEF BridgeInv, TypeOK
  <2>3. QED
    BY <1>1, <1>2, <2>1, <2>2 DEF BridgeInv, TypeOK, BreakersOK
<1>4. clock \in Nat /\ stream \in SUBSET Event
  BY DEF BridgeInv, TypeOK
<1>5. Timeline'
  <2>1. Known' \subseteq Known
    BY <1>1, IdleLocal DEF Known
  <2>2. QED
    BY <1>1, <1>4, <2>1, IdleLocal DEF BridgeInv, Timeline
<1>6. UniqueIds'
  BY <1>1, IdleLocal DEF BridgeInv, UniqueIds, HeldOK
<1>7. NoDocumentLost'
  <2>1. \A e \in stream : ~(e.at < 0)
    BY <1>4 DEF Event
  <2>2. QED
    BY <1>1, <2>1 DEF NoDocumentLost
<1>8. \A s \in Syncs : Relies(sync'[s], stream' \ skipped', queue', published')
  BY <1>1, IdleLocal, ReliesOnNothing
<1>9. QED
  BY <1>3, <1>5, <1>6, <1>7, <1>8 DEF BridgeInv

LEMMA RestartGatewayStep ==
    ASSUME BridgeInv, RestartGateway
    PROVE  BridgeInv'
<1>1. /\ UNCHANGED <<clock, emitted, expired, cursor, queue, nextId, instant, synced, dead,
                     published, breaker, sync, skipped>>
      /\ stream' = {} /\ captures' = captures /\ faults' = faults + 1
  BY DEF RestartGateway, MayFail, tables
<1>2. TypeOK'
  <2>1. captures' \in Nat /\ faults' \in Nat /\ stream' \in SUBSET Event
    BY <1>1 DEF BridgeInv, TypeOK
  <2>2. QED
    BY <1>1, <2>1 DEF BridgeInv, TypeOK
<1>3. Timeline'
  <2>1. Known' \subseteq Known
    BY <1>1 DEF Known
  <2>2. QED
    BY <1>1, <2>1 DEF BridgeInv, Timeline
<1>4. UniqueIds' /\ NoDocumentLost'
  BY <1>1 DEF BridgeInv, UniqueIds, NoDocumentLost
<1>5. \A s \in Syncs : Relies(sync'[s], stream' \ skipped', queue', published')
  <2>1. Keeps(queue, published, queue, published)
    BY DEF Keeps
  <2>2. {} \ skipped \subseteq stream \ skipped
    OBVIOUS
  <2>3. QED
    BY <1>1, <2>1, <2>2, ReliesStays DEF BridgeInv
<1>6. QED
  BY <1>2, <1>3, <1>4, <1>5 DEF BridgeInv

-----------------------------------------------------------------------------
(* The theorems.                                                           *)

LEMMA InitInv == Init => BridgeInv
<1> SUFFICES ASSUME Init PROVE BridgeInv
  OBVIOUS
<1> USE DEF Init
<1>1. BreakersOK(breaker)
  <2>1. Closed \in [outcomes: Seq(BOOLEAN), paused: Nat] /\ Len(Closed.outcomes) = 0
    BY DEF Closed
  <2>2. 0 <= Window
    BY BridgeAssumption
  <2>3. QED
    BY <2>1, <2>2 DEF BreakersOK
<1>2. TypeOK
  <2>1. queue \in Seq(Row)
    OBVIOUS
  <2>2. QED
    BY <1>1, <2>1, IdleLocal DEF TypeOK, BreakersOK
<1>3. Timeline
  <2>1. Known = {}
    BY IdleLocal DEF Known
  <2>2. QED
    BY <2>1, IdleLocal DEF Timeline
<1>4. UniqueIds
  <2>1. Rows(queue) = {}
    BY DEF Rows
  <2>2. Distinct(queue)
    BY DEF Distinct
  <2>3. QED
    BY <2>1, <2>2, IdleLocal DEF UniqueIds, HeldOK
<1>5. NoDocumentLost
  BY DEF NoDocumentLost
<1>6. \A s \in Syncs : Relies(sync[s], stream \ skipped, queue, published)
  BY IdleLocal, ReliesOnNothing
<1>7. QED
  BY <1>2, <1>3, <1>4, <1>5, <1>6 DEF BridgeInv

LEMMA SyncStepKeeps ==
    ASSUME BridgeInv, NEW s \in Syncs, SyncStep(s)
    PROVE  BridgeInv' /\ RowsLeavePublished
<1>1. CASE ReplayFails(s)
  <2>1. UNCHANGED <<gateway, cursor, skipped, queue, nextId, published>>
    BY <1>1 DEF ReplayFails, tables
  <2>2. SideOK'
    BY <1>1, SideKept DEF SideOK, ReplayFails, tables, bounds
  <2>3. QED
    BY <1>1, <2>1, <2>2, QueueKept, ToDequeue DEF ReplayFails
<1>2. CASE Finish(s)
  <2>1. UNCHANGED <<gateway, cursor, skipped, queue, nextId, published>>
    BY <1>2 DEF Finish, tables
  <2>2. SideOK'
    BY <1>2, SideKept DEF SideOK, Finish, tables, bounds
  <2>3. QED
    BY <1>2, <2>1, <2>2, QueueKept, ToIdle DEF Finish
<1>3. ASSUME NEW e \in sync[s].events, CaptureStep(s, e)
      PROVE  BridgeInv' /\ RowsLeavePublished
  BY <1>3, TakeEventStep, FetchStep, FetchFailsStep, EnqueueStep DEF CaptureStep
<1>4. QED
  BY <1>1, <1>2, <1>3, PollStep, ReplayStep, DequeueStep, TakeItemStep, PublishStep, SentStep,
     ItemFailsStep DEF SyncStep

LEMMA FailureKeeps ==
    ASSUME BridgeInv, NEW s \in Syncs, Failure(s)
    PROVE  BridgeInv' /\ RowsLeavePublished
<1>1. CASE CaptureFails(s)
  <2>1. UNCHANGED <<gateway, cursor, skipped, queue, nextId, published>>
    BY <1>1 DEF CaptureFails, tables
  <2>2. SideOK'
    BY <1>1, SideKept DEF SideOK, CaptureFails, MayFail, tables
  <2>3. QED
    BY <1>1, <2>1, <2>2, QueueKept, ToDequeue DEF CaptureFails
<1>2. QED
  BY <1>1, PublishFailsStep, SyncFailsStep DEF Failure

LEMMA StepInv == BridgeInv /\ [Next]_vars => BridgeInv' /\ (RowsLeavePublished \/ queue' = queue)
<1> SUFFICES ASSUME BridgeInv, [Next]_vars
             PROVE  BridgeInv' /\ (RowsLeavePublished \/ queue' = queue)
  OBVIOUS
<1>1. CASE UNCHANGED vars
  <2>1. UNCHANGED <<clock, emitted, stream, expired, cursor, queue, nextId, instant, synced, dead,
                    published, breaker, sync, skipped, captures, faults>>
    BY <1>1 DEF vars, gateway, tables, bounds
  <2>2. TypeOK'
    BY <2>1 DEF BridgeInv, TypeOK
  <2>3. QED
    BY <2>1, <2>2, RestUnchanged
<1>2. ASSUME NEW m \in Msgs, NEW type \in {"archive.appended", "message.rejected"}, Emit(m, type)
      PROVE  BridgeInv' /\ queue' = queue
  BY <1>2, EmitStep DEF Emit, tables
<1>3. CASE Tick
  BY <1>3, TickStep DEF Tick, tables
<1>4. CASE RestartBridge
  BY <1>4, RestartBridgeStep DEF RestartBridge, tables
<1>5. CASE RestartGateway
  BY <1>5, RestartGatewayStep DEF RestartGateway, tables
<1>6. CASE TokenExpires
  BY <1>6, TokenExpiresStep DEF TokenExpires, tables
<1>7. QED
  BY <1>1, <1>2, <1>3, <1>4, <1>5, <1>6, SyncStepKeeps, FailureKeeps DEF Next

\* The inductive invariant holds in every reachable state of the bridge, for
\* any number of overlapping runs of syncOnce, failures and restarts.
THEOREM BridgeInvariant == Spec => []BridgeInv
BY InitInv, StepInv, PTL DEF Spec

\* The rows, the runs and the breakers are well formed; in particular a breaker
\* never counts more than the last Window outcomes (recordFailure, recordSuccess).
THEOREM BridgeTypeOK == Spec => []TypeOK
<1>1. BridgeInv => TypeOK
  BY DEF BridgeInv
<1>2. QED
  BY <1>1, BridgeInvariant, PTL

\* Every document the bridge could fetch and whose event is behind the cursor
\* of captureOutboundEvents is queued or published, for every adapter.
THEOREM NoDocumentIsLost == Spec => []NoDocumentLost
<1>1. BridgeInv => NoDocumentLost
  BY DEF BridgeInv
<1>2. QED
  BY <1>1, BridgeInvariant, PTL

\* A row leaves bridge_outbound_queue only once its document was published.
THEOREM QueueIsDurable == Spec => QueueDurable
<1>1. BridgeInv /\ [Next]_vars => [RowsLeavePublished]_queue
  BY StepInv
<1>2. QED
  BY <1>1, BridgeInvariant, PTL DEF Spec, QueueDurable
=============================================================================
