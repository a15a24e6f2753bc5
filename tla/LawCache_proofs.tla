--------------------------- MODULE LawCache_proofs ---------------------------
(***************************************************************************)
(* Proof that the resolvers' staleness is bounded by their TTL, for any    *)
(* documents, laws, readers and writers, with either archive.              *)
(***************************************************************************)
EXTENDS LawCache, TLAPS

\* The archive answers with one of its rows, nothing, or the ambiguity error.
LEMMA ResolveType ==
    ASSUME NEW s, DOMAIN s \subseteq Docs, NEW k, NEW instant,
           Resolve(s, k, instant) # Ambiguous
    PROVE  Resolve(s, k, instant) \in Answers
BY DEF Resolve, First, Candidates, Answers

\* What was read since an instant was read since any earlier one.
LEMMA ReadSinceEarlier ==
    ASSUME NEW sa, sa \in [DOMAIN sa -> Nat], NEW n \in Nat, NEW v, NEW k,
           NEW since \in Int, NEW earlier \in Int, earlier <= since,
           ReadSince(sa, n, v, k, since)
    PROVE  ReadSince(sa, n, v, k, earlier)
<1>1. PICK s \in SUBSET DOMAIN sa :
        /\ \A d \in DOMAIN sa : sa[d] < since => d \in s
        /\ \E instant \in 0..n : v = Resolve([d \in s |-> sa[d]], k, instant)
  BY DEF ReadSince
<1>2. \A d \in DOMAIN sa : sa[d] < earlier => d \in s
  <2>1. \A d \in DOMAIN sa : sa[d] \in Nat
    OBVIOUS
  <2>2. QED
    BY <1>1, <2>1
<1>3. QED
  BY <1>1, <1>2 DEF ReadSince

\* An answer the archive gives now was read since any instant.
LEMMA ReadNow ==
    ASSUME NEW sa, sa \in [DOMAIN sa -> Nat], NEW n \in Nat, NEW k,
           NEW instant \in 0..n, NEW since
    PROVE  ReadSince(sa, n, Resolve(sa, k, instant), k, since)
<1>1. sa = [d \in DOMAIN sa |-> sa[d]]
  OBVIOUS
<1>2. DOMAIN sa \in SUBSET DOMAIN sa
  OBVIOUS
<1>3. QED
  BY <1>1, <1>2 DEF ReadSince

\* The clock moves on or a document is sealed: answers read since an instant
\* that has passed stay so.
LEMMA ReadSinceStable ==
    ASSUME NEW sa, NEW sb, DOMAIN sa \subseteq DOMAIN sb,
           \A d \in DOMAIN sa : sb[d] = sa[d],
           NEW n \in Nat, NEW m \in Nat, n <= m,
           NEW since \in Int, since <= n,
           \A d \in DOMAIN sb \ DOMAIN sa : sb[d] = n,
           NEW v, NEW k, ReadSince(sa, n, v, k, since)
    PROVE  ReadSince(sb, m, v, k, since)
<1>1. PICK s \in SUBSET DOMAIN sa :
        /\ \A d \in DOMAIN sa : sa[d] < since => d \in s
        /\ \E instant \in 0..n : v = Resolve([d \in s |-> sa[d]], k, instant)
  BY DEF ReadSince
<1>2. PICK instant \in 0..n : v = Resolve([d \in s |-> sa[d]], k, instant)
  BY <1>1
<1>3. [d \in s |-> sa[d]] = [d \in s |-> sb[d]]
  OBVIOUS
<1>4. v = Resolve([d \in s |-> sb[d]], k, instant)
  BY <1>2, <1>3
<1>5. instant \in 0..m
  OBVIOUS
<1>6. \A d \in DOMAIN sb : sb[d] < since => d \in s
  BY <1>1
<1>7. s \in SUBSET DOMAIN sb
  OBVIOUS
<1>8. QED
  BY <1>4, <1>5, <1>6, <1>7 DEF ReadSince

\* Lookups and entries survive the clock and the writers.
LEMMA KeptOK ==
    ASSUME NEW sa, NEW sb, DOMAIN sa \subseteq DOMAIN sb,
           \A d \in DOMAIN sa : sb[d] = sa[d],
           NEW n \in Nat, NEW m \in Nat, n <= m,
           \A d \in DOMAIN sb \ DOMAIN sa : sb[d] = n
    PROVE  /\ \A l \in Lookup : LookupOK(l, sa, n) => LookupOK(l, sb, m)
           /\ \A e \in Entry, k \in Keys : EntryOK(e, k, sa, n) => EntryOK(e, k, sb, m)
<1>1. Ttl \in Nat
  BY LawAssumption
<1>2. ASSUME NEW l \in Lookup, LookupOK(l, sa, n)
      PROVE  LookupOK(l, sb, m)
  <2>1. /\ l.asOf \in Nat /\ l.since \in Nat /\ l.asOf <= n /\ l.since <= n
        /\ l.since - Ttl \in Int /\ l.since - Ttl <= n
    BY <1>1, <1>2 DEF Lookup, LookupOK
  <2>2. l.at = "served" => ReadSince(sb, m, l.value, l.key, l.since - Ttl)
    <3>1. l.at = "served" => ReadSince(sa, n, l.value, l.key, l.since - Ttl)
      BY <1>2 DEF LookupOK
    <3>2. QED
      BY <2>1, <3>1, ReadSinceStable
  <2>3. l.at = "fill" => ReadSince(sb, m, l.value, l.key, l.since)
    <3>1. l.at = "fill" => ReadSince(sa, n, l.value, l.key, l.since)
      BY <1>2 DEF LookupOK
    <3>2. QED
      BY <2>1, <3>1, ReadSinceStable
  <2>4. QED
    BY <2>1, <2>2, <2>3 DEF LookupOK
<1>3. ASSUME NEW e \in Entry, NEW k \in Keys, EntryOK(e, k, sa, n)
      PROVE  EntryOK(e, k, sb, m)
  <2>1. e.expires - Ttl \in Int /\ e.expires - Ttl <= n
    BY <1>1, <1>3 DEF Entry, EntryOK
  <2>2. ReadSince(sb, m, e.value, k, e.expires - Ttl)
    BY <1>3, <2>1, ReadSinceStable DEF EntryOK
  <2>3. QED
    BY <2>1, <2>2 DEF EntryOK
<1>4. QED
  BY <1>2, <1>3

\* One reader moves to the lookup l; clock and index stay.
LEMMA ReaderStep ==
    ASSUME CacheInv, NEW r \in Readers, NEW l \in Lookup,
           reader' = [reader EXCEPT ![r] = l], LookupOK(l, sealedAt, now),
           UNCHANGED <<now, sealedAt, writer>>,
           DOMAIN cache' \subseteq Keys, cache' \in [DOMAIN cache' -> Entry],
           \A k \in DOMAIN cache' : EntryOK(cache'[k], k, sealedAt, now)
    PROVE  CacheInv'
<1>1. TypeOK'
  BY DEF CacheInv, TypeOK
<1>2. \A q \in Readers : LookupOK(reader'[q], sealedAt, now)
  BY DEF CacheInv, TypeOK
<1>3. QED
  BY <1>1, <1>2 DEF CacheInv

\* Storing an answer read since the lookup that asked for it.
LEMMA StoreOK ==
    ASSUME CacheInv, NEW k \in Keys, NEW v \in Answers, NEW since \in Nat, since <= now,
           ReadSince(sealedAt, now, v, k, since), Store(k, v, since + Ttl)
    PROVE  /\ DOMAIN cache' \subseteq Keys /\ cache' \in [DOMAIN cache' -> Entry]
           /\ \A x \in DOMAIN cache' : EntryOK(cache'[x], x, sealedAt, now)
<1> DEFINE e == [value |-> v, expires |-> since + Ttl]
<1>1. Ttl \in Nat
  BY LawAssumption
<1>2. e \in Entry /\ e.expires - Ttl = since /\ e.value = v
  BY <1>1 DEF Entry
<1>3. EntryOK(e, k, sealedAt, now)
  BY <1>2 DEF EntryOK
<1> HIDE DEF e
<1>4. cache' = [x \in DOMAIN cache \cup {k} |-> IF x = k THEN e ELSE cache[x]]
  BY DEF Store, e
<1>5. DOMAIN cache' = DOMAIN cache \cup {k}
  BY <1>4
<1>6. \A x \in DOMAIN cache' : cache'[x] = IF x = k THEN e ELSE cache[x]
  BY <1>4
<1>7. \A x \in DOMAIN cache' : cache'[x] \in Entry /\ EntryOK(cache'[x], x, sealedAt, now)
  BY <1>2, <1>3, <1>5, <1>6 DEF CacheInv, TypeOK
<1>8. cache' \in [DOMAIN cache' -> Entry]
  BY <1>4, <1>5, <1>7
<1>9. QED
  BY <1>5, <1>7, <1>8 DEF CacheInv, TypeOK

\* The steps of a reader keep the invariant.
LEMMA LookupStep ==
    ASSUME CacheInv, NEW r \in Readers, NEW k \in Keys,
           \/ Snapshot(r) \/ Query(r) \/ Fill(r) \/ Use(r)
           \/ Hit(r, k) \/ Miss(r, k) \/ MissSync(r, k)
    PROVE  CacheInv'
<1>1. /\ now \in Nat /\ Ttl \in Nat /\ reader \in [Readers -> Lookup] /\ reader[r] \in Lookup
      /\ LookupOK(reader[r], sealedAt, now)
      /\ sealedAt \in [DOMAIN sealedAt -> Nat] /\ DOMAIN sealedAt \subseteq Docs
      /\ DOMAIN cache \subseteq Keys /\ cache \in [DOMAIN cache -> Entry]
      /\ \A x \in DOMAIN cache : EntryOK(cache[x], x, sealedAt, now)
  BY LawAssumption DEF CacheInv, TypeOK
<1>2. reader[r].key \in Keys /\ reader[r].asOf \in 0..now /\ reader[r].since \in 0..now
  BY <1>1 DEF Lookup, LookupOK
<1>3. Idle \in Lookup /\ LookupOK(Idle, sealedAt, now)
  BY <1>1, LawAssumption DEF Idle, Lookup, LookupOK, Answers
<1>4. CASE Snapshot(r)
  <2> DEFINE l == [reader[r] EXCEPT !.at = "ready", !.asOf = now]
  <2>1. l \in Lookup /\ LookupOK(l, sealedAt, now)
    <3>1. l \in Lookup
      BY <1>1 DEF Lookup
    <3>2. l.at = "ready" /\ l.asOf = now /\ l.since = reader[r].since
      BY <1>1 DEF Lookup
    <3> HIDE DEF l
    <3>3. QED
      BY <1>1, <1>2, <3>1, <3>2 DEF LookupOK
  <2>2. reader' = [reader EXCEPT ![r] = l]
    BY <1>1, <1>4 DEF Snapshot
  <2>3. QED
    BY <1>1, <1>4, <2>1, <2>2, ReaderStep DEF Snapshot
<1>5. CASE Query(r)
  <2> DEFINE v == Resolve(sealedAt, reader[r].key, reader[r].asOf)
             l == [reader[r] EXCEPT !.at = "fill", !.value = v]
  <2>1. CASE v = Ambiguous
    <3>1. reader' = [reader EXCEPT ![r] = Idle]
      BY <1>5, <2>1 DEF Query
    <3>2. QED
      BY <1>1, <1>3, <1>5, <3>1, ReaderStep DEF Query
  <2>2. CASE v # Ambiguous
    <3>1. v \in Answers
      BY <1>1, <2>2, ResolveType
    <3>2. ReadSince(sealedAt, now, v, reader[r].key, reader[r].since)
      BY <1>1, <1>2, ReadNow
    <3>3. reader' = [reader EXCEPT ![r] = l]
      BY <1>5, <2>2 DEF Query
    <3> HIDE DEF v
    <3>4. l \in Lookup
      BY <1>1, <3>1 DEF Lookup
    <3>5. LookupOK(l, sealedAt, now)
      BY <1>1, <1>2, <3>2 DEF Lookup, LookupOK
    <3>6. QED
      BY <1>1, <1>5, <3>3, <3>4, <3>5, ReaderStep DEF Query
  <2>3. QED
    BY <2>1, <2>2
<1>6. CASE Fill(r)
  <2> DEFINE l == [reader[r] EXCEPT !.at = "served"]
  <2>1. ReadSince(sealedAt, now, reader[r].value, reader[r].key, reader[r].since)
    BY <1>1, <1>6 DEF Fill, LookupOK
  <2>2. ReadSince(sealedAt, now, reader[r].value, reader[r].key, reader[r].since - Ttl)
    <3>1. /\ reader[r].since \in Int /\ reader[r].since - Ttl \in Int
          /\ reader[r].since - Ttl <= reader[r].since
      BY <1>1, <1>2
    <3>2. QED
      BY <1>1, <2>1, <3>1, ReadSinceEarlier
  <2>3. l \in Lookup /\ LookupOK(l, sealedAt, now)
    BY <1>1, <1>2, <2>2 DEF Lookup, LookupOK
  <2>4. reader' = [reader EXCEPT ![r] = l]
    BY <1>1, <1>6 DEF Fill
  <2>5. reader[r].value \in Answers /\ reader[r].since \in Nat /\ reader[r].since <= now
    BY <1>1, <1>2 DEF Lookup
  <2>6. /\ DOMAIN cache' \subseteq Keys /\ cache' \in [DOMAIN cache' -> Entry]
        /\ \A x \in DOMAIN cache' : EntryOK(cache'[x], x, sealedAt, now)
    BY <1>2, <1>6, <2>1, <2>5, StoreOK DEF Fill
  <2>7. QED
    BY <1>6, <2>3, <2>4, <2>6, ReaderStep DEF Fill
<1>7. CASE Use(r)
  <2> DEFINE l == [Idle EXCEPT !.at = "ready", !.asOf = reader[r].asOf]
  <2>1. l \in Lookup /\ LookupOK(l, sealedAt, now)
    BY <1>1, <1>2, <1>3 DEF Lookup, LookupOK, Idle
  <2>2. reader' = [reader EXCEPT ![r] = l] \/ reader' = [reader EXCEPT ![r] = Idle]
    BY <1>7 DEF Use
  <2>3. QED
    BY <1>1, <1>3, <1>7, <2>1, <2>2, ReaderStep DEF Use
<1>8. CASE Hit(r, k)
  <2> DEFINE l == [reader[r] EXCEPT !.at = "served", !.key = k, !.since = now,
                                    !.value = cache[k].value]
  <2>1. k \in DOMAIN cache /\ cache[k].expires > now
    BY <1>8 DEF Hit, Fresh
  <2>2. cache[k] \in Entry /\ EntryOK(cache[k], k, sealedAt, now)
    BY <1>1, <2>1
  <2>3. ReadSince(sealedAt, now, cache[k].value, k, now - Ttl)
    <3>1. /\ cache[k].expires - Ttl \in Int /\ now - Ttl \in Int
          /\ now - Ttl <= cache[k].expires - Ttl
      BY <1>1, <2>1, <2>2 DEF Entry
    <3>2. QED
      BY <1>1, <2>2, <3>1, ReadSinceEarlier DEF EntryOK
  <2>4. l \in Lookup
    BY <1>1, <2>2 DEF Lookup, Entry
  <2>5. LookupOK(l, sealedAt, now)
    BY <1>1, <1>2, <2>3 DEF Lookup, LookupOK
  <2>6. reader' = [reader EXCEPT ![r] = l]
    BY <1>1, <1>8 DEF Hit
  <2>7. QED
    BY <1>1, <1>8, <2>4, <2>5, <2>6, ReaderStep DEF Hit
<1>9. CASE Miss(r, k)
  <2> DEFINE l == [reader[r] EXCEPT !.at = "query", !.key = k, !.since = now]
  <2>1. l \in Lookup /\ LookupOK(l, sealedAt, now)
    <3>1. l \in Lookup
      BY <1>1 DEF Lookup
    <3>2. l.at = "query" /\ l.since = now /\ l.asOf = reader[r].asOf
      BY <1>1 DEF Lookup
    <3> HIDE DEF l
    <3>3. QED
      BY <1>1, <1>2, <3>1, <3>2 DEF LookupOK
  <2>2. reader' = [reader EXCEPT ![r] = l]
    BY <1>1, <1>9 DEF Miss
  <2>3. QED
    BY <1>1, <1>9, <2>1, <2>2, ReaderStep DEF Miss
<1>10. CASE MissSync(r, k)
  <2> DEFINE v == Resolve(sealedAt, k, reader[r].asOf)
             l == [reader[r] EXCEPT !.at = "served", !.key = k, !.since = now, !.value = v]
  <2>1. CASE v = Ambiguous
    <3>1. reader' = [reader EXCEPT ![r] = Idle] /\ UNCHANGED cache
      BY <1>10, <2>1 DEF MissSync
    <3>2. QED
      BY <1>1, <1>3, <1>10, <3>1, ReaderStep DEF MissSync
  <2>2. CASE v # Ambiguous
    <3>1. v \in Answers
      BY <1>1, <2>2, ResolveType
    <3>2. \A since : ReadSince(sealedAt, now, v, k, since)
      BY <1>1, <1>2, ReadNow
    <3>3. reader' = [reader EXCEPT ![r] = l] /\ Store(k, v, now + Ttl)
      BY <1>1, <1>10, <2>2 DEF MissSync
    <3> HIDE DEF v
    <3>4. l \in Lookup
      BY <1>1, <3>1 DEF Lookup
    <3>5. LookupOK(l, sealedAt, now)
      BY <1>1, <1>2, <3>2 DEF Lookup, LookupOK
    <3>6. /\ DOMAIN cache' \subseteq Keys /\ cache' \in [DOMAIN cache' -> Entry]
          /\ \A x \in DOMAIN cache' : EntryOK(cache'[x], x, sealedAt, now)
      BY <1>1, <3>1, <3>2, <3>3, StoreOK
    <3>7. QED
      BY <1>10, <3>3, <3>4, <3>5, <3>6, ReaderStep DEF MissSync
  <2>3. QED
    BY <2>1, <2>2
<1>11. QED
  BY <1>4, <1>5, <1>6, <1>7, <1>8, <1>9, <1>10

\* The clock and the writers keep the invariant.
LEMMA WriterStep ==
    ASSUME CacheInv,
           Tick \/ \E w \in Writers : Invalidate(w) \/ \E d \in Docs : Archive(w, d)
    PROVE  CacheInv'
<1>1. /\ now \in Nat /\ reader \in [Readers -> Lookup]
      /\ \A r \in Readers : LookupOK(reader[r], sealedAt, now)
      /\ sealedAt \in [DOMAIN sealedAt -> Nat] /\ DOMAIN sealedAt \subseteq Docs
      /\ DOMAIN cache \subseteq Keys /\ cache \in [DOMAIN cache -> Entry]
      /\ \A x \in DOMAIN cache : EntryOK(cache[x], x, sealedAt, now)
      /\ writer \in [Writers -> Docs \cup {0}]
  BY DEF CacheInv, TypeOK
<1>2. CASE Tick
  <2>1. now' \in Nat /\ now <= now' /\ UNCHANGED <<sealedAt, cache, reader, writer>>
    BY <1>1, <1>2 DEF Tick
  <2>2. \A r \in Readers : LookupOK(reader[r], sealedAt, now')
    BY <1>1, <2>1, KeptOK
  <2>3. \A x \in DOMAIN cache : EntryOK(cache[x], x, sealedAt, now')
    BY <1>1, <2>1, KeptOK
  <2>4. QED
    BY <1>1, <2>1, <2>2, <2>3 DEF CacheInv, TypeOK
<1>3. ASSUME NEW w \in Writers, NEW d \in Docs, Archive(w, d)
      PROVE  CacheInv'
  <2>1. /\ sealedAt' = [x \in DOMAIN sealedAt \cup {d} |-> IF x = d THEN now ELSE sealedAt[x]]
        /\ d \notin DOMAIN sealedAt
        /\ UNCHANGED <<now, cache, reader>>
        /\ writer' \in [Writers -> Docs \cup {0}]
    BY <1>1, <1>3 DEF Archive
  <2>2. /\ DOMAIN sealedAt' = DOMAIN sealedAt \cup {d}
        /\ \A x \in DOMAIN sealedAt : sealedAt'[x] = sealedAt[x]
        /\ \A x \in DOMAIN sealedAt' \ DOMAIN sealedAt : sealedAt'[x] = now
        /\ sealedAt' \in [DOMAIN sealedAt' -> Nat]
    BY <1>1, <2>1
  <2>3. /\ \A l \in Lookup : LookupOK(l, sealedAt, now) => LookupOK(l, sealedAt', now)
        /\ \A e \in Entry, k \in Keys :
            EntryOK(e, k, sealedAt, now) => EntryOK(e, k, sealedAt', now)
    BY <1>1, <2>2, KeptOK
  <2>4. \A r \in Readers : LookupOK(reader[r], sealedAt', now)
    BY <1>1, <2>3
  <2>5. \A x \in DOMAIN cache : EntryOK(cache[x], x, sealedAt', now)
    BY <1>1, <2>3
  <2>6. QED
    BY <1>1, <2>1, <2>2, <2>4, <2>5 DEF CacheInv, TypeOK
<1>4. ASSUME NEW w \in Writers, Invalidate(w)
      PROVE  CacheInv'
  <2>1. /\ DOMAIN cache' \subseteq DOMAIN cache
        /\ \A x \in DOMAIN cache' : cache'[x] = cache[x]
        /\ cache' = [x \in DOMAIN cache' |-> cache'[x]]
    BY <1>1, <1>4 DEF Invalidate
  <2>2. cache' \in [DOMAIN cache' -> Entry]
    BY <1>1, <2>1
  <2>3. UNCHANGED <<now, sealedAt, reader>> /\ writer' \in [Writers -> Docs \cup {0}]
    BY <1>1, <1>4 DEF Invalidate
  <2>4. QED
    BY <1>1, <2>1, <2>2, <2>3 DEF CacheInv, TypeOK
<1>5. QED
  BY <1>2, <1>3, <1>4

\* The empty caches satisfy the invariant.
LEMMA InitCacheInv == Init => CacheInv
<1> SUFFICES ASSUME Init PROVE CacheInv
  OBVIOUS
<1>1. Idle \in Lookup /\ LookupOK(Idle, sealedAt, 0)
  BY LawAssumption DEF Idle, Lookup, LookupOK, Answers
<1>2. TypeOK
  BY <1>1, LawAssumption DEF Init, TypeOK
<1>3. QED
  BY <1>1, <1>2 DEF Init, CacheInv

\* Every step keeps it.
LEMMA NextCacheInv == CacheInv /\ [Next]_vars => CacheInv'
<1> SUFFICES ASSUME CacheInv, [Next]_vars PROVE CacheInv'
  OBVIOUS
<1>1. CASE Next
  <2>1. AnyKey \in Keys
    BY LawAssumption
  <2>2. QED
    BY <1>1, <2>1, LookupStep, WriterStep DEF Next
<1>2. CASE UNCHANGED vars
  BY <1>2 DEF vars, CacheInv, TypeOK
<1>3. QED
  BY <1>1, <1>2

\* A law served or cached is never older than the TTL allows, whatever the
\* interleaving of lookups, archiving, invalidations and the clock.
THEOREM StalenessIsBounded == Spec => []BoundedStaleness
<1>1. CacheInv => BoundedStaleness
  BY DEF CacheInv, BoundedStaleness, LookupOK, EntryOK
<1>2. QED
  BY <1>1, InitCacheInv, NextCacheInv, PTL DEF Spec

\* Type correctness of the resolvers; in particular no error is ever cached.
THEOREM LawCacheTypeOK == Spec => []TypeOK
<1>1. CacheInv => TypeOK
  BY DEF CacheInv
<1>2. QED
  BY <1>1, InitCacheInv, NextCacheInv, PTL DEF Spec

\* The instants and answers the resolvers keep: none lies in the future, and
\* an answer on its way was read since its lookup.
THEOREM CacheInvariant == Spec => []CacheInv
BY InitCacheInv, NextCacheInv, PTL DEF Spec

-----------------------------------------------------------------------------
(* The synchronous archive: an edict takes effect at once.                 *)

\* No lookup waits for the archive.  A document that a writer has archived but
\* not yet invalidated is in the index.  What is cached for a law type was read
\* from the index as it is, unless a writer is about to invalidate it or a
\* ti_definition shares the key.
IndexRead ==
    /\ \A w \in Writers : writer[w] # 0 => writer[w] \in DOMAIN sealedAt
    /\ EdictAppliedAtOnce

NoneWaits == \A r \in Readers : reader[r].at \notin {"query", "fill"}

AtOnceInv == NoneWaits /\ IndexRead

\* The documents of other keys do not take part in a lookup.
LEMMA OtherKey ==
    ASSUME NEW s, DOMAIN s \subseteq Docs, NEW d \in Docs, d \notin DOMAIN s,
           NEW t, DOMAIN t = DOMAIN s \cup {d}, \A x \in DOMAIN s : t[x] = s[x],
           NEW k, Key[d] # k, NEW instant
    PROVE  Resolve(t, k, instant) = Resolve(s, k, instant)
<1> DEFINE c == Candidates(s, k, instant)
<1>1. \A x \in DOMAIN s : InForce(t, x, instant) <=> InForce(s, x, instant)
  BY DEF InForce
<1>2. Candidates(t, k, instant) = c
  BY <1>1 DEF Candidates
<1>3. c \subseteq DOMAIN s
  BY DEF Candidates
<1>4. \A x \in DOMAIN s : Rank(t, x) = Rank(s, x)
  BY DEF Rank
<1>5. \A x, y \in DOMAIN s : Before(t, x, y) <=> Before(s, x, y)
  BY <1>4 DEF Before
<1> HIDE DEF c
<1>6. \A b \in SUBSET DOMAIN s : First(t, b) = First(s, b)
  BY <1>5 DEF First
<1>7. /\ First(t, c) = First(s, c)
      /\ \A x : First(t, c \ {x}) = First(s, c \ {x})
  BY <1>3, <1>6
<1>8. /\ First(s, c) \subseteq DOMAIN s
      /\ \A x : First(s, c \ {x}) \subseteq DOMAIN s
  BY <1>3 DEF First
<1>9. CASE First(s, c) = {}
  BY <1>2, <1>7, <1>9 DEF Resolve, c
<1>10. CASE First(s, c) # {}
  <2> DEFINE top == CHOOSE x \in First(s, c) : TRUE
  <2>1. top \in DOMAIN s
    BY <1>8, <1>10
  <2> HIDE DEF top
  <2>2. (\E e \in First(t, c \ {top}) : Rank(t, e) = Rank(t, top))
          <=> (\E e \in First(s, c \ {top}) : Rank(s, e) = Rank(s, top))
    BY <1>4, <1>7, <1>8, <2>1
  <2>3. QED
    BY <1>2, <1>7, <1>10, <2>2 DEF Resolve, c, top
<1>11. QED
  BY <1>9, <1>10

\* The clock, and the steps that leave the cache, the index and the writers
\* alone: an instant that was in the past stays there.
LEMMA AtOnceStill ==
    ASSUME CacheInv, IndexRead, UNCHANGED <<sealedAt, cache, writer>>,
           now' \in Nat, now <= now'
    PROVE  IndexRead'
<1>1. \A w \in Writers : writer'[w] # 0 => writer'[w] \in DOMAIN sealedAt'
  BY DEF IndexRead
<1>2. now \in Nat
  BY DEF CacheInv, TypeOK
<1>3. 0 .. now \subseteq 0 .. now'
  BY <1>2
<1>4. EdictAppliedAtOnce'
  BY <1>3 DEF IndexRead, EdictAppliedAtOnce
<1>5. QED
  BY <1>1, <1>4 DEF IndexRead

\* The steps that change the cache or the index, one by one.
LEMMA AtOnceStep ==
    ASSUME SyncArchive, CacheInv, AtOnceInv, [Next]_vars
    PROVE  IndexRead'
<1> USE DEF AtOnceInv
<1>1. /\ now \in Nat /\ Ttl \in Nat /\ reader \in [Readers -> Lookup]
      /\ \A r \in Readers : LookupOK(reader[r], sealedAt, now)
      /\ DOMAIN sealedAt \subseteq Docs
      /\ writer \in [Writers -> Docs \cup {0}]
  BY LawAssumption DEF CacheInv, TypeOK
<1>2. CASE Tick
  BY <1>1, <1>2, AtOnceStill DEF Tick
<1>3. ASSUME NEW r \in Readers, NEW k \in Keys, MissSync(r, k)
      PROVE  IndexRead'
  <2> DEFINE v == Resolve(sealedAt, k, reader[r].asOf)
  <2>1. UNCHANGED <<now, sealedAt, writer>>
    BY <1>3 DEF MissSync
  <2>2. reader[r].asOf \in 0 .. now
    BY <1>1 DEF Lookup, LookupOK
  <2>3. CASE v = Ambiguous
    BY <1>1, <1>3, <2>1, <2>3, AtOnceStill DEF MissSync
  <2>4. CASE v # Ambiguous
    <3>1. Store(k, v, now + Ttl)
      BY <1>3, <2>4 DEF MissSync
    <3> HIDE DEF v
    <3>2. \A x \in DOMAIN cache' :
            IF x = k THEN cache'[x].value = v ELSE x \in DOMAIN cache /\ cache'[x] = cache[x]
      BY <3>1 DEF Store
    <3>3. \E instant \in 0 .. now : v = Resolve(sealedAt, k, instant)
      BY <2>2 DEF v
    <3>4. EdictAppliedAtOnce'
      BY <2>1, <3>2, <3>3 DEF IndexRead, EdictAppliedAtOnce
    <3>5. QED
      BY <2>1, <3>4 DEF IndexRead
  <2>5. QED
    BY <2>3, <2>4
<1>4. ASSUME NEW w \in Writers, NEW d \in Docs, Archive(w, d)
      PROVE  IndexRead'
  <2>1. /\ writer[w] = 0 /\ d \notin DOMAIN sealedAt
        /\ sealedAt' = [x \in DOMAIN sealedAt \cup {d} |-> IF x = d THEN now ELSE sealedAt[x]]
        /\ writer' = [writer EXCEPT ![w] = d]
        /\ UNCHANGED <<now, cache>>
    BY <1>4 DEF Archive
  <2>2. /\ DOMAIN sealedAt' = DOMAIN sealedAt \cup {d}
        /\ \A u \in Writers : writer'[u] = IF u = w THEN d ELSE writer[u]
    BY <1>1, <2>1
  <2>3. d # 0
    BY LawAssumption
  <2>4. \A u \in Writers : writer'[u] # 0 => writer'[u] \in DOMAIN sealedAt'
    BY <2>2 DEF IndexRead
  <2>5. ASSUME NEW k \in DOMAIN cache,
               ~(\E u \in Writers : writer'[u] # 0 /\ Key[writer'[u]] = k),
               \A x \in DOMAIN sealedAt' : Key[x] = k => x \in Edicts
        PROVE  \E instant \in 0 .. now : cache[k].value = Resolve(sealedAt', k, instant)
    <3>1. Key[d] # k
      BY <2>2, <2>3, <2>5
    <3>2. ~(\E u \in Writers : writer[u] # 0 /\ Key[writer[u]] = k)
      BY <2>1, <2>2, <2>5
    <3>3. \A x \in DOMAIN sealedAt : Key[x] = k => x \in Edicts
      BY <2>2, <2>5
    <3>4. PICK instant \in 0 .. now : cache[k].value = Resolve(sealedAt, k, instant)
      BY <3>2, <3>3 DEF IndexRead, EdictAppliedAtOnce
    <3>5. /\ DOMAIN sealedAt' = DOMAIN sealedAt \cup {d}
          /\ \A x \in DOMAIN sealedAt : sealedAt'[x] = sealedAt[x]
      BY <2>1
    <3>6. Resolve(sealedAt', k, instant) = Resolve(sealedAt, k, instant)
      BY <1>1, <2>1, <3>1, <3>5, OtherKey
    <3>7. QED
      BY <3>4, <3>6
  <2>6. EdictAppliedAtOnce'
    BY <2>1, <2>5 DEF EdictAppliedAtOnce
  <2>7. QED
    BY <2>4, <2>6 DEF IndexRead
<1>5. ASSUME NEW w \in Writers, Invalidate(w)
      PROVE  IndexRead'
  <2> DEFINE d == writer[w]
  <2>1. /\ d # 0 /\ writer' = [writer EXCEPT ![w] = 0] /\ UNCHANGED <<now, sealedAt>>
    BY <1>5 DEF Invalidate
  <2>2. d \in Docs /\ d \in DOMAIN sealedAt
    BY <1>1, <2>1 DEF IndexRead
  <2>3. \A u \in Writers : writer'[u] = IF u = w THEN 0 ELSE writer[u]
    BY <1>1, <2>1
  <2>4. \A x \in DOMAIN cache' :
          /\ x \in DOMAIN cache /\ cache'[x] = cache[x]
          /\ d \in Edicts => x # Key[d]
    BY <1>5 DEF Invalidate, Invalidates
  <2>5. ASSUME NEW k \in DOMAIN cache',
               ~(\E u \in Writers : writer'[u] # 0 /\ Key[writer'[u]] = k),
               \A x \in DOMAIN sealedAt : Key[x] = k => x \in Edicts
        PROVE  \E instant \in 0 .. now : cache'[k].value = Resolve(sealedAt, k, instant)
    <3>1. Key[d] # k
      BY <2>2, <2>4, <2>5
    <3>2. ~(\E u \in Writers : writer[u] # 0 /\ Key[writer[u]] = k)
      BY <2>3, <2>5, <3>1
    <3>3. QED
      BY <2>4, <2>5, <3>2 DEF IndexRead, EdictAppliedAtOnce
  <2>6. EdictAppliedAtOnce'
    BY <2>1, <2>5 DEF EdictAppliedAtOnce
  <2>7. QED
    BY <2>1, <2>3, <2>6 DEF IndexRead
<1>6. ASSUME NEW r \in Readers, NEW k \in Keys,
             Snapshot(r) \/ Query(r) \/ Use(r) \/ Hit(r, k) \/ Miss(r, k)
      PROVE  IndexRead'
  BY <1>1, <1>6, AtOnceStill DEF Snapshot, Query, Use, Hit, Miss
<1>7. ASSUME NEW r \in Readers, Fill(r)
      PROVE  FALSE
  BY <1>7 DEF Fill, AtOnceInv, NoneWaits
<1>8. CASE UNCHANGED vars
  BY <1>1, <1>8, AtOnceStill DEF vars
<1>9. AnyKey \in Keys
  BY LawAssumption
<1>10. QED
  BY <1>2, <1>3, <1>4, <1>5, <1>6, <1>7, <1>8, <1>9 DEF Next

\* With a synchronous archive a lookup is served in the step that starts it.
LEMMA NoneWaitsStep ==
    ASSUME SyncArchive, TypeOK, NoneWaits, [Next]_vars
    PROVE  NoneWaits'
<1>1. reader \in [Readers -> Lookup]
  BY DEF TypeOK
<1>2. ASSUME NEW r \in Readers, NEW l, l.at \notin {"query", "fill"},
             reader' = [reader EXCEPT ![r] = l]
      PROVE  NoneWaits'
  BY <1>1, <1>2 DEF NoneWaits
<1>3. Idle.at = "idle"
  BY DEF Idle
<1>4. ASSUME NEW r \in Readers, Snapshot(r)
      PROVE  NoneWaits'
  <2>1. reader' = [reader EXCEPT ![r] = [reader[r] EXCEPT !.at = "ready", !.asOf = now]]
    BY <1>1, <1>4 DEF Snapshot
  <2>2. [reader[r] EXCEPT !.at = "ready", !.asOf = now].at = "ready"
    BY <1>1 DEF Lookup
  <2>3. QED
    BY <1>2, <2>1, <2>2
<1>5. ASSUME NEW r \in Readers, NEW k \in Keys, Hit(r, k) \/ MissSync(r, k)
      PROVE  NoneWaits'
  <2> DEFINE l(v) == [reader[r] EXCEPT !.at = "served", !.key = k, !.since = now, !.value = v]
  <2>1. \/ reader' = [reader EXCEPT ![r] = Idle]
        \/ reader' = [reader EXCEPT ![r] = l(cache[k].value)]
        \/ reader' = [reader EXCEPT ![r] = l(Resolve(sealedAt, k, reader[r].asOf))]
    BY <1>1, <1>5 DEF Hit, MissSync
  <2>2. \A v : l(v).at = "served"
    BY <1>1 DEF Lookup
  <2> HIDE DEF l
  <2>3. QED
    BY <1>2, <1>3, <2>1, <2>2
<1>6. ASSUME NEW r \in Readers, Use(r)
      PROVE  NoneWaits'
  <2> DEFINE l == [Idle EXCEPT !.at = "ready", !.asOf = reader[r].asOf]
  <2>1. reader' = [reader EXCEPT ![r] = l] \/ reader' = [reader EXCEPT ![r] = Idle]
    BY <1>6 DEF Use
  <2>2. l.at = "ready"
    BY DEF Idle
  <2> HIDE DEF l
  <2>3. QED
    BY <1>2, <1>3, <2>1, <2>2
<1>7. ASSUME NEW r \in Readers, NEW k \in Keys, Query(r) \/ Fill(r) \/ Miss(r, k)
      PROVE  FALSE
  BY <1>7 DEF Query, Fill, Miss, NoneWaits
<1>8. CASE UNCHANGED reader
  BY <1>8 DEF NoneWaits
<1>9. AnyKey \in Keys
  BY LawAssumption
<1>10. CASE \E r \in Readers :
              \/ Snapshot(r) \/ Query(r) \/ Fill(r) \/ Use(r)
              \/ \E k \in Keys : Hit(r, k) \/ Miss(r, k) \/ MissSync(r, k)
  BY <1>4, <1>5, <1>6, <1>7, <1>9, <1>10
<1>11. CASE Tick \/ \E w \in Writers : Invalidate(w) \/ \E d \in Docs : Archive(w, d)
  BY <1>8, <1>11 DEF Tick, Invalidate, Archive
<1>12. QED
  BY <1>8, <1>10, <1>11 DEF Next, vars

\* With the SQLite archive an edict takes effect at once, for any laws,
\* readers and writers: the cache never outlives the invalidation that
\* follows the archiving (LawResolver.get and invalidate).
THEOREM EdictTakesEffect == SyncArchive => (Spec => []EdictAppliedAtOnce)
<1> SUFFICES ASSUME SyncArchive PROVE Spec => []EdictAppliedAtOnce
  OBVIOUS
<1>1. Init => AtOnceInv
  BY DEF Init, AtOnceInv, NoneWaits, IndexRead, EdictAppliedAtOnce, Idle
<1>2. CacheInv /\ AtOnceInv /\ [Next]_vars => AtOnceInv'
  BY AtOnceStep, NoneWaitsStep DEF AtOnceInv, CacheInv
<1>3. AtOnceInv => EdictAppliedAtOnce
  BY DEF AtOnceInv, IndexRead
<1>4. QED
  BY <1>1, <1>2, <1>3, CacheInvariant, PTL DEF Spec
=============================================================================
