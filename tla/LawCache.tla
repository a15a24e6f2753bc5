------------------------------ MODULE LawCache ------------------------------
(***************************************************************************)
(* How the law in force reaches the pipeline: the indexes of archived      *)
(* edicts and ti_definitions, the archive's getCurrentLaw and              *)
(* getCurrentTiDefinition, and the caches in front of them (LawResolver    *)
(* and TiResolver).                                                        *)
(*                                                                         *)
(* A document is an archived edict or ti_definition; its key is its law    *)
(* type or its target genre.  Readers are the messages in process, each    *)
(* with the instant of its law snapshot; writers are the docket worker and *)
(* the approval handlers, who archive a document and then invalidate.      *)
(***************************************************************************)
EXTENDS Integers

CONSTANTS
    Docs,         \* the documents: their message ids, as numbers
    Edicts,       \* those of genre 'edict'; the others are ti_definitions
    Key,          \* [Docs -> Keys]: law_type or target_genre
    Keys, AnyKey, \* the keys, and the key of a reader that looks nothing up
    Effective,    \* [Docs -> Nat]: effective_date of an edict
    Precedence,   \* [Docs -> Nat]: precedence of an edict
    Supersedes,   \* [Docs -> Nat]: superseded_edict_id or superseded_by, 0 if none
    NoLaw,        \* the answer `undefined`
    Ambiguous,    \* the error 'ambiguous-law'
    Readers, Worker, Handlers,
    SyncArchive,  \* TRUE for SQLite, FALSE for D1
    Ttl,          \* cacheTtlSeconds
    MaxTime       \* bound on the clock

ASSUME LawAssumption ==
    /\ Docs \subseteq Nat \ {0} /\ Edicts \subseteq Docs
    /\ AnyKey \in Keys /\ Key \in [Docs -> Keys]
    /\ Effective \in [Docs -> Nat] /\ Precedence \in [Docs -> Nat]
    /\ Supersedes \in [Docs -> Nat]
    /\ NoLaw \notin Docs /\ Ambiguous \notin Docs \cup {NoLaw}
    /\ Worker \notin Handlers
    /\ SyncArchive \in BOOLEAN
    /\ Ttl \in Nat /\ MaxTime \in Nat

Writers == {Worker} \cup Handlers
Answers == Docs \cup {NoLaw}

VARIABLES
    now,       \* the clock
    sealedAt,  \* edict_index and ti_definition_index: sealed_at by document
    cache,     \* both resolvers' maps: key -> [value, expires]
    reader,    \* the lookup each reader is in
    writer     \* the document a writer has archived and not yet invalidated, or 0

vars == <<now, sealedAt, cache, reader, writer>>

Entry == [value: Answers, expires: Nat]

Lookup ==
    [at: {"idle", "ready", "query", "fill", "served"}, key: Keys, asOf: Nat,
     since: Nat, value: Answers]

TypeOK ==
    /\ now \in Nat
    /\ DOMAIN sealedAt \subseteq Docs /\ sealedAt \in [DOMAIN sealedAt -> Nat]
    /\ DOMAIN cache \subseteq Keys /\ cache \in [DOMAIN cache -> Entry]
    /\ reader \in [Readers -> Lookup]
    /\ writer \in [Writers -> Docs \cup {0}]

Idle == [at |-> "idle", key |-> AnyKey, asOf |-> 0, since |-> 0, value |-> NoLaw]

Init ==
    /\ now = 0
    /\ sealedAt = [d \in {} |-> 0]
    /\ cache = [k \in {} |-> [value |-> NoLaw, expires |-> 0]]
    /\ reader = [r \in Readers |-> Idle]
    /\ writer = [w \in Writers |-> 0]

-----------------------------------------------------------------------------
(* The archive's queries over the index rows s, for an instant.            *)

\* From when a document counts: an edict from its effective date, however
\* late it was sealed; a ti_definition from its seal.
InForce(s, d, instant) ==
    IF d \in Edicts THEN Effective[d] <= instant ELSE s[d] <= instant

\* The rows for a key that are in force and not superseded by one in force.
Candidates(s, k, instant) ==
    {d \in DOMAIN s :
        /\ Key[d] = k /\ InForce(s, d, instant)
        /\ ~\E e \in DOMAIN s :
            Key[e] = k /\ Supersedes[e] = d /\ InForce(s, e, instant)}

\* ORDER BY precedence, effective_date, sealed_at, message_id, descending;
\* ti_definitions by sealed_at and message_id.
Rank(s, d) ==
    IF d \in Edicts THEN <<Precedence[d], Effective[d], s[d]>> ELSE <<0, 0, s[d]>>

Before(s, a, b) ==
    LET p == Rank(s, a) q == Rank(s, b) IN
    \/ p[1] > q[1]
    \/ p[1] = q[1] /\ p[2] > q[2]
    \/ p[1] = q[1] /\ p[2] = q[2] /\ p[3] > q[3]
    \/ p = q /\ a > b

\* The first row of that order; a set with at most one member.
First(s, c) == {d \in c : \A e \in c \ {d} : Before(s, d, e)}

\* getCurrentLaw and getCurrentTiDefinition.  Two edicts of equal rank at the
\* top are an error.
Resolve(s, k, instant) ==
    LET c == Candidates(s, k, instant) IN
    IF First(s, c) = {} THEN NoLaw
    ELSE LET top == CHOOSE d \in First(s, c) : TRUE IN
         IF top \in Edicts /\ \E e \in First(s, c \ {top}) : Rank(s, e) = Rank(s, top)
         THEN Ambiguous
         ELSE top

-----------------------------------------------------------------------------
(* LawResolver.get and TiResolver.getCurrentTiDefinition.                  *)

Tick == now < MaxTime /\ now' = now + 1 /\ UNCHANGED <<sealedAt, cache, reader, writer>>

\* withLawSnapshot: the instant a message entered the pipeline.
Snapshot(r) ==
    /\ reader[r].at = "idle"
    /\ reader' = [reader EXCEPT ![r].at = "ready", ![r].asOf = now]
    /\ UNCHANGED <<now, sealedAt, cache, writer>>

\* A fresh entry for the key answers, whatever instant it was read for.
Fresh_mutant_stale(k) == k \in DOMAIN cache

Fresh(k) == k \in DOMAIN cache /\ cache[k].expires > now

Hit(r, k) ==
    /\ reader[r].at = "ready" /\ Fresh(k)
    /\ reader' = [reader EXCEPT ![r].at = "served", ![r].key = k, ![r].since = now,
                                ![r].value = cache[k].value]
    /\ UNCHANGED <<now, sealedAt, cache, writer>>

Store(k, v, expires) ==
    cache' = [x \in DOMAIN cache \cup {k} |->
                IF x = k THEN [value |-> v, expires |-> expires] ELSE cache[x]]

\* A synchronous archive answers, and the entry is stored, before any writer
\* goes on.  Ambiguity is thrown, not cached.
MissSync_mutant_cachesError(r, k) ==
    LET v == Resolve(sealedAt, k, reader[r].asOf) IN
    /\ SyncArchive /\ reader[r].at = "ready" /\ ~Fresh(k)
    /\ reader' = [reader EXCEPT ![r].at = "served", ![r].key = k,
                                ![r].since = now, ![r].value = v]
    /\ Store(k, v, now + Ttl)
    /\ UNCHANGED <<now, sealedAt, writer>>

MissSync(r, k) ==
    LET v == Resolve(sealedAt, k, reader[r].asOf) IN
    /\ SyncArchive /\ reader[r].at = "ready" /\ ~Fresh(k)
    /\ IF v = Ambiguous
       THEN reader' = [reader EXCEPT ![r] = Idle] /\ UNCHANGED cache
       ELSE /\ reader' = [reader EXCEPT ![r].at = "served", ![r].key = k,
                                        ![r].since = now, ![r].value = v]
            /\ Store(k, v, now + Ttl)
    /\ UNCHANGED <<now, sealedAt, writer>>

\* With D1 the query is sent (nowMs is read before), runs and is answered.
Miss(r, k) ==
    /\ ~SyncArchive /\ reader[r].at = "ready" /\ ~Fresh(k)
    /\ reader' = [reader EXCEPT ![r].at = "query", ![r].key = k, ![r].since = now]
    /\ UNCHANGED <<now, sealedAt, cache, writer>>

Query(r) ==
    LET v == Resolve(sealedAt, reader[r].key, reader[r].asOf) IN
    /\ reader[r].at = "query"
    /\ reader' = [reader EXCEPT ![r] =
                    IF v = Ambiguous THEN Idle ELSE [@ EXCEPT !.at = "fill", !.value = v]]
    /\ UNCHANGED <<now, sealedAt, cache, writer>>

\* The answer arrives and is stored, also if the key was invalidated since.
Fill(r) ==
    /\ reader[r].at = "fill"
    /\ reader' = [reader EXCEPT ![r].at = "served"]
    /\ Store(reader[r].key, reader[r].value, reader[r].since + Ttl)
    /\ UNCHANGED <<now, sealedAt, writer>>

\* The message asks for another law, or leaves the pipeline.
Use(r) ==
    /\ reader[r].at = "served"
    /\ \/ reader' = [reader EXCEPT ![r] = [Idle EXCEPT !.at = "ready", !.asOf = reader[r].asOf]]
       \/ reader' = [reader EXCEPT ![r] = Idle]
    /\ UNCHANGED <<now, sealedAt, cache, writer>>

-----------------------------------------------------------------------------
(* Archiving and invalidation.                                             *)

\* indexArchivedMessage, when the 'archived' row is appended.
Archive(w, d) ==
    /\ writer[w] = 0 /\ d \notin DOMAIN sealedAt
    /\ sealedAt' = [x \in DOMAIN sealedAt \cup {d} |-> IF x = d THEN now ELSE sealedAt[x]]
    /\ writer' = [writer EXCEPT ![w] = d]
    /\ UNCHANGED <<now, cache, reader>>

\* Whoever archives an edict invalidates its law type; the cache of
\* ti_definitions is invalidated by the docket worker alone.
Invalidates_mutant_none(w, d) == FALSE

Invalidates(w, d) == d \in Edicts \/ w = Worker

Invalidate(w) ==
    LET d == writer[w] IN
    /\ d # 0
    /\ writer' = [writer EXCEPT ![w] = 0]
    /\ cache' = IF Invalidates(w, d)
                THEN [x \in DOMAIN cache \ {Key[d]} |-> cache[x]]
                ELSE cache
    /\ UNCHANGED <<now, sealedAt, reader>>

Next ==
    \/ Tick
    \/ \E r \in Readers :
        \/ Snapshot(r) \/ Query(r) \/ Fill(r) \/ Use(r)
        \/ \E k \in Keys : Hit(r, k) \/ Miss(r, k) \/ MissSync(r, k)
    \/ \E w \in Writers : Invalidate(w) \/ \E d \in Docs : Archive(w, d)

Spec == Init /\ [][Next]_vars

-----------------------------------------------------------------------------
(* Properties.                                                             *)

\* v answers a query, for an instant up to n, over part of the index sa that
\* holds at least what was sealed before the instant `since`.
ReadSince(sa, n, v, k, since) ==
    \E s \in SUBSET DOMAIN sa :
        /\ \A d \in DOMAIN sa : sa[d] < since => d \in s
        /\ \E instant \in 0..n : v = Resolve([d \in s |-> sa[d]], k, instant)

\* Staleness is bounded by the TTL: whatever races between lookups, archiving
\* and invalidation, a served law takes account of every document sealed more
\* than Ttl before it was served, and a cached one of all that was sealed
\* before the lookup that stored it (LawResolver.get, TiResolver).
BoundedStaleness ==
    /\ \A r \in Readers :
        reader[r].at = "served" =>
            ReadSince(sealedAt, now, reader[r].value, reader[r].key, reader[r].since - Ttl)
    /\ \A k \in DOMAIN cache :
        ReadSince(sealedAt, now, cache[k].value, k, cache[k].expires - Ttl)

\* With a synchronous archive an edict takes effect at once: when no writer is
\* between archiving and invalidating, what is cached for a law type was read
\* from the index as it is (CHANGELOG: "Immediate law application after
\* archived edict updates via resolver cache invalidation").
EdictAppliedAtOnce ==
    \A k \in DOMAIN cache :
        ~(\E w \in Writers : writer[w] # 0 /\ Key[writer[w]] = k)
        /\ (\A d \in DOMAIN sealedAt : Key[d] = k => d \in Edicts)
            => \E instant \in 0..now : cache[k].value = Resolve(sealedAt, k, instant)

\* What a lookup l and a cache entry e for k keep true over the index sa at n.
LookupOK(l, sa, n) ==
    /\ l.asOf <= n /\ l.since <= n
    /\ l.at = "served" => ReadSince(sa, n, l.value, l.key, l.since - Ttl)
    /\ l.at = "fill" => ReadSince(sa, n, l.value, l.key, l.since)

EntryOK(e, k, sa, n) ==
    e.expires - Ttl <= n /\ ReadSince(sa, n, e.value, k, e.expires - Ttl)

\* The inductive invariant behind BoundedStaleness: no instant the resolvers
\* keep lies in the future, and an answer on its way was read since its lookup.
CacheInv ==
    /\ TypeOK
    /\ \A r \in Readers : LookupOK(reader[r], sealedAt, now)
    /\ \A k \in DOMAIN cache : EntryOK(cache[k], k, sealedAt, now)
=============================================================================
