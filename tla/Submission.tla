----------------------------- MODULE Submission -----------------------------
(***************************************************************************)
(* POST /messages of the gateway (packages/gateway/src/index.ts): the      *)
(* idempotency lookup, the gates a message passes, its way into the        *)
(* archive and onto the docket, and the runtime the requests share: the    *)
(* lazily built resolvers, the poll timer and the docket loop.  What the   *)
(* loop does with a message is module Docket; here it takes an item and is *)
(* done with it, or throws.                                                *)
(*                                                                         *)
(* Every await is a point where other requests and the loop run.  A        *)
(* client may send the same message several times, with the same key, also *)
(* while an earlier request is still under way; every awaited call may     *)
(* throw; the process may stop at any point and start again without what   *)
(* it kept in memory.  Time passes in units of the key's life (24 hours).  *)
(* The runtime is built by a POST here; in the code any route that comes   *)
(* first builds it in the same way.                                        *)
(*                                                                         *)
(* One process over the SQLite archive, whose calls run without            *)
(* interruption: what is awaited is only their result.                     *)
(***************************************************************************)
EXTENDS Integers, Sequences, FiniteSets

CONSTANTS Requests,     \* POST requests, retries included
          Messages,     \* message ids
          Actors,       \* who submits
          Keys,         \* values of X-Idempotency-Key
          NoKey,        \* a request without the header
          MsgOf,        \* the message a request carries
          KeyOf,        \* the key a request carries
          ActorOf,      \* message.actor.id
          Incidents,    \* messages of genre safety_incident
          Exempt,       \* messages admitted to a quarantined site
          Ttl,          \* life of an idempotency row
          MaxTime       \* bound on the clock

ASSUME SubmissionAssumption ==
    /\ MsgOf \in [Requests -> Messages]
    /\ KeyOf \in [Requests -> Keys \cup {NoKey}]
    /\ ActorOf \in [Messages -> Actors]
    /\ Incidents \subseteq Exempt /\ Exempt \subseteq Messages
    /\ NoKey \notin Keys
    /\ Ttl \in Nat /\ MaxTime \in Nat

VARIABLES
    stored,         \* messages with a row in the archive
    docket,         \* message ids queued, oldest first
    idem,           \* idempotency_keys: key -> [id, expires]
    site,           \* 'ACTIVE' or 'QUARANTINED'
    now,            \* the clock
    runtime,        \* is runtimeRepo set?
    timer,          \* is the poll timer running?
    quarantined,    \* quarantinedActors
    loop,           \* the docket loop: "off" while workerRunning is false
    item,           \* what the loop's dequeue returned, a sequence of <= 1 id
    pc,             \* pc[r]: the await request r is at
    nowIso,         \* nowIso[r]: the clock when r arrived
    answer,         \* answer[r]: <<>> or <<status, message id>>
    taken           \* history: the items the loop took, in order

memory == <<runtime, timer, quarantined, loop, item>>
store == <<stored, docket, idem, site>>
vars == <<store, now, memory, pc, nowIso, answer, taken>>

InFlight == {"preload", "lookup", "admit", "law", "site", "anomaly", "append",
             "enqueue", "emergency", "alert", "put"}

Init ==
    /\ stored = {} /\ docket = <<>> /\ site = "ACTIVE"
    /\ idem = [k \in {} |-> [id |-> k, expires |-> 0]]
    /\ now = 0
    /\ runtime = FALSE /\ timer = FALSE /\ quarantined = {}
    /\ loop = "off" /\ item = <<>>
    /\ pc = [r \in Requests |-> "unsent"]
    /\ nowIso = [r \in Requests |-> 0]
    /\ answer = [r \in Requests |-> <<>>]
    /\ taken = <<>>
-----------------------------------------------------------------------------
Goto(r, p) == pc' = [pc EXCEPT ![r] = p] /\ UNCHANGED <<nowIso, answer>>

Answer(r, status, id) ==
    /\ pc' = [pc EXCEPT ![r] = "answered"]
    /\ answer' = [answer EXCEPT ![r] = <<status, id>>]
    /\ UNCHANGED nowIso

\* "accepted" is 202, "replayed" 200, "refused" any 4xx or 5xx.
Refuse(r) == Answer(r, "refused", MsgOf[r])

\* The call of processDocketLoop() up to its first await.
StartLoop == loop' = IF loop = "off" THEN "dequeue" ELSE loop
-----------------------------------------------------------------------------
(***************************************************************************)
(* One request.                                                            *)
(***************************************************************************)

\* The size limits; then resolveRuntime(), which assigns runtimeRepo before
\* it awaits preload(): only the first request waits for it.
Arrive(r) ==
    /\ pc[r] = "unsent"
    /\ \/ Refuse(r) /\ UNCHANGED runtime
       \/ /\ pc' = [pc EXCEPT ![r] = IF runtime THEN "lookup" ELSE "preload"]
          /\ nowIso' = [nowIso EXCEPT ![r] = now]
          /\ runtime' = TRUE
          /\ UNCHANGED answer
    /\ UNCHANGED <<store, now, timer, quarantined, loop, item, taken>>

\* preload() is done: the timer starts.
Preload(r) ==
    /\ pc[r] = "preload"
    /\ timer' = TRUE
    /\ Goto(r, "lookup")
    /\ UNCHANGED <<store, now, runtime, quarantined, loop, item, taken>>

\* getIdempotency: a row that has not expired answers the request.
IdempotencyHit(r) ==
    /\ KeyOf[r] \in DOMAIN idem
    /\ idem[KeyOf[r]].expires >= nowIso[r]

LookUp_mutant_reserve(r) ==
    /\ pc[r] = "lookup"
    /\ IF IdempotencyHit(r) THEN Answer(r, "replayed", idem[KeyOf[r]].id) /\ UNCHANGED idem
       ELSE /\ Goto(r, "admit")
            /\ idem' = IF KeyOf[r] = NoKey THEN idem
                       ELSE [k \in DOMAIN idem \cup {KeyOf[r]} |->
                               IF k = KeyOf[r]
                               THEN [id |-> MsgOf[r], expires |-> now + Ttl]
                               ELSE idem[k]]
    /\ UNCHANGED <<stored, docket, site, now, memory, taken>>

LookUp(r) ==
    /\ pc[r] = "lookup"
    /\ IF IdempotencyHit(r) THEN Answer(r, "replayed", idem[KeyOf[r]].id)
       ELSE Goto(r, "admit")
    /\ UNCHANGED <<store, now, memory, taken>>

\* tongzhengSi: the envelope and the archived definition of its genre.  What
\* the definitions and the laws say is module LawCache; any verdict is possible.
ValidateByArchivedTi(r) ==
    /\ pc[r] = "admit"
    /\ Goto(r, "law") \/ Refuse(r)
    /\ UNCHANGED <<store, now, memory, taken>>

\* The admission law; then, without a further await, the role rules.
AdmissionCheck(r) ==
    /\ pc[r] = "law"
    /\ Goto(r, "site") \/ Refuse(r)
    /\ UNCHANGED <<store, now, memory, taken>>

\* The site's status, then the actors this process has quarantined.
CheckSite(r) ==
    /\ pc[r] = "site"
    /\ IF site = "QUARANTINED" /\ MsgOf[r] \notin Exempt THEN Refuse(r)
       ELSE IF ActorOf[MsgOf[r]] \in quarantined THEN Refuse(r)
       ELSE Goto(r, "anomaly")
    /\ UNCHANGED <<store, now, memory, taken>>

\* AnomalyDetector: what its calls for one message may find.
Anomalies == {"none", "temporal", "geographic"}

\* The detectors: a temporal anomaly refuses the message, a geographic one
\* also quarantines the actor its metadata names, who need not be the
\* submitter; a coalition leaves an alert only.
Detect(r) ==
    /\ pc[r] = "anomaly"
    /\ \E found \in Anomalies :
          /\ IF found = "none" THEN Goto(r, "append") ELSE Refuse(r)
          /\ IF found = "geographic"
             THEN \E a \in Actors : quarantined' = quarantined \cup {a}
             ELSE UNCHANGED quarantined
    /\ UNCHANGED <<store, now, runtime, timer, loop, item, taken>>

\* appendMessage: the id is the primary key.
AppendMessage_mutant_upsert(r) ==
    /\ pc[r] = "append"
    /\ stored' = stored \cup {MsgOf[r]}
    /\ Goto(r, "enqueue")
    /\ UNCHANGED <<docket, idem, site, now, memory, taken>>

AppendMessage(r) ==
    /\ pc[r] = "append"
    /\ IF MsgOf[r] \in stored THEN Refuse(r) /\ UNCHANGED stored
       ELSE stored' = stored \cup {MsgOf[r]} /\ Goto(r, "enqueue")
    /\ UNCHANGED <<docket, idem, site, now, memory, taken>>

\* enqueueDocket, then void processDocketLoop().
EnqueueDocket(r) ==
    /\ pc[r] = "enqueue"
    /\ docket' = Append(docket, MsgOf[r])
    /\ StartLoop
    /\ Goto(r, IF MsgOf[r] \in Incidents THEN "emergency" ELSE "put")
    /\ UNCHANGED <<stored, idem, site, now, runtime, timer, quarantined, item,
                   taken>>

\* routeSafetyIncident: the site's status, then an alert.
RouteIncident(r) ==
    /\ pc[r] = "emergency"
    /\ site' = "QUARANTINED"
    /\ Goto(r, "alert")
    /\ UNCHANGED <<stored, docket, idem, now, memory, taken>>

AlertIncident(r) ==
    /\ pc[r] = "alert"
    /\ Goto(r, "put")
    /\ UNCHANGED <<store, now, memory, taken>>

\* putIdempotency is an upsert; then the answer.
PutIdempotency(r) ==
    /\ pc[r] = "put"
    /\ idem' = IF KeyOf[r] = NoKey THEN idem
               ELSE [k \in DOMAIN idem \cup {KeyOf[r]} |->
                       IF k = KeyOf[r]
                       THEN [id |-> MsgOf[r], expires |-> now + Ttl]
                       ELSE idem[k]]
    /\ Answer(r, "accepted", MsgOf[r])
    /\ UNCHANGED <<stored, docket, site, now, memory, taken>>

\* An awaited call throws: the handler answers 500 or 503 and leaves what
\* the calls before it have done.  A failed preload() leaves no timer.
Throw(r) ==
    /\ pc[r] \in InFlight
    /\ Refuse(r)
    /\ UNCHANGED <<store, now, memory, taken>>

\* GET /messages/:id runs the docket loop before it looks the message up.
GetMessage ==
    /\ runtime
    /\ loop = "off"
    /\ StartLoop
    /\ UNCHANGED <<store, now, runtime, timer, quarantined, item, pc, nowIso,
                   answer, taken>>

\* POST /emergency/safety-incident, without a message.
EmergencyCall ==
    /\ runtime
    /\ site' = "QUARANTINED"
    /\ UNCHANGED <<stored, docket, idem, now, memory, pc, nowIso, answer, taken>>
-----------------------------------------------------------------------------
(***************************************************************************)
(* The docket loop.                                                        *)
(***************************************************************************)
Tick ==
    /\ timer
    /\ loop = "off"
    /\ StartLoop
    /\ UNCHANGED <<store, now, runtime, timer, quarantined, item, pc, nowIso,
                   answer, taken>>

\* dequeueDocket selects and deletes in one call; its result is awaited.
Dequeue_mutant_newest ==
    /\ loop = "dequeue"
    /\ loop' = "dequeued"
    /\ IF docket = <<>> THEN UNCHANGED <<docket, item, taken>>
       ELSE /\ item' = <<docket[Len(docket)]>>
            /\ docket' = SubSeq(docket, 1, Len(docket) - 1)
            /\ taken' = Append(taken, docket[Len(docket)])
    /\ UNCHANGED <<stored, idem, site, now, runtime, timer, quarantined, pc,
                   nowIso, answer>>

Dequeue ==
    /\ loop = "dequeue"
    /\ loop' = "dequeued"
    /\ IF docket = <<>> THEN UNCHANGED <<docket, item, taken>>
       ELSE /\ item' = <<Head(docket)>>
            /\ docket' = Tail(docket)
            /\ taken' = Append(taken, Head(docket))
    /\ UNCHANGED <<stored, idem, site, now, runtime, timer, quarantined, pc,
                   nowIso, answer>>

\* An empty docket ends the loop.
EndLoop ==
    /\ loop = "dequeued"
    /\ item = <<>>
    /\ loop' = "off"
    /\ UNCHANGED <<store, now, runtime, timer, quarantined, item, pc, nowIso,
                   answer, taken>>

\* The item is processed, or its processing throws past the inner catch: the
\* outer catch swallows it and `finally` clears workerRunning.
Process_mutant_stuck ==
    /\ loop = "dequeued"
    /\ item # <<>>
    /\ item' = <<>>
    /\ loop' \in {"dequeue", "stuck"}
    /\ UNCHANGED <<store, now, runtime, timer, quarantined, pc, nowIso,
                   answer, taken>>

Process ==
    /\ loop = "dequeued"
    /\ item # <<>>
    /\ item' = <<>>
    /\ loop' \in {"dequeue", "off"}
    /\ UNCHANGED <<store, now, runtime, timer, quarantined, pc, nowIso,
                   answer, taken>>
-----------------------------------------------------------------------------
\* The process stops and starts again: the requests under way get no
\* answer, and the runtime waits for the next request.
Restart ==
    /\ runtime
    /\ runtime' = FALSE /\ timer' = FALSE /\ quarantined' = {}
    /\ loop' = "off" /\ item' = <<>>
    /\ pc' = [r \in Requests |-> IF pc[r] \in InFlight THEN "lost" ELSE pc[r]]
    /\ UNCHANGED <<store, now, nowIso, answer, taken>>

PassTime ==
    /\ now < MaxTime
    /\ now' = now + 1
    /\ UNCHANGED <<store, memory, pc, nowIso, answer, taken>>

Post(r) ==
    \/ Arrive(r) \/ Preload(r) \/ LookUp(r) \/ ValidateByArchivedTi(r)
    \/ AdmissionCheck(r) \/ CheckSite(r)
    \/ Detect(r) \/ AppendMessage(r) \/ EnqueueDocket(r) \/ RouteIncident(r)
    \/ AlertIncident(r) \/ PutIdempotency(r)

Loop == Dequeue \/ EndLoop \/ Process

Next ==
    \/ \E r \in Requests : Post(r) \/ Throw(r)
    \/ GetMessage \/ EmergencyCall \/ Tick \/ Loop \/ Restart \/ PassTime

Spec == Init /\ [][Next]_vars

\* setInterval keeps ticking and the event loop runs what is ready.
FairSpec == Spec /\ WF_vars(Tick) /\ WF_vars(Loop)
-----------------------------------------------------------------------------
(***************************************************************************)
(* Properties.                                                             *)
(***************************************************************************)

\* However often a message is sent, with a key or without, overlapping, or
\* after the key has expired or the process has restarted, it is put on the
\* docket at most once: the worker never gets the same petition twice.
ProcessedOnce ==
    LET handed == taken \o docket
    IN  \A i, j \in DOMAIN handed : handed[i] = handed[j] => i = j

\* A client that is told 202, or 200 from the idempotency table, was told of
\* a message that is in the archive and on its way: queued or taken, also
\* across a restart.
AnsweredIsQueued ==
    \A r \in Requests :
        (answer[r] # <<>> /\ answer[r][1] \in {"accepted", "replayed"})
        => /\ answer[r][2] \in stored
           /\ \E i \in DOMAIN (taken \o docket) : (taken \o docket)[i] = answer[r][2]

\* A message enters the archive and the docket as Intake says, however its
\* requests overlap, throw or are cut off by a restart.
Waiting == {MsgOf[r] : r \in {q \in Requests : pc[q] = "enqueue"}}

Entry == INSTANCE Intake WITH waiting <- Waiting

SubmissionIsIntake == Entry!Spec

\* While the poll timer runs every queued message is taken, also one that
\* was queued just after the loop had found the docket empty, and after an
\* item whose processing threw.
QueuedIsTaken ==
    \A m \in Messages :
        (timer /\ \E i \in DOMAIN docket : docket[i] = m)
        ~> (~timer \/ \E i \in DOMAIN taken : taken[i] = m)
=============================================================================
