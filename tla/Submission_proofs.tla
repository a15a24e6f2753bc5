-------------------------- MODULE Submission_proofs --------------------------
(***************************************************************************)
(* Proof that a message reaches the worker at most once and that a         *)
(* positive answer is never given for a message that is not queued, for    *)
(* any requests, messages, keys and key lifetimes: retries that overlap,   *)
(* keys that expire, calls that throw and restarts included.               *)
(***************************************************************************)
EXTENDS Submission, TLAPS, SequenceTheorems

-----------------------------------------------------------------------------
(* The inductive invariant.                                                *)

\* What enqueueDocket has handed over, in order, and as a set.
Handed == taken \o docket
Reached == {Handed[i] : i \in DOMAIN Handed}

\* The awaits behind enqueueDocket.
Enqueued == {"emergency", "alert", "put"}

Positive(a) == a # <<>> /\ a[1] \in {"accepted", "replayed"}

\* A stored message whose request stands before enqueueDocket has not been
\* handed over, and no other request is there for it: the primary key of
\* messages let one request through.  What later steps rely on (a request
\* behind enqueueDocket, an idempotency row, a positive answer) is about a
\* message that was handed over.
SubmissionInv ==
    /\ taken \in Seq(Messages) /\ docket \in Seq(Messages)
    /\ DOMAIN pc = Requests /\ DOMAIN answer = Requests
    /\ ProcessedOnce
    /\ Reached \subseteq stored
    /\ \A r \in Requests :
          /\ pc[r] = "enqueue" => MsgOf[r] \in stored \ Reached
          /\ pc[r] \in Enqueued => MsgOf[r] \in Reached
    /\ \A r, q \in Requests :
          (pc[r] = "enqueue" /\ pc[q] = "enqueue" /\ MsgOf[r] = MsgOf[q]) => r = q
    /\ \A k \in DOMAIN idem : idem[k].id \in Reached
    /\ \A r \in Requests : Positive(answer[r]) => answer[r][2] \in Reached

-----------------------------------------------------------------------------
(* The docket and what was taken from it, as one sequence.                 *)

\* enqueueDocket puts a message at the end of what was handed over.
LEMMA EnqueueHanded ==
    ASSUME NEW t \in Seq(Messages), NEW d \in Seq(Messages), NEW m \in Messages
    PROVE  t \o Append(d, m) = Append(t \o d, m)
<1>1. Append(d, m) = d \o <<m>> /\ <<m>> \in Seq(Messages)
  BY AppendIsConcat
<1>2. t \o d \in Seq(Messages)
  BY ConcatProperties
<1>3. Append(t \o d, m) = (t \o d) \o <<m>>
  BY <1>2, AppendIsConcat
<1>4. (t \o d) \o <<m>> = t \o (d \o <<m>>)
  BY <1>1, ConcatAssociative
<1>5. QED
  BY <1>1, <1>3, <1>4

\* dequeueDocket moves the boundary between taken and queued, no more.
LEMMA DequeueHanded ==
    ASSUME NEW t \in Seq(Messages), NEW d \in Seq(Messages), d # <<>>
    PROVE  /\ Append(t, Head(d)) \in Seq(Messages) /\ Tail(d) \in Seq(Messages)
           /\ Append(t, Head(d)) \o Tail(d) = t \o d
<1> DEFINE a == Append(t, Head(d))
           b == Tail(d)
<1>1. /\ Head(d) \in Messages /\ b \in Seq(Messages) /\ Len(b) = Len(d) - 1
      /\ \A i \in 1 .. Len(b) : b[i] = d[i + 1]
  BY HeadTailProperties
<1>2. /\ a \in Seq(Messages) /\ Len(a) = Len(t) + 1
      /\ \A i \in 1 .. Len(t) : a[i] = t[i]
      /\ a[Len(t) + 1] = Head(d)
  BY <1>1, AppendProperties
<1>3. Head(d) = d[1]
  OBVIOUS
<1>4. Len(t) \in Nat /\ Len(d) \in Nat
  BY LenProperties
<1> HIDE DEF a, b
<1>5. /\ a \o b \in Seq(Messages) /\ Len(a \o b) = Len(t) + Len(d)
      /\ \A i \in 1 .. Len(t) + Len(d) :
            (a \o b)[i] = IF i <= Len(t) + 1 THEN a[i] ELSE b[i - (Len(t) + 1)]
  <2>1. /\ a \o b \in Seq(Messages) /\ Len(a \o b) = Len(a) + Len(b)
        /\ \A i \in 1 .. Len(a) + Len(b) :
              (a \o b)[i] = IF i <= Len(a) THEN a[i] ELSE b[i - Len(a)]
    BY <1>1, <1>2, ConcatProperties
  <2>2. Len(a) + Len(b) = Len(t) + Len(d) /\ Len(a) = Len(t) + 1
    BY <1>1, <1>2, <1>4
  <2>3. QED
    BY <2>1, <2>2
<1>6. /\ t \o d \in Seq(Messages) /\ Len(t \o d) = Len(t) + Len(d)
      /\ \A i \in 1 .. Len(t) + Len(d) :
            (t \o d)[i] = IF i <= Len(t) THEN t[i] ELSE d[i - Len(t)]
  BY ConcatProperties
<1>7. ASSUME NEW i \in 1 .. Len(t) + Len(d)
      PROVE  (a \o b)[i] = (t \o d)[i]
  <2>1. CASE i <= Len(t)
    BY <1>2, <1>4, <1>5, <1>6, <2>1
  <2>2. CASE i = Len(t) + 1
    BY <1>2, <1>3, <1>4, <1>5, <1>6, <2>2
  <2>3. CASE i > Len(t) + 1
    <3>1. i - (Len(t) + 1) \in 1 .. Len(b)
      BY <1>1, <1>4, <2>3
    <3>2. i - (Len(t) + 1) + 1 = i - Len(t)
      BY <1>4
    <3>3. b[i - (Len(t) + 1)] = d[i - Len(t)]
      BY <1>1, <3>1, <3>2
    <3>4. QED
      BY <1>4, <1>5, <1>6, <2>3, <3>3
  <2>4. i \in Int /\ Len(t) \in Int
    BY <1>4
  <2>5. i <= Len(t) \/ i = Len(t) + 1 \/ i > Len(t) + 1
    BY <2>4
  <2>6. QED
    BY <2>1, <2>2, <2>3, <2>5
<1>8. a \o b = t \o d
  BY <1>5, <1>6, <1>7, SeqEqual
<1>9. QED
  BY <1>1, <1>2, <1>8 DEF a, b

\* A message that was not handed over before leaves no duplicate behind.
LEMMA AppendDistinct ==
    ASSUME NEW s \in Seq(Messages), NEW m \in Messages,
           \A i, j \in DOMAIN s : s[i] = s[j] => i = j,
           \A i \in DOMAIN s : s[i] # m
    PROVE  LET t == Append(s, m) IN
           /\ \A i, j \in DOMAIN t : t[i] = t[j] => i = j
           /\ {t[i] : i \in DOMAIN t} = {s[i] : i \in DOMAIN s} \cup {m}
<1> DEFINE t == Append(s, m)
           n == Len(s)
<1>1. /\ t \in Seq(Messages) /\ Len(t) = n + 1 /\ t[n + 1] = m
      /\ \A i \in 1 .. n : t[i] = s[i]
  BY AppendProperties
<1>2. n \in Nat /\ DOMAIN s = 1 .. n /\ DOMAIN t = 1 .. (n + 1)
  BY <1>1, LenProperties
<1> HIDE DEF t
<1>3. \A i \in DOMAIN t : i \in DOMAIN s \/ i = n + 1
  BY <1>2
<1>4. \A i, j \in DOMAIN t : t[i] = t[j] => i = j
  BY <1>1, <1>2, <1>3
<1>5. {t[i] : i \in DOMAIN t} = {s[i] : i \in DOMAIN s} \cup {m}
  BY <1>1, <1>2, <1>3
<1>6. QED
  BY <1>4, <1>5 DEF t

-----------------------------------------------------------------------------
(* Steps of one request that hand nothing over.                            *)

\* Request r goes on to p.
LEMMA GotoStep ==
    ASSUME SubmissionInv, NEW r \in Requests, NEW p,
           pc' = [pc EXCEPT ![r] = p], UNCHANGED answer,
           p # "enqueue", p \in Enqueued => MsgOf[r] \in Reached,
           UNCHANGED <<taken, docket, stored, idem>>
    PROVE  SubmissionInv'
<1>1. Handed' = Handed /\ Reached' = Reached /\ ProcessedOnce'
  BY DEF Handed, Reached, SubmissionInv, ProcessedOnce
<1>2. /\ DOMAIN pc' = Requests
      /\ \A q \in Requests : pc'[q] = IF q = r THEN p ELSE pc[q]
  BY DEF SubmissionInv
<1>3. QED
  BY <1>1, <1>2 DEF SubmissionInv

\* Request r is answered, positively only for a message handed over.
LEMMA AnswerStep ==
    ASSUME SubmissionInv, NEW r \in Requests, NEW s, NEW id,
           Answer(r, s, id), s \in {"accepted", "replayed"} => id \in Reached,
           \A k \in DOMAIN idem' : idem'[k].id \in Reached,
           UNCHANGED <<taken, docket, stored>>
    PROVE  SubmissionInv'
<1>1. Handed' = Handed /\ Reached' = Reached /\ ProcessedOnce'
  BY DEF Handed, Reached, SubmissionInv, ProcessedOnce
<1>2. /\ DOMAIN pc' = Requests /\ DOMAIN answer' = Requests
      /\ \A q \in Requests : pc'[q] = IF q = r THEN "answered" ELSE pc[q]
      /\ \A q \in Requests : answer'[q] = IF q = r THEN <<s, id>> ELSE answer[q]
  BY DEF SubmissionInv, Answer
<1>3. Positive(<<s, id>>) => <<s, id>>[2] \in Reached
  BY DEF Positive
<1>4. \A q \in Requests : Positive(answer'[q]) => answer'[q][2] \in Reached
  BY <1>2, <1>3 DEF SubmissionInv
<1>5. \A q \in Requests :
          /\ pc'[q] = "enqueue" => pc[q] = "enqueue"
          /\ pc'[q] \in Enqueued => pc[q] \in Enqueued
  BY <1>2 DEF Enqueued
<1>6. QED
  BY <1>1, <1>2, <1>4, <1>5 DEF SubmissionInv

\* A refusal: 4xx, or 5xx when a call throws.
LEMMA RefuseStep ==
    ASSUME SubmissionInv, NEW r \in Requests, Refuse(r),
           UNCHANGED <<taken, docket, stored, idem>>
    PROVE  SubmissionInv'
<1>1. \A k \in DOMAIN idem : idem[k].id \in Reached
  BY DEF SubmissionInv
<1>2. QED
  BY <1>1, AnswerStep DEF Refuse

\* What the requests and the tables hold stays as it is.
LEMMA StillStep ==
    ASSUME SubmissionInv, UNCHANGED <<taken, docket, stored, idem, pc, answer>>
    PROVE  SubmissionInv'
<1>1. Handed' = Handed /\ Reached' = Reached /\ (ProcessedOnce' <=> ProcessedOnce)
  BY DEF Handed, Reached, ProcessedOnce
<1>2. QED
  BY <1>1 DEF SubmissionInv

-----------------------------------------------------------------------------
(* The steps of a request, in the order they are taken.                    *)

LEMMA PostStep ==
    ASSUME SubmissionInv, NEW r \in Requests, Post(r) \/ Throw(r)
    PROVE  SubmissionInv'
<1>1. CASE Arrive(r)
  <2>1. UNCHANGED <<taken, docket, stored, idem>>
    BY <1>1 DEF Arrive, store
  <2>2. CASE Refuse(r)
    BY <2>1, <2>2, RefuseStep
  <2>3. CASE ~Refuse(r)
    BY <1>1, <2>1, <2>3, GotoStep DEF Arrive, Enqueued
  <2>4. QED
    BY <2>2, <2>3
<1>2. CASE Preload(r)
  BY <1>2, GotoStep DEF Preload, Goto, Enqueued, store
<1>3. CASE LookUp(r)
  <2>1. UNCHANGED <<taken, docket, stored, idem>>
    BY <1>3 DEF LookUp, store
  <2>2. CASE IdempotencyHit(r)
    <3>1. Answer(r, "replayed", idem[KeyOf[r]].id)
      BY <1>3, <2>2 DEF LookUp
    <3>2. idem[KeyOf[r]].id \in Reached
      BY <2>2 DEF IdempotencyHit, SubmissionInv
    <3>3. \A k \in DOMAIN idem' : idem'[k].id \in Reached
      BY <2>1 DEF SubmissionInv
    <3>4. QED
      BY <2>1, <3>1, <3>2, <3>3, AnswerStep
  <2>3. CASE ~IdempotencyHit(r)
    BY <1>3, <2>1, <2>3, GotoStep DEF LookUp, Goto, Enqueued
  <2>4. QED
    BY <2>2, <2>3
<1>4. CASE ValidateByArchivedTi(r)
  BY <1>4, GotoStep, RefuseStep DEF ValidateByArchivedTi, Goto, Enqueued, store
<1>5. CASE AdmissionCheck(r)
  BY <1>5, GotoStep, RefuseStep DEF AdmissionCheck, Goto, Enqueued, store
<1>6. CASE CheckSite(r)
  BY <1>6, GotoStep, RefuseStep DEF CheckSite, Goto, Enqueued, store
<1>7. CASE Detect(r)
  BY <1>7, GotoStep, RefuseStep DEF Detect, Goto, Enqueued, store
<1>8. CASE AppendMessage(r)
  <2>1. CASE MsgOf[r] \in stored
    BY <1>8, <2>1, RefuseStep DEF AppendMessage
  <2>2. CASE MsgOf[r] \notin stored
    <3>1. /\ stored' = stored \cup {MsgOf[r]} /\ UNCHANGED <<taken, docket, idem, answer>>
          /\ pc' = [pc EXCEPT ![r] = "enqueue"]
      BY <1>8, <2>2 DEF AppendMessage, Goto
    <3>2. Handed' = Handed /\ Reached' = Reached /\ ProcessedOnce'
      BY <3>1 DEF Handed, Reached, SubmissionInv, ProcessedOnce
    <3>3. /\ DOMAIN pc' = Requests
          /\ \A q \in Requests : pc'[q] = IF q = r THEN "enqueue" ELSE pc[q]
      BY <3>1 DEF SubmissionInv
    <3>4. MsgOf[r] \notin Reached
      BY <2>2 DEF SubmissionInv
    <3>5. \A q \in Requests : pc[q] = "enqueue" => MsgOf[q] # MsgOf[r]
      BY <2>2 DEF SubmissionInv
    <3>6. \A q \in Requests :
            /\ pc'[q] = "enqueue" => MsgOf[q] \in stored' \ Reached
            /\ pc'[q] \in Enqueued => MsgOf[q] \in Reached
      BY <3>1, <3>3, <3>4 DEF SubmissionInv, Enqueued
    <3>7. \A p, q \in Requests :
            (pc'[p] = "enqueue" /\ pc'[q] = "enqueue" /\ MsgOf[p] = MsgOf[q]) => p = q
      BY <3>3, <3>5 DEF SubmissionInv
    <3>8. QED
      BY <3>1, <3>2, <3>3, <3>6, <3>7 DEF SubmissionInv
  <2>3. QED
    BY <2>1, <2>2
<1>9. CASE EnqueueDocket(r)
  <2> DEFINE m == MsgOf[r]
             p == IF m \in Incidents THEN "emergency" ELSE "put"
  <2>1. /\ docket' = Append(docket, m) /\ UNCHANGED <<taken, stored, idem, answer>>
        /\ pc' = [pc EXCEPT ![r] = p] /\ pc[r] = "enqueue"
    BY <1>9 DEF EnqueueDocket, Goto
  <2>2. m \in Messages
    BY SubmissionAssumption
  <2>3. /\ taken \in Seq(Messages) /\ docket \in Seq(Messages)
        /\ Handed \in Seq(Messages) /\ docket' \in Seq(Messages)
    BY <2>1, <2>2, ConcatProperties, AppendProperties DEF SubmissionInv, Handed
  <2>4. Handed' = Append(Handed, m)
    BY <2>1, <2>2, <2>3, EnqueueHanded DEF Handed
  <2>5. m \in stored \ Reached
    BY <2>1 DEF SubmissionInv
  <2>6. \A i \in DOMAIN Handed : Handed[i] # m
    BY <2>5 DEF Reached
  <2>7. \A i, j \in DOMAIN Handed : Handed[i] = Handed[j] => i = j
    BY DEF SubmissionInv, ProcessedOnce, Handed
  <2>8. /\ \A i, j \in DOMAIN Handed' : Handed'[i] = Handed'[j] => i = j
        /\ Reached' = Reached \cup {m}
    <3> DEFINE t == Append(Handed, m)
    <3>1. /\ \A i, j \in DOMAIN t : t[i] = t[j] => i = j
          /\ {t[i] : i \in DOMAIN t} = {Handed[i] : i \in DOMAIN Handed} \cup {m}
      BY <2>2, <2>3, <2>6, <2>7, AppendDistinct
    <3>2. Handed' = t
      BY <2>4
    <3> HIDE DEF t
    <3>3. QED
      BY <3>1, <3>2 DEF Reached
  <2>9. ProcessedOnce'
    BY <2>8 DEF ProcessedOnce, Handed
  <2>10. /\ DOMAIN pc' = Requests
         /\ \A q \in Requests : pc'[q] = IF q = r THEN p ELSE pc[q]
    BY <2>1 DEF SubmissionInv
  <2>11. p # "enqueue"
    OBVIOUS
  <2>12. \A q \in Requests \ {r} : pc[q] = "enqueue" => MsgOf[q] # m
    BY <2>1 DEF SubmissionInv
  <2> HIDE DEF m, p
  <2>13. \A q \in Requests :
            /\ pc'[q] = "enqueue" => MsgOf[q] \in stored' \ Reached'
            /\ pc'[q] \in Enqueued => MsgOf[q] \in Reached'
    BY <2>1, <2>8, <2>10, <2>11, <2>12 DEF SubmissionInv, m
  <2>14. \A x, y \in Requests :
            (pc'[x] = "enqueue" /\ pc'[y] = "enqueue" /\ MsgOf[x] = MsgOf[y]) => x = y
    BY <2>10, <2>11 DEF SubmissionInv
  <2>15. /\ Reached' \subseteq stored'
         /\ \A k \in DOMAIN idem' : idem'[k].id \in Reached'
         /\ \A q \in Requests : Positive(answer'[q]) => answer'[q][2] \in Reached'
         /\ DOMAIN answer' = Requests
    BY <2>1, <2>5, <2>8 DEF SubmissionInv
  <2>16. QED
    BY <2>1, <2>3, <2>9, <2>10, <2>13, <2>14, <2>15 DEF SubmissionInv
<1>10. CASE RouteIncident(r)
  BY <1>10, GotoStep DEF RouteIncident, Goto, Enqueued, SubmissionInv
<1>11. CASE AlertIncident(r)
  BY <1>11, GotoStep DEF AlertIncident, Goto, Enqueued, SubmissionInv, store
<1>12. CASE PutIdempotency(r)
  <2>1. MsgOf[r] \in Reached
    BY <1>12 DEF PutIdempotency, SubmissionInv, Enqueued
  <2>2. \A k \in DOMAIN idem' : idem'[k].id \in Reached
    <3>1. CASE KeyOf[r] = NoKey
      BY <1>12, <3>1 DEF PutIdempotency, SubmissionInv
    <3>2. CASE KeyOf[r] # NoKey
      <4>1. \A k \in DOMAIN idem' : idem'[k].id = MsgOf[r] \/ (k \in DOMAIN idem /\ idem'[k] = idem[k])
        BY <1>12, <3>2 DEF PutIdempotency
      <4>2. QED
        BY <2>1, <4>1 DEF SubmissionInv
    <3>3. QED
      BY <3>1, <3>2
  <2>3. Answer(r, "accepted", MsgOf[r]) /\ UNCHANGED <<taken, docket, stored>>
    BY <1>12 DEF PutIdempotency
  <2>4. QED
    BY <2>1, <2>2, <2>3, AnswerStep
<1>13. CASE Throw(r)
  BY <1>13, RefuseStep DEF Throw, store
<1>14. QED
  BY <1>1, <1>2, <1>3, <1>4, <1>5, <1>6, <1>7, <1>8, <1>9, <1>10, <1>11, <1>12, <1>13
     DEF Post

\* The loop takes from the docket what it adds to its history; the rest of
\* it, the timer, the clock and the other routes touch no request.
LEMMA LoopStep ==
    ASSUME SubmissionInv, GetMessage \/ EmergencyCall \/ Tick \/ Loop \/ PassTime
    PROVE  SubmissionInv'
<1>1. CASE Dequeue
  <2>1. UNCHANGED <<stored, idem, pc, answer>>
    BY <1>1 DEF Dequeue
  <2>2. CASE docket = <<>>
    BY <1>1, <2>1, <2>2, StillStep DEF Dequeue
  <2>3. CASE docket # <<>>
    <3>1. docket' = Tail(docket) /\ taken' = Append(taken, Head(docket))
      BY <1>1, <2>3 DEF Dequeue
    <3>2. /\ taken' \in Seq(Messages) /\ docket' \in Seq(Messages) /\ Handed' = Handed
      BY <2>3, <3>1, DequeueHanded DEF SubmissionInv, Handed
    <3>3. Reached' = Reached
      BY <3>2 DEF Reached
    <3>4. ProcessedOnce'
      BY <3>2 DEF SubmissionInv, ProcessedOnce, Handed
    <3>5. QED
      BY <2>1, <3>2, <3>3, <3>4 DEF SubmissionInv
  <2>4. QED
    BY <2>2, <2>3
<1>2. CASE GetMessage \/ EmergencyCall \/ Tick \/ EndLoop \/ Process \/ PassTime
  BY <1>2, StillStep
     DEF GetMessage, EmergencyCall, Tick, EndLoop, Process, PassTime, store
<1>3. QED
  BY <1>1, <1>2 DEF Loop

\* A restart drops the requests under way, between any two of their steps.
LEMMA RestartStep ==
    ASSUME SubmissionInv, Restart
    PROVE  SubmissionInv'
<1>1. /\ UNCHANGED <<taken, docket, stored, idem, answer>>
      /\ DOMAIN pc' = Requests
      /\ \A r \in Requests : pc'[r] = IF pc[r] \in InFlight THEN "lost" ELSE pc[r]
  BY DEF Restart, store
<1>2. Handed' = Handed /\ Reached' = Reached /\ ProcessedOnce'
  BY <1>1 DEF Handed, Reached, SubmissionInv, ProcessedOnce
<1>3. \A r \in Requests : pc'[r] # "enqueue" /\ pc'[r] \notin Enqueued
  BY <1>1 DEF InFlight, Enqueued
<1>4. QED
  BY <1>1, <1>2, <1>3 DEF SubmissionInv

LEMMA InitSubmissionInv == Init => SubmissionInv
<1> SUFFICES ASSUME Init PROVE SubmissionInv
  OBVIOUS
<1>1. taken = <<>> /\ docket = <<>> /\ taken \in Seq(Messages) /\ docket \in Seq(Messages)
  BY DEF Init
<1>2. Handed = <<>> /\ DOMAIN Handed = {}
  BY <1>1 DEF Handed
<1>3. Reached = {} /\ ProcessedOnce
  BY <1>2 DEF Reached, ProcessedOnce, Handed
<1>4. \A r \in Requests : pc[r] = "unsent" /\ answer[r] = <<>>
  BY DEF Init
<1>5. DOMAIN pc = Requests /\ DOMAIN answer = Requests /\ DOMAIN idem = {}
  BY DEF Init
<1>6. QED
  BY <1>1, <1>3, <1>4, <1>5 DEF SubmissionInv, Enqueued, Positive

LEMMA NextSubmissionInv == SubmissionInv /\ [Next]_vars => SubmissionInv'
<1> SUFFICES ASSUME SubmissionInv, [Next]_vars PROVE SubmissionInv'
  OBVIOUS
<1>1. CASE Next
  BY <1>1, PostStep, LoopStep, RestartStep DEF Next
<1>2. CASE UNCHANGED vars
  BY <1>2, StillStep DEF vars, store
<1>3. QED
  BY <1>1, <1>2

-----------------------------------------------------------------------------
\* The worker never gets the same petition twice: enqueueDocket runs at most
\* once for a message, whatever is retried, expires, throws or restarts
\* (POST /messages, packages/gateway/src/index.ts).
THEOREM HandedOnce == Spec => []ProcessedOnce
<1>1. SubmissionInv => ProcessedOnce
  BY DEF SubmissionInv
<1>2. QED
  BY <1>1, InitSubmissionInv, NextSubmissionInv, PTL DEF Spec

\* A client told 202, or 200 from the idempotency table, was told of a
\* message that is stored and was put on the docket.
THEOREM PositiveIsQueued == Spec => []AnsweredIsQueued
<1>1. SubmissionInv => AnsweredIsQueued
  BY DEF SubmissionInv, AnsweredIsQueued, Reached, Handed, Positive
<1>2. QED
  BY <1>1, InitSubmissionInv, NextSubmissionInv, PTL DEF Spec

-----------------------------------------------------------------------------
(* The way into the pipeline.                                              *)

\* Request r goes on, from an await other than enqueueDocket's to another.
GoesOn(r) ==
    /\ pc[r] # "enqueue" /\ pc'[r] # "enqueue"
    /\ \A q \in Requests \ {r} : pc'[q] = pc[q]

\* Only the two writes of a request touch what Intake speaks of.
LEMMA PostGoesOn ==
    ASSUME SubmissionInv, NEW r \in Requests, Post(r), ~AppendMessage(r), ~EnqueueDocket(r)
    PROVE  UNCHANGED <<stored, docket>> /\ GoesOn(r)
<1>1. UNCHANGED <<stored, docket>>
  BY Zenon DEF Post, Arrive, Preload, LookUp, ValidateByArchivedTi, AdmissionCheck,
        CheckSite, Detect, RouteIncident, AlertIncident, PutIdempotency, store
<1>2. DOMAIN pc = Requests
  BY DEF SubmissionInv
<1>3. CASE Arrive(r) \/ Preload(r) \/ LookUp(r)
  BY <1>1, <1>2, <1>3 DEF Arrive, Preload, LookUp, Goto, Refuse, Answer, GoesOn
<1>4. CASE ValidateByArchivedTi(r) \/ AdmissionCheck(r) \/ CheckSite(r)
  BY <1>1, <1>2, <1>4 DEF ValidateByArchivedTi, AdmissionCheck, CheckSite, Goto, Refuse,
                    Answer, GoesOn
<1>5. CASE Detect(r)
  <2>1. pc[r] # "enqueue" /\ (Goto(r, "append") \/ Refuse(r))
    BY <1>5 DEF Detect
  <2>2. QED
    BY <1>1, <1>2, <2>1 DEF Refuse, Goto, Answer, GoesOn
<1>6. CASE RouteIncident(r) \/ AlertIncident(r) \/ PutIdempotency(r)
  <2>1. /\ pc[r] # "enqueue"
        /\ Goto(r, "alert") \/ Goto(r, "put") \/ Answer(r, "accepted", MsgOf[r])
    BY <1>6 DEF RouteIncident, AlertIncident, PutIdempotency
  <2>2. QED
    BY <1>1, <1>2, <2>1 DEF Goto, Answer, GoesOn
<1>7. QED
  BY <1>1, <1>3, <1>4, <1>5, <1>6 DEF Post

\* A request that goes on leaves the waiting messages as they are.
LEMMA WaitingKept ==
    ASSUME SubmissionInv, NEW r \in Requests, GoesOn(r)
    PROVE  Waiting' = Waiting
<1>1. \A q \in Requests : pc'[q] = "enqueue" <=> pc[q] = "enqueue"
  BY DEF GoesOn
<1>2. QED
  BY <1>1 DEF Waiting

\* A step of Submission is a step of Intake or leaves its variables alone.
LEMMA IntakeStep == SubmissionInv /\ [Next]_vars => [Entry!Next]_(Entry!vars)
<1> SUFFICES ASSUME SubmissionInv, [Next]_vars PROVE [Entry!Next]_(Entry!vars)
  OBVIOUS
<1>1. DOMAIN pc = Requests
  BY DEF SubmissionInv
<1>2. ASSUME NEW r \in Requests, AppendMessage(r)
      PROVE  [Entry!Next]_(Entry!vars)
  <2>1. CASE MsgOf[r] \in stored
    <3>1. /\ UNCHANGED <<stored, docket>> /\ pc[r] # "enqueue"
          /\ Answer(r, "refused", MsgOf[r])
      BY <1>2, <2>1 DEF AppendMessage, Refuse
    <3>2. GoesOn(r)
      BY <1>1, <3>1 DEF Answer, GoesOn
    <3>3. QED
      BY <3>1, <3>2, WaitingKept DEF Entry!vars
  <2>2. CASE MsgOf[r] \notin stored
    <3>1. /\ stored' = stored \cup {MsgOf[r]} /\ docket' = docket
          /\ pc' = [pc EXCEPT ![r] = "enqueue"] /\ pc[r] # "enqueue"
      BY <1>2, <2>2 DEF AppendMessage, Goto
    <3>2. \A q \in Requests : pc'[q] = "enqueue" <=> q = r \/ pc[q] = "enqueue"
      BY <1>1, <3>1
    <3>3. Waiting' = Waiting \cup {MsgOf[r]}
      BY <3>2 DEF Waiting
    <3>4. Entry!Store(MsgOf[r]) /\ MsgOf[r] \in Messages
      BY <2>2, <3>1, <3>3, SubmissionAssumption DEF Entry!Store
    <3>5. QED
      BY <3>4 DEF Entry!Next
  <2>3. QED
    BY <2>1, <2>2
<1>3. ASSUME NEW r \in Requests, EnqueueDocket(r)
      PROVE  Entry!Next
  <2> DEFINE p == IF MsgOf[r] \in Incidents THEN "emergency" ELSE "put"
  <2>1. /\ pc[r] = "enqueue" /\ docket' = Append(docket, MsgOf[r]) /\ stored' = stored
        /\ pc' = [pc EXCEPT ![r] = p] /\ p # "enqueue"
    BY <1>3 DEF EnqueueDocket, Goto
  <2> HIDE DEF p
  <2>2. \A q \in Requests : pc'[q] = "enqueue" <=> pc[q] = "enqueue" /\ q # r
    BY <1>1, <2>1
  <2>3. \A q \in Requests : pc[q] = "enqueue" /\ MsgOf[q] = MsgOf[r] => q = r
    BY <2>1 DEF SubmissionInv
  <2>4. Waiting' = Waiting \ {MsgOf[r]} /\ MsgOf[r] \in Waiting
    BY <2>1, <2>2, <2>3 DEF Waiting
  <2>5. Entry!Put(MsgOf[r]) /\ MsgOf[r] \in Messages
    BY <2>1, <2>4, SubmissionAssumption DEF Entry!Put
  <2>6. QED
    BY <2>5 DEF Entry!Next
<1>4. ASSUME NEW r \in Requests, Throw(r)
      PROVE  Entry!Next
  <2>1. UNCHANGED <<stored, docket>> /\ pc' = [pc EXCEPT ![r] = "answered"]
    BY <1>4 DEF Throw, Refuse, Answer, store
  <2>2. \A q \in Requests : pc'[q] = "enqueue" => pc[q] = "enqueue"
    BY <1>1, <2>1
  <2>3. Waiting' \in SUBSET Waiting
    BY <2>2 DEF Waiting
  <2>4. QED
    BY <2>1, <2>3 DEF Entry!Drop, Entry!Next
<1>5. CASE Restart
  <2>1. UNCHANGED <<stored, docket>>
    BY <1>5 DEF Restart, store
  <2>2. \A q \in Requests : pc'[q] # "enqueue"
    BY <1>5 DEF Restart, InFlight
  <2>3. Waiting' \in SUBSET Waiting
    BY <2>2 DEF Waiting
  <2>4. QED
    BY <2>1, <2>3 DEF Entry!Drop, Entry!Next
<1>6. CASE Dequeue
  <2>1. /\ stored' = stored /\ pc' = pc
        /\ docket' = docket \/ (docket # <<>> /\ docket' = Tail(docket))
    BY <1>6 DEF Dequeue
  <2>2. Waiting' = Waiting
    BY <2>1 DEF Waiting
  <2>3. QED
    BY <2>1, <2>2 DEF Entry!Take, Entry!Next, Entry!vars
<1>7. CASE \/ GetMessage \/ EmergencyCall \/ Tick \/ EndLoop \/ Process \/ PassTime
           \/ UNCHANGED vars
  <2>1. stored' = stored /\ docket' = docket /\ pc' = pc
    BY <1>7, Zenon
       DEF GetMessage, EmergencyCall, Tick, EndLoop, Process, PassTime, store, vars
  <2>2. Waiting' = Waiting
    BY <2>1 DEF Waiting
  <2>3. QED
    BY <2>1, <2>2 DEF Entry!vars
<1>8. ASSUME NEW r \in Requests, Post(r), ~AppendMessage(r), ~EnqueueDocket(r)
      PROVE  UNCHANGED Entry!vars
  BY <1>8, PostGoesOn, WaitingKept DEF Entry!vars
<1>9. QED
  BY <1>2, <1>3, <1>4, <1>5, <1>6, <1>7, <1>8, Zenon DEF Next, Loop

\* However requests overlap, throw or are cut off by a restart, a message enters
\* the archive and the docket as Intake says: the interface at which Docket
\* takes over (POST /messages, processDocketLoop).
THEOREM SubmissionImplementsIntake == Spec => SubmissionIsIntake
<1>1. Init => Entry!Init
  BY DEF Init, Entry!Init, Waiting
<1>2. QED
  BY <1>1, InitSubmissionInv, NextSubmissionInv, IntakeStep, PTL
     DEF Spec, SubmissionIsIntake, Entry!Spec
=============================================================================
