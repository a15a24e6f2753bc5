-------------------------- MODULE Documents_proofs --------------------------
(***************************************************************************)
(* Proofs about Documents: the rows, the messages of the conversion queue  *)
(* and what the requests in flight hold agree, for every number of         *)
(* requests, documents and faults.                                         *)
(***************************************************************************)
EXTENDS Documents, TLAPS

\* Where the message of a document is.
Steps == {"none", "queued", "select", "config", "file", "convert", "update",
          "error", "ack", "acked"}

\* Where a request is.
Labels == {"idle", "done", "limit", "access", "config", "store", "insert",
           "enqueue", "refused", "select", "serve", "projects", "rows",
           "find", "set"}

OpNames == {"none"} \cup UNION {Operations[r] : r \in Requests}
UserNames == {Owner} \cup UNION {Users[r] : r \in Requests}

Request ==
    [op : OpNames, u : UserNames,
     d : 0 .. MaxDoc, kind : {"none"} \cup Kinds, big : BOOLEAN,
     keys : SUBSET {"max", "url"}, pc : Labels, new : 0 .. MaxDoc,
     found : BOOLEAN, ans : {0, 201}]

\* A document is out of "processing" before its message is acknowledged, not
\* only after it.
Reported ==
    \A d \in Ids :
        (message[d] \in {"ack", "acked"} /\ documents[d].status = "processing") =>
            d \in analyzed \cup unreported

DataInv ==
    /\ TypeOK /\ message \in [Ids -> Steps]
    /\ UploadedIsReadable /\ Reported

\* What request q holds: the document it selected was given an id; the one it
\* is about to enqueue is a .docx file; and what it accepted is in the queue.
Holding(q, docs, msg, nd) ==
    /\ q.op \in {"Status", "Content", "Results", "Analyze", "Delete"} =>
          q.d \in 1 .. nd - 1
    /\ q.pc \in {"enqueue", "refused"} =>
          q.new \in 1 .. nd - 1 /\ (docs[q.new] # NoDoc => DocxFile(docs[q.new]))
    /\ q.op = "Upload" => q.kind \in Kinds
    /\ q.ans = 201 => q.pc = "done"
    /\ (q.kind = "docx" /\ q.ans = 201) => q.new \in Ids /\ msg[q.new] # "none"

RequestInv ==
    /\ req \in [Requests -> Request]
    /\ \A r \in Requests : Holding(req[r], documents, message, nextDoc)

DocumentsInv == DataInv /\ RequestInv
-----------------------------------------------------------------------------
(* What the steps share.                                                   *)

\* Ids are given out once, a .docx file stays one and a message stays known.
Evolves ==
    /\ nextDoc' \in Int /\ nextDoc <= nextDoc'
    /\ \A d \in 1 .. nextDoc - 1 :
          documents'[d] # NoDoc =>
              documents[d] # NoDoc /\ DocxFile(documents'[d]) = DocxFile(documents[d])
    /\ \A d \in Ids : message[d] # "none" => message'[d] # "none"

data == <<documents, nextDoc, project, config, message, analyzed, unreported, faults>>

\* NoDoc is no row.
LEMMA RowIsNotNoDoc ==
    /\ NoDoc \notin DocumentRow
    /\ NoDoc.kind = "none" /\ NoDoc.status = "none" /\ ~DocxFile(NoDoc)
<1>1. NoDoc.kind = "none" /\ NoDoc.status = "none"
  BY DEF NoDoc
<1>2. \A row \in DocumentRow : row.kind # "none"
  BY DEF DocumentRow
<1>3. QED
  BY <1>1, <1>2 DEF DocxFile

\* The ids given out so far are among those given out later.
LEMMA IdsGrow ==
    ASSUME NEW a \in Int, NEW b \in Int, a <= b
    PROVE  1 .. a - 1 \subseteq 1 .. b - 1
OBVIOUS

LEMMA IdleRequest == Idle \in Request /\ Idle.ans = 0 /\ Idle.pc = "idle" /\ Idle.op = "none"
BY DocumentsAssumption DEF Idle, Request, Labels, OpNames, UserNames

\* A request that has just arrived.
LEMMA ArrivedRequest ==
    ASSUME NEW op \in OpNames, NEW u \in UserNames, NEW d \in 0 .. MaxDoc,
           NEW kind \in {"none"} \cup Kinds, NEW big \in BOOLEAN,
           NEW keys \in SUBSET {"max", "url"}, NEW f \in Labels
    PROVE  [op |-> op, u |-> u, d |-> d, kind |-> kind, big |-> big, keys |-> keys,
            pc |-> f, new |-> 0, found |-> FALSE, ans |-> 0] \in Request
<1>1. 0 \in 0 .. MaxDoc
  BY DocumentsAssumption
<1>2. QED
  BY <1>1 DEF Request

\* What others hold stays good.
LEMMA HoldingEvolves ==
    ASSUME DataInv, Evolves, NEW q \in Request, Holding(q, documents, message, nextDoc)
    PROVE  Holding(q, documents', message', nextDoc')
<1>1. nextDoc \in Int
  BY DEF DataInv, TypeOK
<1>2. nextDoc' \in Int /\ nextDoc <= nextDoc'
  BY DEF Evolves
<1>3. 1 .. nextDoc - 1 \subseteq 1 .. nextDoc' - 1
  BY <1>1, <1>2, IdsGrow
<1>4. QED
  BY <1>3 DEF Holding, Evolves

\* Request r moves to q.
LEMMA RequestStep ==
    ASSUME DataInv, RequestInv, Evolves, NEW r \in Requests, NEW q \in Request,
           \A x \in Requests : req'[x] = IF x = r THEN q ELSE req[x],
           req' \in [Requests -> Request],
           Holding(q, documents', message', nextDoc')
    PROVE  RequestInv'
<1>1. \A x \in Requests : Holding(req[x], documents', message', nextDoc')
  BY HoldingEvolves DEF RequestInv
<1>2. QED
  BY <1>1 DEF RequestInv

\* No request moves.
LEMMA NoRequestStep ==
    ASSUME DataInv, RequestInv, Evolves, UNCHANGED req
    PROVE  RequestInv'
BY HoldingEvolves DEF RequestInv

\* Nothing is written.
LEMMA NoDataStep ==
    ASSUME DataInv, UNCHANGED data
    PROVE  DataInv' /\ Evolves
<1>1. DataInv'
  BY DEF DataInv, TypeOK, UploadedIsReadable, Reported, Exists, data
<1>2. Evolves
  BY DEF DataInv, TypeOK, Evolves, data
<1>3. QED
  BY <1>1, <1>2

\* A handler goes on to its next call.
LEMMA GotoStep ==
    ASSUME DataInv, RequestInv, Evolves, NEW r \in Requests, NEW l \in Labels, Goto(r, l),
           req[r].pc # "done", l # "done",
           l \in {"enqueue", "refused"} => req[r].pc = "enqueue"
    PROVE  RequestInv'
<1> DEFINE q == [req[r] EXCEPT !.pc = l]
<1>1. req[r] \in Request /\ Holding(req[r], documents', message', nextDoc')
  BY HoldingEvolves DEF RequestInv
<1>2. /\ q \in Request /\ q.op = req[r].op /\ q.d = req[r].d /\ q.new = req[r].new
      /\ q.kind = req[r].kind /\ q.ans = req[r].ans /\ q.pc = l
  BY <1>1 DEF Request
<1>3. req' = [req EXCEPT ![r] = q]
  BY DEF Goto
<1> HIDE DEF q
<1>4. /\ \A x \in Requests : req'[x] = IF x = r THEN q ELSE req[x]
      /\ req' \in [Requests -> Request]
  BY <1>2, <1>3 DEF RequestInv
<1>5. Holding(q, documents', message', nextDoc')
  BY <1>1, <1>2 DEF Holding
<1>6. QED
  BY <1>2, <1>4, <1>5, RequestStep

\* A handler answers.
LEMMA AnswerStep ==
    ASSUME DataInv, RequestInv, Evolves, NEW r \in Requests, NEW status, Answer(r, status),
           (status = 201 /\ req[r].kind = "docx") =>
               req[r].new \in Ids /\ message'[req[r].new] # "none"
    PROVE  RequestInv'
<1> DEFINE q == IF status = 201
                THEN [Idle EXCEPT !.pc = "done", !.ans = status,
                          !.kind = req[r].kind, !.new = req[r].new]
                ELSE [Idle EXCEPT !.pc = "done"]
<1>1. req[r] \in Request
  BY DEF RequestInv
<1>2. req[r].kind \in {"none"} \cup Kinds /\ req[r].new \in 0 .. MaxDoc
  BY <1>1 DEF Request
<1>3. 0 \in 0 .. MaxDoc /\ "none" \in OpNames /\ Owner \in UserNames
  BY DocumentsAssumption DEF OpNames, UserNames
<1>4. CASE status = 201
  <2>0. q = [Idle EXCEPT !.pc = "done", !.ans = 201,
                         !.kind = req[r].kind, !.new = req[r].new]
    BY <1>4
  <2>1. q = [op |-> "none", u |-> Owner, d |-> 0, kind |-> req[r].kind, big |-> FALSE,
             keys |-> {}, pc |-> "done", new |-> req[r].new, found |-> FALSE, ans |-> 201]
    <3> DEFINE k == req[r].kind
               n == req[r].new
    <3>1. q = [Idle EXCEPT !.pc = "done", !.ans = 201, !.kind = k, !.new = n]
      BY <2>0
    <3> HIDE DEF k, n, q
    <3>2. q = [op |-> "none", u |-> Owner, d |-> 0, kind |-> k, big |-> FALSE,
               keys |-> {}, pc |-> "done", new |-> n, found |-> FALSE, ans |-> 201]
      BY <3>1, ZenonT(30) DEF Idle
    <3>3. QED
      BY <3>2 DEF k, n
  <2> HIDE DEF q
  <2>2. q \in Request /\ q.op = "none" /\ q.pc = "done" /\ q.kind = req[r].kind
        /\ q.new = req[r].new /\ q.ans = 201
    BY <1>2, <1>3, <2>1 DEF Request, Labels
  <2>3. Holding(q, documents', message', nextDoc')
    BY <1>4, <2>2 DEF Holding
  <2>4. req' = [req EXCEPT ![r] = q]
    BY DEF Answer, q
  <2>5. /\ \A x \in Requests : req'[x] = IF x = r THEN q ELSE req[x]
        /\ req' \in [Requests -> Request]
    BY <2>2, <2>4 DEF RequestInv
  <2>6. QED
    BY <2>2, <2>3, <2>5, RequestStep
<1>5. CASE status # 201
  <2>1. q = [op |-> "none", u |-> Owner, d |-> 0, kind |-> "none", big |-> FALSE,
             keys |-> {}, pc |-> "done", new |-> 0, found |-> FALSE, ans |-> 0]
    BY <1>5 DEF Idle
  <2> HIDE DEF q
  <2>2. q \in Request /\ q.op = "none" /\ q.pc = "done" /\ q.ans = 0
    BY <1>3, <2>1 DEF Request, Labels
  <2>3. Holding(q, documents', message', nextDoc')
    BY <2>2 DEF Holding
  <2>4. req' = [req EXCEPT ![r] = q]
    BY DEF Answer, q
  <2>5. /\ \A x \in Requests : req'[x] = IF x = r THEN q ELSE req[x]
        /\ req' \in [Requests -> Request]
    BY <2>2, <2>4 DEF RequestInv
  <2>6. QED
    BY <2>2, <2>3, <2>5, RequestStep
<1>6. QED
  BY <1>4, <1>5

-----------------------------------------------------------------------------
(* The writes.                                                             *)

\* A status is written: an error, or "processing" for an analysis.
LEMMA SetStatusStep ==
    ASSUME DataInv, NEW d \in Ids, NEW status \in {"error", "processing"},
           SetStatus(d, status), NEW S \in SUBSET Ids, analyzed' = analyzed \cup S,
           status = "processing" => d \in S,
           UNCHANGED <<nextDoc, project, config, message, unreported, faults>>
    PROVE  DataInv' /\ Evolves
<1>1. CASE ~Exists(d)
  BY <1>1 DEF SetStatus, DataInv, TypeOK, UploadedIsReadable, Reported, Exists, Evolves
<1>2. CASE Exists(d)
  <2> DEFINE row == [documents[d] EXCEPT !.status = status]
  <2>1. documents' = [documents EXCEPT ![d] = row]
    BY <1>2 DEF SetStatus
  <2>2. documents[d] \in DocumentRow
    BY <1>2 DEF DataInv, TypeOK, Exists
  <2>3. /\ row \in DocumentRow /\ row.status = status
        /\ DocxFile(row) = DocxFile(documents[d])
    BY <2>2 DEF DocumentRow, DocxFile
  <2>4. row # NoDoc
    BY <2>3, RowIsNotNoDoc
  <2> HIDE DEF row
  <2>5. /\ documents' \in [Ids -> DocumentRow \cup {NoDoc}]
        /\ \A x \in Ids : documents'[x] = IF x = d THEN row ELSE documents[x]
    BY <2>1, <2>3 DEF DataInv, TypeOK
  <2>6. TypeOK'
    BY <1>2, <2>3, <2>4, <2>5 DEF DataInv, TypeOK, Exists
  <2>7. UploadedIsReadable'
    BY <2>3, <2>5 DEF DataInv, UploadedIsReadable
  <2>8. Reported'
    BY <2>3, <2>5 DEF DataInv, Reported
  <2>9. Evolves
    <3>1. 1 .. nextDoc - 1 \subseteq Ids
      BY DocumentsAssumption DEF DataInv, TypeOK, Ids
    <3>2. QED
      BY <1>2, <2>3, <2>5, <3>1 DEF DataInv, TypeOK, Exists, Evolves
  <2>10. QED
    BY <2>6, <2>7, <2>8, <2>9 DEF DataInv
<1>3. QED
  BY <1>1, <1>2

\* A row under the next id: no message was sent for it yet.
LEMMA InsertStep ==
    ASSUME DataInv, NEW row \in DocumentRow, nextDoc <= MaxDoc, project,
           DocxFile(row) => row.status # "uploaded",
           documents' = [documents EXCEPT ![nextDoc] = row], nextDoc' = nextDoc + 1,
           UNCHANGED <<project, config, message, analyzed, unreported, faults>>
    PROVE  DataInv' /\ Evolves
<1>1. nextDoc \in Ids /\ nextDoc \in Int /\ 1 .. nextDoc - 1 \subseteq Ids
  BY DocumentsAssumption DEF DataInv, TypeOK, Ids
<1>2. message[nextDoc] = "none"
  BY <1>1 DEF DataInv, TypeOK
<1>3. row # NoDoc
  BY RowIsNotNoDoc
<1>4. /\ documents' \in [Ids -> DocumentRow \cup {NoDoc}]
      /\ \A x \in Ids : documents'[x] = IF x = nextDoc THEN row ELSE documents[x]
  BY <1>1 DEF DataInv, TypeOK
<1>5. TypeOK'
  <2>1. nextDoc' \in 1 .. MaxDoc + 1
    BY DocumentsAssumption DEF DataInv, TypeOK
  <2>2. ASSUME NEW x \in Ids
        PROVE  /\ Exists(x)' => project' /\ x < nextDoc'
               /\ message'[x] # "none" =>
                     x < nextDoc' /\ (Exists(x)' => DocxFile(documents'[x]))
    <3>1. CASE x = nextDoc
      BY <1>1, <1>2, <3>1
    <3>2. CASE x # nextDoc
      <4>1. documents'[x] = documents[x] /\ x \in Int
        BY <1>4, <3>2 DEF Ids
      <4>2. /\ Exists(x) => x < nextDoc
            /\ message[x] # "none" => x < nextDoc /\ (Exists(x) => DocxFile(documents[x]))
        BY DEF DataInv, TypeOK
      <4>3. QED
        BY <1>1, <4>1, <4>2 DEF Exists
    <3>3. QED
      BY <3>1, <3>2
  <2>3. QED
    BY <1>4, <2>1, <2>2 DEF DataInv, TypeOK, Exists
<1>6. UploadedIsReadable'
  BY <1>4 DEF DataInv, UploadedIsReadable
<1>7. Reported'
  BY <1>2, <1>4 DEF DataInv, Reported
<1>8. Evolves
  BY <1>1, <1>4 DEF Evolves
<1>9. QED
  BY <1>5, <1>6, <1>7, <1>8 DEF DataInv

\* The message of a .docx document moves; what leaves the handler is reported.
LEMMA MoveStep ==
    ASSUME DataInv, NEW d \in Ids, NEW l \in Steps \ {"none"}, Move(d, l), d < nextDoc,
           Exists(d) => DocxFile(documents[d]),
           l \in {"ack", "acked"} /\ documents[d].status = "processing" =>
               d \in analyzed \cup unreported',
           unreported \subseteq unreported', unreported' \subseteq Ids,
           faults' \in 0 .. MaxFaults,
           UNCHANGED <<documents, nextDoc, project, config, analyzed>>
    PROVE  DataInv' /\ Evolves
<1>1. /\ message' \in [Ids -> Steps]
      /\ \A x \in Ids : message'[x] = IF x = d THEN l ELSE message[x]
  BY DEF Move, DataInv
<1>2. TypeOK'
  BY <1>1 DEF DataInv, TypeOK, Exists
<1>3. UploadedIsReadable'
  BY DEF DataInv, UploadedIsReadable
<1>4. Reported'
  BY <1>1 DEF DataInv, Reported
<1>5. Evolves
  BY <1>1 DEF Evolves, DataInv, TypeOK
<1>6. QED
  BY <1>1, <1>2, <1>3, <1>4, <1>5 DEF DataInv

-----------------------------------------------------------------------------
(* The handlers.                                                           *)

\* A call that only reads: the handler goes on or answers.
LEMMA ReadStep ==
    ASSUME DocumentsInv, NEW r \in Requests, UNCHANGED data, req[r].pc # "done",
           \/ \E l \in Labels \ {"done", "enqueue", "refused"} : Goto(r, l)
           \/ \E status \in Int \ {201} : Answer(r, status)
    PROVE  DocumentsInv'
<1>1. DataInv /\ RequestInv /\ DataInv' /\ Evolves
  BY NoDataStep DEF DocumentsInv
<1>2. ASSUME NEW l \in Labels \ {"done", "enqueue", "refused"}, Goto(r, l)
      PROVE  RequestInv'
  BY <1>1, <1>2, GotoStep
<1>3. ASSUME NEW status \in Int \ {201}, Answer(r, status)
      PROVE  RequestInv'
  BY <1>1, <1>3, AnswerStep
<1>4. QED
  BY <1>1, <1>2, <1>3 DEF DocumentsInv

LEMMA AccessStep ==
    ASSUME DocumentsInv, NEW r \in Requests, req[r].pc # "done",
           NEW then \in Labels \ {"done", "enqueue", "refused"},
           assertProjectAccess(r, then)
    PROVE  DocumentsInv'
<1>1. UNCHANGED data /\ (Goto(r, then) \/ Answer(r, 403))
  BY DEF assertProjectAccess, others, data
<1>2. 403 \in Int \ {201}
  OBVIOUS
<1>3. QED
  BY <1>1, <1>2, ReadStep

\* A row is inserted: a text or JSON document is answered at once, a .docx
\* file goes on to the queue.
LEMMA InsertDocumentStep ==
    ASSUME DocumentsInv, NEW r \in Requests, NEW row \in DocumentRow, NEW then,
           InsertDocument(r, row, then), req[r].pc = "insert",
           DocxFile(row) => row.status # "uploaded",
           \/ then = "done" /\ req[r].kind # "docx"
           \/ then = "enqueue" /\ DocxFile(row)
    PROVE  DocumentsInv'
<1>1. DataInv /\ RequestInv /\ req[r] \in Request
  BY DEF DocumentsInv, RequestInv
<1>2. CASE ~project
  <2>1. UNCHANGED data /\ Answer(r, 500)
    BY <1>2 DEF InsertDocument, others, data
  <2>2. 500 \in Int \ {201} /\ req[r].pc # "done"
    OBVIOUS
  <2>3. QED
    BY <2>1, <2>2, ReadStep
<1>3. CASE project
  <2>1. /\ nextDoc <= MaxDoc /\ documents' = [documents EXCEPT ![nextDoc] = row]
        /\ nextDoc' = nextDoc + 1
        /\ UNCHANGED <<project, config, message, analyzed, unreported, faults>>
    BY <1>3 DEF InsertDocument, others
  <2>2. DataInv' /\ Evolves
    BY <1>1, <1>3, <2>1, InsertStep
  <2>3. CASE then = "done" /\ req[r].kind # "docx"
    <3>1. Answer(r, 201) \/ Answer(r, 200)
      BY <1>3, <2>3 DEF InsertDocument
    <3>2. QED
      BY <1>1, <2>2, <2>3, <3>1, AnswerStep DEF DocumentsInv
  <2>4. CASE then = "enqueue" /\ DocxFile(row)
    <3> DEFINE q == [req[r] EXCEPT !.pc = "enqueue", !.new = nextDoc]
    <3>1. req' = [req EXCEPT ![r] = q]
      BY <1>3, <2>4 DEF InsertDocument
    <3>2. nextDoc \in 0 .. MaxDoc /\ nextDoc \in Ids /\ nextDoc \in 1 .. nextDoc' - 1
      BY <1>1, <2>1, DocumentsAssumption DEF DataInv, TypeOK, Ids
    <3>3. /\ q \in Request /\ q.op = req[r].op /\ q.d = req[r].d /\ q.new = nextDoc
          /\ q.kind = req[r].kind /\ q.ans = req[r].ans /\ q.pc = "enqueue"
      BY <1>1, <3>2, ZenonT(30) DEF Request, Labels
    <3> HIDE DEF q
    <3>4. documents'[nextDoc] = row
      BY <1>1, <2>1, <3>2 DEF DataInv, TypeOK
    <3>5. Holding(req[r], documents', message', nextDoc')
      BY <1>1, <2>2, HoldingEvolves DEF RequestInv
    <3>6. req[r].ans # 201
      BY <3>5 DEF Holding
    <3>7. Holding(q, documents', message', nextDoc')
      BY <2>4, <3>2, <3>3, <3>4, <3>5, <3>6 DEF Holding
    <3>8. /\ \A x \in Requests : req'[x] = IF x = r THEN q ELSE req[x]
          /\ req' \in [Requests -> Request]
      BY <1>1, <3>1, <3>3 DEF RequestInv
    <3>9. QED
      BY <1>1, <2>2, <3>3, <3>7, <3>8, RequestStep DEF DocumentsInv
  <2>5. QED
    BY <2>3, <2>4
<1>4. QED
  BY <1>2, <1>3

\* The message of the document that request r has inserted goes into the
\* queue, or does not.
LEMMA SentStep ==
    ASSUME DocumentsInv, NEW r \in Requests, req[r].pc = "enqueue",
           \/ UNCHANGED message
           \/ message' = [message EXCEPT ![req[r].new] = "queued"],
           faults' \in 0 .. MaxFaults,
           UNCHANGED <<documents, nextDoc, project, config, analyzed, unreported>>
    PROVE  /\ DataInv' /\ Evolves
           /\ req[r].new \in Ids
           /\ message' # message => message'[req[r].new] # "none"
<1>1. DataInv /\ Holding(req[r], documents, message, nextDoc)
  BY DEF DocumentsInv, RequestInv
<1> DEFINE d == req[r].new
<1>2. d \in Ids /\ d < nextDoc /\ (Exists(d) => DocxFile(documents[d]))
  BY <1>1, DocumentsAssumption DEF Holding, Ids, Exists, DataInv, TypeOK
<1> HIDE DEF d
<1>3. CASE UNCHANGED message
  <2>1. DataInv'
    BY <1>1, <1>3 DEF DataInv, TypeOK, UploadedIsReadable, Reported, Exists
  <2>2. Evolves
    BY <1>1, <1>3 DEF DataInv, TypeOK, Evolves
  <2>3. QED
    BY <1>2, <1>3, <2>1, <2>2 DEF d
<1>4. CASE message' = [message EXCEPT ![d] = "queued"]
  <2>1. Move(d, "queued") /\ "queued" \in Steps \ {"none"}
    BY <1>4 DEF Move, Steps
  <2>2. unreported' \subseteq Ids
    BY <1>1 DEF DataInv, TypeOK
  <2>3. DataInv' /\ Evolves
    BY <1>1, <1>2, <2>1, <2>2, MoveStep
  <2>4. message'[d] = "queued"
    BY <1>1, <1>2, <1>4 DEF DataInv
  <2>5. QED
    BY <1>2, <2>3, <2>4 DEF d
<1>5. QED
  BY <1>3, <1>4 DEF d

LEMMA UploadStep ==
    ASSUME DocumentsInv, NEW r \in Requests, handleDocumentUpload(r)
    PROVE  DocumentsInv'
<1> USE DEF At
<1>1. DataInv /\ RequestInv /\ req[r] \in Request /\ Holding(req[r], documents, message, nextDoc)
  BY DEF DocumentsInv, RequestInv
<1>2. /\ {"access", "config", "insert", "store"} \subseteq Labels \ {"done", "enqueue", "refused"}
      /\ 500 \in Int \ {201} /\ 413 \in Int \ {201}
  BY DEF Labels
<1>3. CASE UploadChecks(r)
  <2>1. CASE At(r, "Upload", "limit")
    <3>1. UNCHANGED data /\ (Answer(r, 500) \/ Answer(r, 413) \/ Goto(r, "access"))
      BY <1>3, <2>1 DEF UploadChecks, assertProjectAccess, others, data
    <3>2. QED
      BY <1>2, <2>1, <3>1, ReadStep
  <2>2. CASE At(r, "Upload", "access")
    <3>1. \/ assertProjectAccess(r, "config")
          \/ assertProjectAccess(r, "insert")
      BY <1>3, <2>2 DEF UploadChecks
    <3>2. QED
      BY <1>2, <2>2, <3>1, AccessStep
  <2>3. QED
    BY <1>3, <2>1, <2>2 DEF UploadChecks
<1>4. CASE UploadText(r)
  <2>1. PICK kind \in {"docx", "other"}, content \in BOOLEAN :
          InsertDocument(r, [kind |-> kind, status |-> "uploaded",
                             content |-> content, stored |-> FALSE], "done")
    BY <1>4 DEF UploadText
  <2> DEFINE row == [kind |-> kind, status |-> "uploaded", content |-> content,
                     stored |-> FALSE]
  <2>2. req[r].pc = "insert" /\ req[r].kind # "docx"
    BY <1>4 DEF UploadText
  <2>3. row \in DocumentRow /\ ~DocxFile(row)
    BY DEF DocumentRow, DocxFile
  <2> HIDE DEF row
  <2>4. InsertDocument(r, row, "done")
    BY <2>1 DEF row
  <2>5. QED
    BY <2>2, <2>3, <2>4, InsertDocumentStep
<1>5. CASE UploadDocx(r)
  <2>1. CASE At(r, "Upload", "config")
    <3>1. UNCHANGED data /\ (Goto(r, "store") \/ Answer(r, 500))
      BY <1>5, <2>1 DEF UploadDocx, others, data
    <3>2. QED
      BY <1>2, <2>1, <3>1, ReadStep
  <2>2. CASE At(r, "Upload", "store")
    <3>1. UNCHANGED data /\ Goto(r, "insert")
      BY <1>5, <2>2 DEF UploadDocx, others, data
    <3>2. QED
      BY <1>2, <2>2, <3>1, ReadStep
  <2>3. CASE At(r, "Upload", "insert")
    <3> DEFINE row == [kind |-> "docx", status |-> "processing", content |-> FALSE,
                       stored |-> TRUE]
    <3>1. InsertDocument(r, row, "enqueue")
      BY <1>5, <2>3 DEF UploadDocx
    <3>2. row \in DocumentRow /\ DocxFile(row) /\ row.status = "processing"
      BY DEF DocumentRow, DocxFile
    <3> HIDE DEF row
    <3>3. QED
      BY <2>3, <3>1, <3>2, InsertDocumentStep
  <2>4. QED
    BY <1>5, <2>1, <2>2, <2>3 DEF UploadDocx
<1>6. CASE EnqueueDocx(r)
  <2>1. PICK sent, ok \in BOOLEAN :
          /\ ok => sent
          /\ message' = IF sent THEN [message EXCEPT ![req[r].new] = "queued"] ELSE message
          /\ IF ok THEN Answer(r, 201) ELSE Goto(r, "refused")
    BY <1>6 DEF EnqueueDocx
  <2>2. /\ req[r].pc = "enqueue" /\ faults' \in 0 .. MaxFaults
        /\ UNCHANGED <<documents, nextDoc, project, config, analyzed, unreported>>
    BY <1>1, <1>6 DEF EnqueueDocx, others, DataInv, TypeOK
  <2>3. /\ DataInv' /\ Evolves /\ req[r].new \in Ids
        /\ message' # message => message'[req[r].new] # "none"
    BY <2>1, <2>2, SentStep
  <2>4. CASE ok
    <3>1. message'[req[r].new] # "none" /\ Answer(r, 201)
      BY <1>1, <2>1, <2>3, <2>4 DEF DataInv
    <3>2. QED
      BY <1>1, <2>3, <3>1, AnswerStep DEF DocumentsInv
  <2>5. CASE ~ok
    <3>1. Goto(r, "refused") /\ "refused" \in Labels
      BY <2>1, <2>5 DEF Labels
    <3>2. QED
      BY <1>1, <2>2, <2>3, <3>1, GotoStep DEF DocumentsInv
  <2>6. QED
    BY <2>4, <2>5
<1>7. CASE EnqueueRefused(r)
  <2> DEFINE d == req[r].new
             S == {}
  <2>1. /\ SetStatus(d, "error") /\ Answer(r, 500) /\ req[r].pc = "refused"
        /\ UNCHANGED <<nextDoc, project, config, message, analyzed, unreported, faults>>
    BY <1>7 DEF EnqueueRefused, others
  <2>2. d \in Ids
    BY <1>1, <2>1, DocumentsAssumption DEF Holding, Ids, DataInv, TypeOK
  <2>3. DataInv' /\ Evolves
    <3>1. analyzed' = analyzed \cup S /\ S \in SUBSET Ids
      BY <2>1
    <3> HIDE DEF d, S
    <3>2. QED
      BY <1>1, <2>1, <2>2, <3>1, SetStatusStep
  <2>4. QED
    BY <1>1, <2>1, <2>3, AnswerStep DEF DocumentsInv
<1>8. QED
  BY <1>3, <1>4, <1>5, <1>6, <1>7 DEF handleDocumentUpload

\* The handlers of one document: status, content, results, analysis, deletion.
LEMMA OnDocumentStep ==
    ASSUME DocumentsInv, NEW r \in Requests, NEW op, OnDocument(r, op)
    PROVE  DocumentsInv'
<1> USE DEF At
<1>1. {"access", "serve"} \subseteq Labels \ {"done", "enqueue", "refused"}
      /\ 404 \in Int \ {201}
  BY DEF Labels
<1>2. CASE At(r, op, "select") /\ ~At(r, op, "access")
  <2>1. UNCHANGED data /\ (Goto(r, "access") \/ Answer(r, 404))
    BY <1>2 DEF OnDocument, others, data
  <2>2. QED
    BY <1>1, <1>2, <2>1, ReadStep
<1>3. CASE At(r, op, "access")
  <2>1. assertProjectAccess(r, "serve")
    BY <1>3 DEF OnDocument
  <2>2. QED
    BY <1>1, <1>3, <2>1, AccessStep
<1>4. QED
  BY <1>2, <1>3 DEF OnDocument

LEMMA ServeStep ==
    ASSUME DocumentsInv, NEW r \in Requests, NEW op, Serve(r, op)
    PROVE  DocumentsInv'
<1>1. UNCHANGED data /\ Answer(r, 200) /\ req[r].pc # "done" /\ 200 \in Int \ {201}
  BY DEF Serve, At, others, data
<1>2. QED
  BY <1>1, ReadStep

\* A row is taken away: its message is left.
LEMMA RemoveStep ==
    ASSUME DataInv, NEW S \in SUBSET Ids,
           documents' = [d \in Ids |-> IF d \in S THEN NoDoc ELSE documents[d]],
           project' = project \/ S = Ids,
           UNCHANGED <<nextDoc, config, message, analyzed, unreported, faults>>
    PROVE  DataInv' /\ Evolves
<1>1. \A d \in Ids : documents'[d] = IF d \in S THEN NoDoc ELSE documents[d]
  OBVIOUS
<1>2. documents' \in [Ids -> DocumentRow \cup {NoDoc}]
  BY DEF DataInv, TypeOK
<1>3. TypeOK'
  BY <1>1, <1>2 DEF DataInv, TypeOK, Exists
<1>4. UploadedIsReadable'
  BY <1>1, RowIsNotNoDoc DEF DataInv, UploadedIsReadable
<1>5. Reported'
  BY <1>1, RowIsNotNoDoc DEF DataInv, Reported
<1>6. Evolves
  <2>1. 1 .. nextDoc - 1 \subseteq Ids
    BY DocumentsAssumption DEF DataInv, TypeOK, Ids
  <2>2. QED
    BY <1>1, <2>1 DEF DataInv, TypeOK, Evolves
<1>7. QED
  BY <1>3, <1>4, <1>5, <1>6 DEF DataInv

LEMMA DocumentStep ==
    ASSUME DocumentsInv, NEW r \in Requests,
           \/ handleDocumentStatus(r) \/ handleDocumentContent(r)
           \/ handleDocumentAnalysisResults(r) \/ handleDocumentAnalyze(r)
           \/ handleDocumentDelete(r)
    PROVE  DocumentsInv'
<1> DEFINE d == req[r].d
<1>1. DataInv /\ RequestInv /\ Holding(req[r], documents, message, nextDoc)
  BY DEF DocumentsInv, RequestInv
<1>2. req[r].op \in {"Analyze", "Delete"} => d \in Ids
  BY <1>1, DocumentsAssumption DEF Holding, Ids, DataInv, TypeOK
<1> HIDE DEF d
<1>3. CASE handleDocumentAnalyze(r) /\ ~OnDocument(r, "Analyze")
  <2>1. /\ At(r, "Analyze", "serve") /\ SetStatus(d, "processing") /\ Answer(r, 200)
        /\ analyzed' = analyzed \cup {d}
        /\ UNCHANGED <<nextDoc, project, config, message, unreported, faults>>
    BY <1>3 DEF handleDocumentAnalyze, d
  <2>2. d \in Ids /\ {d} \in SUBSET Ids /\ d \in {d}
    BY <1>2, <2>1 DEF At
  <2>3. DataInv' /\ Evolves
    BY <1>1, <2>1, <2>2, SetStatusStep
  <2>4. QED
    BY <1>1, <2>1, <2>3, AnswerStep DEF DocumentsInv
<1>4. CASE handleDocumentDelete(r) /\ ~OnDocument(r, "Delete")
  <2>1. /\ At(r, "Delete", "serve") /\ documents' = [documents EXCEPT ![d] = NoDoc]
        /\ Answer(r, 200)
        /\ UNCHANGED <<nextDoc, project, config, message, analyzed, unreported, faults>>
    BY <1>4 DEF handleDocumentDelete, d, others
  <2>2. {d} \subseteq Ids
    BY <1>2, <2>1 DEF At
  <2>3. documents' = [x \in Ids |-> IF x \in {d} THEN NoDoc ELSE documents[x]]
    BY <1>1, <2>1 DEF DataInv, TypeOK
  <2>4. DataInv' /\ Evolves
    BY <1>1, <2>1, <2>2, <2>3, RemoveStep
  <2>5. QED
    BY <1>1, <2>1, <2>4, AnswerStep DEF DocumentsInv
<1>5. QED
  BY <1>3, <1>4, OnDocumentStep, ServeStep
     DEF handleDocumentStatus, handleDocumentContent, handleDocumentAnalysisResults,
         handleDocumentAnalyze, handleDocumentDelete

LEMMA ListStep ==
    ASSUME DocumentsInv, NEW r \in Requests, handleDocumentList(r)
    PROVE  DocumentsInv'
<1>1. /\ UNCHANGED data /\ req[r].pc \in {"projects", "rows"}
      /\ Goto(r, "rows") \/ Answer(r, 200) \/ Answer(r, 403)
  BY DEF handleDocumentList, At, others, data
<1>2. /\ "rows" \in Labels \ {"done", "enqueue", "refused"}
      /\ 200 \in Int \ {201} /\ 403 \in Int \ {201}
  BY DEF Labels
<1>3. QED
  BY <1>1, <1>2, ReadStep

\* The patch of the configuration touches no document.
LEMMA SetConfigStep ==
    ASSUME DocumentsInv, NEW r \in Requests, SetConfig(r)
    PROVE  DocumentsInv'
<1> DEFINE k == NextKey(req[r].keys)
<1>1. DataInv /\ RequestInv /\ req[r] \in Request /\ Holding(req[r], documents, message, nextDoc)
  BY DEF DocumentsInv, RequestInv
<1>2. k \in {"url", "max"}
  BY DEF NextKey
<1> HIDE DEF k
<1>3. ASSUME NEW q \in Request, req' = [req EXCEPT ![r] = q], q.op = req[r].op,
             q.d = req[r].d, q.kind = req[r].kind, q.ans = req[r].ans,
             q.pc \in {"find", "set"}, req[r].pc # "done",
             config' \in Config,
             UNCHANGED <<documents, nextDoc, project, message, analyzed, unreported, faults>>
      PROVE  DocumentsInv'
  <2>1. DataInv'
    BY <1>1, <1>3 DEF DataInv, TypeOK, UploadedIsReadable, Reported, Exists
  <2>2. Evolves
    BY <1>1, <1>3 DEF DataInv, TypeOK, Evolves
  <2>3. Holding(q, documents', message', nextDoc')
    BY <1>1, <1>3 DEF Holding
  <2>4. /\ \A x \in Requests : req'[x] = IF x = r THEN q ELSE req[x]
        /\ req' \in [Requests -> Request]
    BY <1>1, <1>3 DEF RequestInv
  <2>5. QED
    BY <1>1, <2>1, <2>2, <2>3, <2>4, RequestStep DEF DocumentsInv
<1>4. CASE At(r, "SetConfig", "find")
  <2>1. UNCHANGED data
    BY <1>4 DEF SetConfig, At, others, data
  <2>2. CASE req[r].keys = {}
    <3>1. Answer(r, 200) /\ 200 \in Int \ {201} /\ req[r].pc # "done"
      BY <1>4, <2>2 DEF SetConfig, At
    <3>2. QED
      BY <2>1, <3>1, ReadStep
  <2>3. CASE req[r].keys # {}
    <3> DEFINE found == (config[k] # "unset")
               q == [req[r] EXCEPT !.pc = "set", !.found = found]
    <3>1. req' = [req EXCEPT ![r] = q]
      BY <1>4, <2>3 DEF SetConfig, At, k
    <3>2. found \in BOOLEAN
      OBVIOUS
    <3> HIDE DEF found
    <3>3. /\ q \in Request /\ q.op = req[r].op /\ q.d = req[r].d
          /\ q.kind = req[r].kind /\ q.ans = req[r].ans /\ q.pc = "set"
      <4>1. req[r] \in Request
        BY <1>1
      <4>2. q \in Request
        BY <3>2, <4>1, ZenonT(30) DEF Request, Labels
      <4>3. /\ q.op = req[r].op /\ q.d = req[r].d
            /\ q.kind = req[r].kind /\ q.ans = req[r].ans /\ q.pc = "set"
        BY <4>1 DEF Request
      <4>4. QED
        BY <4>2, <4>3
    <3> HIDE DEF q
    <3>4. config' \in Config
      BY <1>1, <2>1 DEF DataInv, TypeOK, data
    <3>5. QED
      BY <1>3, <1>4, <2>1, <3>1, <3>3, <3>4 DEF data, At
  <2>4. QED
    BY <2>2, <2>3
<1>5. CASE At(r, "SetConfig", "set")
  <2>1. UNCHANGED <<documents, nextDoc, project, message, analyzed, unreported, faults>>
    BY <1>5 DEF SetConfig, At, others
  <2>2. CASE ~req[r].found /\ config[k] # "unset"
    <3>1. Answer(r, 400) /\ UNCHANGED config /\ 400 \in Int \ {201} /\ req[r].pc # "done"
      BY <1>5, <2>2 DEF SetConfig, At, k
    <3>2. QED
      BY <2>1, <3>1, ReadStep DEF data
  <2>3. CASE ~(~req[r].found /\ config[k] # "unset")
    <3> DEFINE q == [req[r] EXCEPT !.pc = "find", !.keys = @ \ {k}]
    <3>1. req' = [req EXCEPT ![r] = q] /\ config' = [config EXCEPT ![k] = "ok"]
      BY <1>5, <2>3 DEF SetConfig, At, k
    <3>2. /\ q \in Request /\ q.op = req[r].op /\ q.d = req[r].d
          /\ q.kind = req[r].kind /\ q.ans = req[r].ans /\ q.pc = "find"
      BY <1>1, ZenonT(30) DEF Request, Labels
    <3> HIDE DEF q
    <3>3. config' \in Config
      BY <1>1, <1>2, <3>1 DEF DataInv, TypeOK, Config
    <3>4. QED
      BY <1>3, <1>5, <2>1, <3>1, <3>2, <3>3 DEF At
  <2>4. QED
    BY <2>2, <2>3
<1>6. QED
  BY <1>4, <1>5 DEF SetConfig, At

LEMMA ReceiveStep ==
    ASSUME DocumentsInv, NEW r \in Requests, Receive(r)
    PROVE  DocumentsInv'
<1>1. DataInv /\ RequestInv
  BY DEF DocumentsInv
<1>2. DataInv' /\ Evolves
  BY <1>1, NoDataStep DEF Receive, others, data
<1>3. PICK op \in Operations[r], u \in Users[r] :
      \E d \in IF FirstStep(op) = "select" THEN 1..nextDoc - 1 ELSE {0},
         kind \in IF op = "Upload" THEN Kinds ELSE {"none"},
         big \in IF op = "Upload" THEN BOOLEAN ELSE {FALSE},
         keys \in IF op = "SetConfig" THEN SUBSET {"max", "url"} ELSE {{}} :
         req' = [req EXCEPT ![r] = [Idle EXCEPT !.op = op, !.u = u, !.d = d,
                    !.kind = kind, !.big = big, !.keys = keys, !.pc = FirstStep(op)]]
  BY DEF Receive
<1>4. PICK d \in IF FirstStep(op) = "select" THEN 1..nextDoc - 1 ELSE {0},
           kind \in IF op = "Upload" THEN Kinds ELSE {"none"},
           big \in IF op = "Upload" THEN BOOLEAN ELSE {FALSE},
           keys \in IF op = "SetConfig" THEN SUBSET {"max", "url"} ELSE {{}} :
         req' = [req EXCEPT ![r] = [Idle EXCEPT !.op = op, !.u = u, !.d = d,
                    !.kind = kind, !.big = big, !.keys = keys, !.pc = FirstStep(op)]]
  BY <1>3
<1> DEFINE q == [Idle EXCEPT !.op = op, !.u = u, !.d = d, !.kind = kind, !.big = big,
                             !.keys = keys, !.pc = FirstStep(op)]
<1>5. req' = [req EXCEPT ![r] = q]
  BY <1>4
<1>6. FirstStep(op) \in {"limit", "projects", "find", "select"}
  BY DEF FirstStep
<1>7. op \in {"Status", "Content", "Results", "Analyze", "Delete"} => FirstStep(op) = "select"
  BY DEF FirstStep
<1>8. /\ op \in OpNames /\ u \in UserNames /\ kind \in {"none"} \cup Kinds
      /\ big \in BOOLEAN /\ keys \in SUBSET {"max", "url"} /\ FirstStep(op) \in Labels
  BY <1>6 DEF OpNames, UserNames, Labels
<1>9. d \in 0 .. MaxDoc /\ 0 \in 0 .. MaxDoc
  BY <1>1, DocumentsAssumption DEF DataInv, TypeOK
<1>10. q \in Request /\ q.op = op /\ q.d = d /\ q.kind = kind /\ q.ans = 0 /\ q.pc = FirstStep(op)
  <2> DEFINE f == FirstStep(op)
  <2>1. /\ Idle \in Request /\ f \in Labels
        /\ q = [Idle EXCEPT !.op = op, !.u = u, !.d = d, !.kind = kind, !.big = big,
                            !.keys = keys, !.pc = f]
    BY <1>8, IdleRequest
  <2> HIDE DEF q, f
  <2>2. q \in Request
    <3>1. q = [op |-> op, u |-> u, d |-> d, kind |-> kind, big |-> big, keys |-> keys,
               pc |-> f, new |-> 0, found |-> FALSE, ans |-> 0]
      BY <2>1 DEF Idle
    <3>2. /\ op \in OpNames /\ u \in UserNames /\ d \in 0 .. MaxDoc
          /\ kind \in {"none"} \cup Kinds /\ big \in BOOLEAN
          /\ keys \in SUBSET {"max", "url"} /\ f \in Labels
      BY <1>8, <1>9, <2>1, Zenon
    <3>3. [op |-> op, u |-> u, d |-> d, kind |-> kind, big |-> big, keys |-> keys,
           pc |-> f, new |-> 0, found |-> FALSE, ans |-> 0] \in Request
      BY <3>2, ArrivedRequest, Zenon
    <3>4. QED
      BY <3>1, <3>3, Zenon
  <2>3. q.op = op /\ q.d = d /\ q.kind = kind /\ q.ans = Idle.ans /\ q.pc = f
    BY <2>1 DEF Request
  <2>4. QED
    BY <2>2, <2>3, IdleRequest DEF f
<1> HIDE DEF q
<1>11. /\ op \in {"Status", "Content", "Results", "Analyze", "Delete"} => d \in 1 .. nextDoc' - 1
       /\ op = "Upload" => kind \in Kinds
  BY <1>7 DEF Receive
<1>12. Holding(q, documents', message', nextDoc')
  BY <1>6, <1>10, <1>11 DEF Holding
<1>13. /\ \A x \in Requests : req'[x] = IF x = r THEN q ELSE req[x]
       /\ req' \in [Requests -> Request]
  BY <1>1, <1>5, <1>10 DEF RequestInv
<1>14. QED
  BY <1>1, <1>2, <1>10, <1>12, <1>13, RequestStep DEF DocumentsInv

\* A call throws or the worker stops: the message may have gone out.
LEMMA FailStep ==
    ASSUME DocumentsInv, NEW r \in Requests, CallThrows(r) \/ Stop(r)
    PROVE  DocumentsInv'
<1>1. DataInv /\ RequestInv
  BY DEF DocumentsInv
<1>2. /\ faults' \in 0 .. MaxFaults
      /\ UNCHANGED <<documents, nextDoc, project, config, analyzed, unreported>>
      /\ Answer(r, 400) \/ Answer(r, 500) \/ Answer(r, 0)
  BY <1>1, DocumentsAssumption DEF CallThrows, Stop, DataInv, TypeOK
<1>3. CASE UNCHANGED message
  <2>1. DataInv'
    BY <1>1, <1>2, <1>3 DEF DataInv, TypeOK, UploadedIsReadable, Reported, Exists
  <2>2. Evolves
    BY <1>1, <1>2, <1>3 DEF DataInv, TypeOK, Evolves
  <2>3. QED
    BY <1>1, <1>2, <2>1, <2>2, AnswerStep DEF DocumentsInv
<1>4. CASE message' # message
  <2>1. /\ message' = [message EXCEPT ![req[r].new] = "queued"]
        /\ req[r].pc = "enqueue"
    BY <1>4 DEF CallThrows, Stop, At
  <2>2. DataInv' /\ Evolves
    BY <1>2, <2>1, SentStep
  <2>3. QED
    BY <1>1, <1>2, <2>2, AnswerStep DEF DocumentsInv
<1>5. QED
  BY <1>3, <1>4

-----------------------------------------------------------------------------
(* The conversion queue.                                                   *)

\* The outcome is written: the markdown with its status, or the error.
LEMMA ReportStep ==
    ASSUME DataInv, NEW d \in Ids, Move(d, "ack"), message[d] # "none",
           \/ UNCHANGED documents /\ ~Exists(d)
           \/ \E row \in DocumentRow :
                 /\ Exists(d) /\ documents' = [documents EXCEPT ![d] = row]
                 /\ DocxFile(row) = DocxFile(documents[d]) /\ row.status # "processing"
                 /\ row.status = "uploaded" => row.content,
           UNCHANGED <<nextDoc, project, config, analyzed, unreported, faults>>
    PROVE  DataInv' /\ Evolves
<1>1. /\ message' \in [Ids -> Steps]
      /\ \A x \in Ids : message'[x] = IF x = d THEN "ack" ELSE message[x]
  BY DEF Move, DataInv, Steps
<1>2. d < nextDoc /\ 1 .. nextDoc - 1 \subseteq Ids
  BY DocumentsAssumption DEF DataInv, TypeOK, Ids
<1>3. CASE UNCHANGED documents /\ ~Exists(d)
  <2>1. documents[d].status # "processing"
    BY <1>3, RowIsNotNoDoc DEF Exists
  <2>2. TypeOK'
    BY <1>1, <1>2, <1>3 DEF DataInv, TypeOK, Exists
  <2>3. UploadedIsReadable' /\ Reported'
    BY <1>1, <1>3, <2>1 DEF DataInv, UploadedIsReadable, Reported
  <2>4. Evolves
    BY <1>1, <1>3 DEF DataInv, TypeOK, Evolves
  <2>5. QED
    BY <1>1, <2>2, <2>3, <2>4 DEF DataInv
<1>4. ASSUME NEW row \in DocumentRow,
             Exists(d), documents' = [documents EXCEPT ![d] = row],
             DocxFile(row) = DocxFile(documents[d]), row.status # "processing",
             row.status = "uploaded" => row.content
      PROVE  DataInv' /\ Evolves
  <2>1. row # NoDoc
    BY RowIsNotNoDoc
  <2>2. /\ documents' \in [Ids -> DocumentRow \cup {NoDoc}]
        /\ \A x \in Ids : documents'[x] = IF x = d THEN row ELSE documents[x]
    BY <1>4 DEF DataInv, TypeOK
  <2>3. TypeOK'
    BY <1>1, <1>2, <1>4, <2>1, <2>2 DEF DataInv, TypeOK, Exists
  <2>4. UploadedIsReadable'
    BY <1>4, <2>2 DEF DataInv, UploadedIsReadable
  <2>5. Reported'
    BY <1>1, <1>4, <2>2 DEF DataInv, Reported
  <2>6. Evolves
    BY <1>1, <1>2, <1>4, <2>2 DEF DataInv, TypeOK, Exists, Evolves
  <2>7. QED
    BY <1>1, <2>3, <2>4, <2>5, <2>6 DEF DataInv
<1>5. QED
  BY <1>3, <1>4

LEMMA QueueStep ==
    ASSUME DocumentsInv, NEW d \in Ids,
           handleDocxConversionQueue(d) \/ ConversionThrows(d) \/ ConversionStops(d)
    PROVE  DocumentsInv'
<1> USE DEF quiet
<1>1. DataInv /\ RequestInv
  BY DEF DocumentsInv
<1>2. message[d] # "none"
  BY DEF handleDocxConversionQueue, ConversionThrows, ConversionStops, Handling, Deliver,
         SelectDocument, ReadConversionUrl, Convert, StoreMarkdown, RecordFailure, Acknowledge
<1>3. UNCHANGED req
  BY DEF handleDocxConversionQueue, ConversionThrows, ConversionStops, Deliver,
         SelectDocument, ReadConversionUrl, Convert, StoreMarkdown, RecordFailure, Acknowledge
<1>4. SUFFICES DataInv' /\ Evolves
  BY <1>1, <1>3, NoRequestStep DEF DocumentsInv
<1>5. /\ d < nextDoc /\ (Exists(d) => DocxFile(documents[d]))
      /\ unreported \subseteq Ids /\ faults \in 0 .. MaxFaults
  BY <1>1, <1>2 DEF DataInv, TypeOK
<1>6. ASSUME NEW l \in Steps \ {"none", "ack", "acked"}, Move(d, l),
             UNCHANGED <<documents, quiet>>
      PROVE  DataInv' /\ Evolves
  BY <1>1, <1>5, <1>6, MoveStep
<1>7. {"queued", "select", "config", "file", "convert", "update", "error"}
          \subseteq Steps \ {"none", "ack", "acked"}
      /\ "ack" \in Steps \ {"none"} /\ "acked" \in Steps \ {"none"}
  BY DEF Steps
<1>8. CASE Deliver(d)
  BY <1>6, <1>7, <1>8 DEF Deliver
<1>9. CASE SelectDocument(d)
  <2>1. CASE Exists(d)
    BY <1>6, <1>7, <1>9, <2>1 DEF SelectDocument
  <2>2. CASE ~Exists(d)
    <3>1. documents[d].status # "processing"
      BY <2>2, RowIsNotNoDoc DEF Exists
    <3>2. Move(d, "acked") /\ UNCHANGED <<documents, quiet>>
      BY <1>9, <2>2 DEF SelectDocument
    <3>3. QED
      BY <1>1, <1>5, <1>7, <3>1, <3>2, MoveStep
  <2>3. QED
    BY <2>1, <2>2
<1>10. CASE ReadConversionUrl(d)
  BY <1>6, <1>7, <1>10 DEF ReadConversionUrl
<1>11. CASE Convert(d)
  BY <1>6, <1>7, <1>11 DEF Convert
<1>12. CASE StoreMarkdown(d)
  <2>1. Move(d, "ack") /\ UNCHANGED quiet
    BY <1>12 DEF StoreMarkdown
  <2>2. CASE Exists(d)
    <3> DEFINE row == [documents[d] EXCEPT !.content = TRUE, !.status = "uploaded"]
    <3>1. documents' = [documents EXCEPT ![d] = row]
      BY <1>12, <2>2 DEF StoreMarkdown
    <3>2. documents[d] \in DocumentRow
      BY <1>1, <2>2 DEF DataInv, TypeOK, Exists
    <3>3. /\ row \in DocumentRow /\ DocxFile(row) = DocxFile(documents[d])
          /\ row.status = "uploaded" /\ row.content
      BY <3>2 DEF DocumentRow, DocxFile
    <3> HIDE DEF row
    <3>4. QED
      BY <1>1, <1>2, <2>1, <2>2, <3>1, <3>3, ReportStep
  <2>3. CASE ~Exists(d)
    BY <1>1, <1>2, <1>12, <2>1, <2>3, ReportStep DEF StoreMarkdown
  <2>4. QED
    BY <2>2, <2>3
<1>13. CASE RecordFailure(d)
  <2>1. Move(d, "ack") /\ UNCHANGED quiet
    BY <1>13 DEF RecordFailure
  <2>2. CASE Exists(d)
    <3> DEFINE row == [documents[d] EXCEPT !.status = "error"]
    <3>1. documents' = [documents EXCEPT ![d] = row]
      BY <1>13, <2>2 DEF RecordFailure, SetStatus
    <3>2. documents[d] \in DocumentRow
      BY <1>1, <2>2 DEF DataInv, TypeOK, Exists
    <3>3. /\ row \in DocumentRow /\ DocxFile(row) = DocxFile(documents[d])
          /\ row.status = "error"
      BY <3>2 DEF DocumentRow, DocxFile
    <3> HIDE DEF row
    <3>4. QED
      BY <1>1, <1>2, <2>1, <2>2, <3>1, <3>3, ReportStep
  <2>3. CASE ~Exists(d)
    BY <1>1, <1>2, <1>13, <2>1, <2>3, ReportStep DEF RecordFailure, SetStatus
  <2>4. QED
    BY <2>2, <2>3
<1>14. CASE Acknowledge(d)
  <2>1. Move(d, "acked") /\ UNCHANGED <<documents, quiet>> /\ message[d] = "ack"
    BY <1>14 DEF Acknowledge
  <2>2. documents[d].status = "processing" => d \in analyzed \cup unreported
    BY <1>1, <2>1 DEF DataInv, Reported
  <2>3. QED
    BY <1>1, <1>5, <1>7, <2>1, <2>2, MoveStep
<1>15. CASE ConversionThrows(d)
  <2>1. /\ faults' \in 0 .. MaxFaults
        /\ UNCHANGED <<documents, nextDoc, project, config, analyzed>>
    BY <1>5, <1>15, DocumentsAssumption DEF ConversionThrows
  <2>2. CASE message[d] = "error"
    <3>1. Move(d, "acked") /\ unreported' = unreported \cup {d}
      BY <1>15, <2>2 DEF ConversionThrows
    <3>2. unreported \subseteq unreported' /\ unreported' \subseteq Ids /\ d \in unreported'
      BY <1>5, <3>1
    <3>3. QED
      BY <1>1, <1>5, <1>7, <2>1, <3>1, <3>2, MoveStep
  <2>3. CASE message[d] # "error"
    <3>1. Move(d, "error") /\ UNCHANGED unreported
      BY <1>15, <2>3 DEF ConversionThrows
    <3>2. QED
      BY <1>1, <1>5, <1>7, <2>1, <3>1, MoveStep
  <2>4. QED
    BY <2>2, <2>3
<1>16. CASE ConversionStops(d)
  <2>1. /\ faults' \in 0 .. MaxFaults /\ Move(d, "queued")
        /\ UNCHANGED <<documents, nextDoc, project, config, analyzed, unreported>>
    BY <1>5, <1>16, DocumentsAssumption DEF ConversionStops
  <2>2. QED
    BY <1>1, <1>5, <1>7, <2>1, MoveStep
<1>17. QED
  BY <1>8, <1>9, <1>10, <1>11, <1>12, <1>13, <1>14, <1>15, <1>16 DEF handleDocxConversionQueue

LEMMA DeleteProjectStep ==
    ASSUME DocumentsInv, DeleteProject
    PROVE  DocumentsInv'
<1>1. DataInv /\ RequestInv /\ UNCHANGED req
  BY DEF DocumentsInv, DeleteProject
<1>2. /\ documents' = [d \in Ids |-> IF d \in Ids THEN NoDoc ELSE documents[d]]
      /\ UNCHANGED <<nextDoc, config, message, analyzed, unreported, faults>>
  BY DEF DeleteProject, others
<1>3. DataInv' /\ Evolves
  BY <1>1, <1>2, RemoveStep
<1>4. QED
  BY <1>1, <1>3, NoRequestStep DEF DocumentsInv

-----------------------------------------------------------------------------
(* The invariant and the theorems.                                         *)

LEMMA InitDocuments == Init => DocumentsInv
<1> SUFFICES ASSUME Init PROVE DocumentsInv
  OBVIOUS
<1>1. /\ \A d \in Ids : documents[d] = NoDoc /\ message[d] = "none"
      /\ documents \in [Ids -> DocumentRow \cup {NoDoc}] /\ message \in [Ids -> Steps]
  BY DEF Init, Steps
<1>2. TypeOK
  BY <1>1, DocumentsAssumption DEF Init, TypeOK, Exists
<1>3. UploadedIsReadable /\ Reported
  BY <1>1, RowIsNotNoDoc DEF UploadedIsReadable, Reported
<1>4. req \in [Requests -> Request] /\ \A r \in Requests : req[r] = Idle
  BY IdleRequest DEF Init
<1>5. Holding(Idle, documents, message, nextDoc)
  BY IdleRequest DEF Holding
<1>6. QED
  BY <1>1, <1>2, <1>3, <1>4, <1>5 DEF DocumentsInv, DataInv, RequestInv

LEMMA NextDocuments == DocumentsInv /\ [Next]_vars => DocumentsInv'
<1> SUFFICES ASSUME DocumentsInv, [Next]_vars PROVE DocumentsInv'
  OBVIOUS
<1>1. CASE UNCHANGED vars
  <2>1. UNCHANGED data /\ UNCHANGED req
    BY <1>1 DEF vars, data
  <2>2. QED
    BY <2>1, NoDataStep, NoRequestStep DEF DocumentsInv
<1>2. QED
  BY <1>1, UploadStep, DocumentStep, ListStep, SetConfigStep, ReceiveStep, FailStep,
     QueueStep, DeleteProjectStep DEF Next

\* The rows, the messages and the requests in flight agree in every reachable
\* state.
THEOREM DocumentsInvariant == Spec => []DocumentsInv
BY InitDocuments, NextDocuments, PTL DEF Spec

\* A row has an id given out before, belongs to the project while that is
\* there, and only what was uploaded as a .docx file has a message.
THEOREM DocumentsTypeOK == Spec => []TypeOK
<1>1. DocumentsInv => TypeOK
  BY DEF DocumentsInv, DataInv
<1>2. QED
  BY <1>1, DocumentsInvariant, PTL

\* A document uploaded as a .docx file shows as uploaded only with its
\* markdown; a JSON upload, which shows as uploaded at once, is no .docx file.
THEOREM UploadedReadable == Spec => []UploadedIsReadable
<1>1. DocumentsInv => UploadedIsReadable
  BY DEF DocumentsInv, DataInv
<1>2. QED
  BY <1>1, DocumentsInvariant, PTL

\* An acknowledged message leaves its document out of "processing", unless it
\* was analysed or the failure could not be written.
THEOREM AcknowledgedIsSettled == Spec => []SettledOnceAcknowledged
<1>1. DocumentsInv => SettledOnceAcknowledged
  BY DEF DocumentsInv, DataInv, Reported, SettledOnceAcknowledged
<1>2. QED
  BY <1>1, DocumentsInvariant, PTL

\* A .docx upload answered 201 has its message in the queue, or it was handled.
THEOREM AcceptedQueued == Spec => []AcceptedIsQueued
<1>1. DocumentsInv => AcceptedIsQueued
  BY DEF DocumentsInv, RequestInv, Holding, AcceptedIsQueued
<1>2. QED
  BY <1>1, DocumentsInvariant, PTL
=============================================================================
