----------------------------- MODULE Documents ------------------------------
(***************************************************************************)
(* The documents of a project: upload, the conversion of .docx files by a  *)
(* queue, status, analysis and deletion (services/documents/*.ts,          *)
(* queues/docx-conversion.ts), with the configuration they read            *)
(* (utils/app-config.ts, routes/admin/config/index.ts).                    *)
(*                                                                         *)
(* One action is one awaited call with the code up to the next one.  The   *)
(* producer in front of the queue, the queue, the conversion service and   *)
(* the file store are external: a call to them may succeed, be refused or  *)
(* throw, and a message is delivered again when the worker that held it    *)
(* stopped before it was acknowledged.                                     *)
(***************************************************************************)
EXTENDS Integers

CONSTANTS
    Requests,    \* the requests that may be in flight
    Operations,  \* [Requests -> a set of operations]
    Users,       \* [Requests -> a set of users]: who may send it
    Owner,       \* the owner of the project's workspace
    MaxDoc,      \* bound: documents ever stored
    MaxFaults,   \* bound: calls that throw, and workers stopped
    Configs      \* the configurations at the start

Ids == 1..MaxDoc
\* What an upload sends: a .docx file, a text file, or a JSON body.
Kinds == {"docx", "text", "json"}
\* kind is the file_type of the row, stored whether its storage_key names a
\* stored file.
NoDoc == [kind |-> "none", status |-> "none", content |-> FALSE, stored |-> FALSE]
DocumentRow == [kind : {"docx", "other"}, status : {"processing", "uploaded", "error"},
                content : BOOLEAN, stored : BOOLEAN]
\* doc_upload_max_mb and docx_conversion_url
Config == [max : {"unset", "ok"}, url : {"unset", "invalid", "ok"}]

ASSUME DocumentsAssumption ==
    /\ \A r \in Requests : Owner \in Users[r]
    /\ MaxDoc \in Nat \ {0} /\ MaxFaults \in Nat
    /\ Configs \subseteq Config

VARIABLES
    documents,  \* the rows, NoDoc where there is none
    nextDoc,    \* the next id
    project,    \* whether the project is still there
    config,     \* app_config
    message,    \* the conversion message of each document and who handles it
    req,        \* the requests: where each is and its local variables
    analyzed,   \* history: the documents an analysis request marked
    unreported, \* history: those whose failure could not be recorded
    faults

vars == <<documents, nextDoc, project, config, message, req, analyzed, unreported, faults>>
others == <<analyzed, unreported, faults>>

\* d, kind, big, user and keys come from the request; new is the id inserted,
\* found the keys with a row.
Idle == [op |-> "none", u |-> Owner, d |-> 0, kind |-> "none", big |-> FALSE,
         keys |-> {}, pc |-> "idle", new |-> 0, found |-> FALSE, ans |-> 0]

Init ==
    /\ documents = [d \in Ids |-> NoDoc]
    /\ nextDoc = 1 /\ project = TRUE
    /\ config \in Configs
    /\ message = [d \in Ids |-> "none"]
    /\ req = [r \in Requests |-> Idle]
    /\ analyzed = {} /\ unreported = {} /\ faults = 0

-----------------------------------------------------------------------------
At(r, op, l) == req[r].op = op /\ req[r].pc = l
Goto(r, l) == req' = [req EXCEPT ![r].pc = l]

\* The answer is sent.  What is kept of it is what was accepted.
Answer(r, status) ==
    req' = [req EXCEPT ![r] = IF status = 201
                              THEN [Idle EXCEPT !.pc = "done", !.ans = status,
                                        !.kind = req[r].kind, !.new = req[r].new]
                              ELSE [Idle EXCEPT !.pc = "done"]]

Exists(d) == documents[d] # NoDoc

\* Uploaded as a .docx file: a JSON body may only say so.
DocxFile(row) == row.kind = "docx" /\ row.stored

\* UPDATE documents SET status WHERE id: no row, no effect.
SetStatus(d, status) ==
    documents' = IF Exists(d) THEN [documents EXCEPT ![d].status = status] ELSE documents

\* The project's workspace belongs to the user.
assertProjectAccess(r, then) ==
    /\ IF project /\ req[r].u = Owner THEN Goto(r, then) ELSE Answer(r, 403)
    /\ UNCHANGED <<documents, nextDoc, project, config, message, others>>

InsertDocument_mutant_nofk(r, row, then) ==
    /\ nextDoc <= MaxDoc
    /\ documents' = [documents EXCEPT ![nextDoc] = row]
    /\ nextDoc' = nextDoc + 1
    /\ IF then = "done"
       THEN Answer(r, IF req[r].kind = "json" THEN 200 ELSE 201)
       ELSE req' = [req EXCEPT ![r].pc = then, ![r].new = nextDoc]
    /\ UNCHANGED <<project, config, message, others>>

\* The foreign key fails when the project was deleted meanwhile.
InsertDocument(r, row, then) ==
    /\ nextDoc <= MaxDoc
    /\ IF project
       THEN /\ documents' = [documents EXCEPT ![nextDoc] = row]
            /\ nextDoc' = nextDoc + 1
            /\ IF then = "done"
               THEN Answer(r, IF req[r].kind = "json" THEN 200 ELSE 201)
               ELSE req' = [req EXCEPT ![r].pc = then, ![r].new = nextDoc]
       ELSE Answer(r, 500) /\ UNCHANGED <<documents, nextDoc>>
    /\ UNCHANGED <<project, config, message, others>>

-----------------------------------------------------------------------------
(* Upload.                                                                 *)

\* The limit is read first; then the size and the user's access are checked.
UploadChecks(r) ==
    \/ /\ At(r, "Upload", "limit")
       /\ IF config.max = "unset" THEN Answer(r, 500)
          ELSE IF req[r].big THEN Answer(r, 413)
          ELSE Goto(r, "access")
       /\ UNCHANGED <<documents, nextDoc, project, config, message, others>>
    \/ /\ At(r, "Upload", "access")
       /\ assertProjectAccess(r, IF req[r].kind = "docx" THEN "config" ELSE "insert")

\* A text file, or JSON of any file type with the content, a url or neither:
\* its storage_key names no file.
UploadText(r) ==
    /\ At(r, "Upload", "insert") /\ req[r].kind # "docx"
    /\ \E kind \in IF req[r].kind = "text" THEN {"other"} ELSE {"docx", "other"},
          content \in IF req[r].kind = "text" THEN {TRUE} ELSE BOOLEAN :
          InsertDocument(r, [kind |-> kind, status |-> "uploaded",
                             content |-> content, stored |-> FALSE], "done")

\* The file is stored before its row.
UploadDocx(r) ==
    \/ /\ At(r, "Upload", "config")
       /\ IF config.url = "ok" THEN Goto(r, "store") ELSE Answer(r, 500)
       /\ UNCHANGED <<documents, nextDoc, project, config, message, others>>
    \/ /\ At(r, "Upload", "store")
       /\ Goto(r, "insert")
       /\ UNCHANGED <<documents, nextDoc, project, config, message, others>>
    \/ /\ At(r, "Upload", "insert") /\ req[r].kind = "docx"
       /\ InsertDocument(r, [kind |-> "docx", status |-> "processing",
                             content |-> FALSE, stored |-> TRUE], "enqueue")

EnqueueDocx_mutant_noerror(r) ==
    /\ At(r, "Upload", "enqueue")
    /\ \E sent, ok \in BOOLEAN :
          /\ ok => sent
          /\ message' = IF sent THEN [message EXCEPT ![req[r].new] = "queued"] ELSE message
          /\ Answer(r, 201)
    /\ UNCHANGED <<documents, nextDoc, project, config, others>>

\* The producer takes the message, or refuses it; a refusal may come after the
\* message went into the queue.
EnqueueDocx(r) ==
    /\ At(r, "Upload", "enqueue")
    /\ \E sent, ok \in BOOLEAN :
          /\ ok => sent
          /\ message' = IF sent THEN [message EXCEPT ![req[r].new] = "queued"] ELSE message
          /\ IF ok THEN Answer(r, 201) ELSE Goto(r, "refused")
    /\ UNCHANGED <<documents, nextDoc, project, config, others>>

EnqueueRefused(r) ==
    /\ At(r, "Upload", "refused")
    /\ SetStatus(req[r].new, "error")
    /\ Answer(r, 500)
    /\ UNCHANGED <<nextDoc, project, config, message, others>>

-----------------------------------------------------------------------------
(* handleDocxConversionQueue, for one message.                             *)

Handling(d) == message[d] \in {"select", "config", "file", "convert", "update", "error", "ack"}

Move(d, l) == message' = [message EXCEPT ![d] = l]
quiet == <<nextDoc, project, config, req, analyzed, unreported, faults>>

Deliver(d) ==
    /\ message[d] = "queued"
    /\ Move(d, "select")
    /\ UNCHANGED <<documents, quiet>>

\* No document: nothing to do.
SelectDocument(d) ==
    /\ message[d] = "select"
    /\ Move(d, IF Exists(d) THEN "config" ELSE "acked")
    /\ UNCHANGED <<documents, quiet>>

ReadConversionUrl(d) ==
    /\ message[d] = "config"
    /\ Move(d, IF config.url = "ok" THEN "file" ELSE "error")
    /\ UNCHANGED <<documents, quiet>>

\* The stored file, and the answer of the conversion service: markdown, or a
\* failure or nothing.
Convert(d) ==
    /\ \/ message[d] = "file" /\ \E l \in {"convert", "error"} : Move(d, l)
       \/ message[d] = "convert" /\ \E l \in {"update", "error"} : Move(d, l)
    /\ UNCHANGED <<documents, quiet>>

StoreMarkdown_mutant_statusfirst(d) ==
    /\ message[d] = "update"
    /\ SetStatus(d, "uploaded")
    /\ Move(d, "ack")
    /\ UNCHANGED quiet

\* The content and the status, whatever the status was meanwhile.
StoreMarkdown(d) ==
    /\ message[d] = "update"
    /\ documents' = IF Exists(d)
                    THEN [documents EXCEPT ![d].content = TRUE, ![d].status = "uploaded"]
                    ELSE documents
    /\ Move(d, "ack")
    /\ UNCHANGED quiet

RecordFailure_mutant_silent(d) ==
    /\ message[d] = "error"
    /\ Move(d, "ack")
    /\ UNCHANGED <<documents, quiet>>

RecordFailure(d) ==
    /\ message[d] = "error"
    /\ SetStatus(d, "error")
    /\ Move(d, "ack")
    /\ UNCHANGED quiet

Acknowledge(d) ==
    /\ message[d] = "ack"
    /\ Move(d, "acked")
    /\ UNCHANGED <<documents, quiet>>

\* A call of the handler throws: the failure is recorded; when that call
\* throws itself, the message is acknowledged all the same.
ConversionThrows(d) ==
    /\ Handling(d) /\ message[d] # "ack" /\ faults < MaxFaults
    /\ faults' = faults + 1
    /\ IF message[d] = "error"
       THEN Move(d, "acked") /\ unreported' = unreported \cup {d}
       ELSE Move(d, "error") /\ UNCHANGED unreported
    /\ UNCHANGED <<documents, nextDoc, project, config, req, analyzed>>

\* The worker stops before the acknowledgement: the queue delivers again.
ConversionStops(d) ==
    /\ Handling(d) /\ faults < MaxFaults
    /\ faults' = faults + 1
    /\ Move(d, "queued")
    /\ UNCHANGED <<documents, nextDoc, project, config, req, analyzed, unreported>>

handleDocxConversionQueue(d) ==
    \/ Deliver(d) \/ SelectDocument(d) \/ ReadConversionUrl(d) \/ Convert(d)
    \/ StoreMarkdown(d) \/ RecordFailure(d) \/ Acknowledge(d)

-----------------------------------------------------------------------------
(* The other handlers.                                                     *)

\* Select the document, then check the access to its project.
OnDocument(r, op) ==
    \/ /\ At(r, op, "select")
       /\ IF Exists(req[r].d) THEN Goto(r, "access") ELSE Answer(r, 404)
       /\ UNCHANGED <<documents, nextDoc, project, config, message, others>>
    \/ At(r, op, "access") /\ assertProjectAccess(r, "serve")

\* handleDocumentStatus, handleDocumentContent, handleDocumentAnalysisResults:
\* what was selected before the access check is the answer.
Serve(r, op) ==
    /\ At(r, op, "serve")
    /\ Answer(r, 200)
    /\ UNCHANGED <<documents, nextDoc, project, config, message, others>>

handleDocumentStatus(r) == OnDocument(r, "Status") \/ Serve(r, "Status")
handleDocumentContent(r) == OnDocument(r, "Content") \/ Serve(r, "Content")
handleDocumentAnalysisResults(r) == OnDocument(r, "Results") \/ Serve(r, "Results")

\* Nothing in this server takes the document out of "processing" again.
handleDocumentAnalyze(r) ==
    \/ OnDocument(r, "Analyze")
    \/ /\ At(r, "Analyze", "serve")
       /\ SetStatus(req[r].d, "processing")
       /\ analyzed' = analyzed \cup {req[r].d}
       /\ Answer(r, 200)
       /\ UNCHANGED <<nextDoc, project, config, message, unreported, faults>>

handleDocumentDelete(r) ==
    \/ OnDocument(r, "Delete")
    \/ /\ At(r, "Delete", "serve")
       /\ documents' = [documents EXCEPT ![req[r].d] = NoDoc]
       /\ Answer(r, 200)
       /\ UNCHANGED <<nextDoc, project, config, message, others>>

\* The accessible projects first, then their documents; a project that is not
\* among them is refused unless the list is empty.
handleDocumentList(r) ==
    \/ /\ At(r, "List", "projects")
       /\ IF project /\ req[r].u = Owner THEN Goto(r, "rows")
          ELSE \E status \in {200, 403} : Answer(r, status)
       /\ UNCHANGED <<documents, nextDoc, project, config, message, others>>
    \/ /\ At(r, "List", "rows")
       /\ Answer(r, 200)
       /\ UNCHANGED <<documents, nextDoc, project, config, message, others>>

\* One key at a time, the url before the limit: a row is looked for, then
\* updated or inserted; an insert fails when the row came in between.
NextKey(keys) == IF "url" \in keys THEN "url" ELSE "max"
SetConfig(r) ==
    LET rq == req[r]
        k  == NextKey(rq.keys)
    IN  \/ /\ At(r, "SetConfig", "find")
           /\ IF rq.keys = {}
              THEN Answer(r, 200)
              ELSE req' = [req EXCEPT ![r].pc = "set", ![r].found = (config[k] # "unset")]
           /\ UNCHANGED <<documents, nextDoc, project, config, message, others>>
        \/ /\ At(r, "SetConfig", "set")
           /\ IF ~rq.found /\ config[k] # "unset"
              THEN Answer(r, 400) /\ UNCHANGED config
              ELSE /\ config' = [config EXCEPT ![k] = "ok"]
                   /\ req' = [req EXCEPT ![r].pc = "find", ![r].keys = @ \ {k}]
           /\ UNCHANGED <<documents, nextDoc, project, message, others>>

\* The project, and with it its documents, is deleted.
DeleteProject ==
    /\ project
    /\ project' = FALSE
    /\ documents' = [d \in Ids |-> NoDoc]
    /\ UNCHANGED <<nextDoc, config, message, req, others>>

-----------------------------------------------------------------------------
FirstStep(op) ==
    CASE op = "Upload"    -> "limit"
      [] op = "List"      -> "projects"
      [] op = "SetConfig" -> "find"
      [] OTHER            -> "select"

Receive(r) ==
    /\ req[r].pc = "idle"
    /\ \E op \in Operations[r], u \in Users[r] :
       \E d \in IF FirstStep(op) = "select" THEN 1..nextDoc - 1 ELSE {0},
          kind \in IF op = "Upload" THEN Kinds ELSE {"none"},
          big \in IF op = "Upload" THEN BOOLEAN ELSE {FALSE},
          keys \in IF op = "SetConfig" THEN SUBSET {"max", "url"} ELSE {{}} :
          req' = [req EXCEPT ![r] = [Idle EXCEPT !.op = op, !.u = u, !.d = d,
                     !.kind = kind, !.big = big, !.keys = keys, !.pc = FirstStep(op)]]
    /\ UNCHANGED <<documents, nextDoc, project, config, message, others>>

\* Any call may throw: the handlers answer 500 and the patch of the
\* configuration 400, and what was done so far stays.  The call to the
\* producer may throw after the message went into the queue.
CallThrows(r) ==
    /\ req[r].pc \notin {"idle", "done"} /\ faults < MaxFaults
    /\ faults' = faults + 1
    /\ Answer(r, IF req[r].op = "SetConfig" THEN 400 ELSE 500)
    /\ message' \in {message} \cup
                    (IF At(r, "Upload", "enqueue")
                     THEN {[message EXCEPT ![req[r].new] = "queued"]} ELSE {})
    /\ UNCHANGED <<documents, nextDoc, project, config, analyzed, unreported>>

\* The worker stops between two calls.
Stop(r) ==
    /\ req[r].pc \notin {"idle", "done"} /\ faults < MaxFaults
    /\ faults' = faults + 1
    /\ Answer(r, 0)
    /\ UNCHANGED <<documents, nextDoc, project, config, message, analyzed, unreported>>

handleDocumentUpload(r) ==
    UploadChecks(r) \/ UploadText(r) \/ UploadDocx(r) \/ EnqueueDocx(r) \/ EnqueueRefused(r)

Next ==
    \/ \E r \in Requests :
          \/ Receive(r)
          \/ handleDocumentUpload(r)
          \/ handleDocumentStatus(r) \/ handleDocumentContent(r)
          \/ handleDocumentAnalysisResults(r) \/ handleDocumentAnalyze(r)
          \/ handleDocumentDelete(r) \/ handleDocumentList(r)
          \/ SetConfig(r)
          \/ CallThrows(r) \/ Stop(r)
    \/ \E d \in Ids :
          handleDocxConversionQueue(d) \/ ConversionThrows(d) \/ ConversionStops(d)
    \/ DeleteProject

Spec == Init /\ [][Next]_vars

\* The queue delivers what it holds and its worker runs; nothing obliges a
\* user to send a request.
FairSpec == Spec /\ \A d \in Ids : WF_vars(handleDocxConversionQueue(d))

-----------------------------------------------------------------------------
(* Properties.                                                             *)

\* The rows, messages and requests are well formed; a row has an id already
\* given out, and only a stored .docx file has a message.
TypeOK ==
    /\ documents \in [Ids -> DocumentRow \cup {NoDoc}]
    /\ nextDoc \in 1..MaxDoc + 1
    /\ config \in Config
    /\ \A d \in Ids :
          /\ Exists(d) => project /\ d < nextDoc
          /\ message[d] # "none" => d < nextDoc /\ (Exists(d) => DocxFile(documents[d]))
    /\ analyzed \subseteq Ids /\ unreported \subseteq Ids
    /\ faults \in 0..MaxFaults

\* A document uploaded as a .docx file shows as uploaded only with its markdown,
\* however the upload, the conversion, redeliveries, an analysis request and a
\* late error report interleave.  A JSON upload is the exception: it shows as
\* uploaded at once, with a file type of docx and no content too.
UploadedIsReadable ==
    \A d \in Ids :
        DocxFile(documents[d]) /\ documents[d].status = "uploaded" => documents[d].content

\* Once its message is acknowledged, a document no longer shows as processing:
\* the conversion or its failure is in the row.  The exceptions are an analysis
\* request, which puts it back, and a failure that could not be written.
SettledOnceAcknowledged ==
    \A d \in Ids :
        (message[d] = "acked" /\ documents[d].status = "processing") =>
            d \in analyzed \cup unreported

\* A document whose message is in the queue gets out of "processing", although
\* the conversion fails, throws or its worker stops and starts over.
ConversionEnds ==
    \A d \in Ids :
        (message[d] = "queued") ~>
            (documents[d].status # "processing" \/ d \in unreported)

\* The upload of a .docx file answered 201 is in the queue or was handled: a
\* file nobody will convert is never reported as accepted.
AcceptedIsQueued ==
    \A r \in Requests :
        (req[r].kind = "docx" /\ req[r].ans = 201) =>
            message[req[r].new] # "none"
=============================================================================
