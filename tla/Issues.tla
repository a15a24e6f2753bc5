------------------------------- MODULE Issues -------------------------------
(***************************************************************************)
(* The issues of a project: those users write (routes/issues.ts) and those *)
(* an AI provider finds.  An analysis is a job: analyze.post.ts hands the  *)
(* prompt to an HTTP job runner, and consume.post.ts later turns the       *)
(* answer into issues, once.                                               *)
(*                                                                         *)
(* One action is one awaited call with the code up to the next one; the    *)
(* requests in flight interleave, any call may throw and a worker may be   *)
(* stopped.  The job runner, which writes http_jobs and the results, and   *)
(* the provider behind it are external.  The effective rules are read in   *)
(* one step here; Workspaces has the three queries.                        *)
(***************************************************************************)
EXTENDS Integers, Sequences, FiniteSets

CONSTANTS
    Docs, Rules,  \* the documents and rules at the start
    Findings,     \* what the provider finds: a sequence of [docs, rules]
    Requests,     \* the requests that may be in flight
    Operations,   \* [Requests -> a set of operations]
    MaxIssue,     \* bound: issues ever stored
    MaxJob,       \* bound: jobs ever enqueued
    MaxChanges,   \* bound: documents, rules and projects taken away
    MaxFaults,    \* bound: calls that throw, and workers stopped
    Backends,     \* the providers with the host of their base url
    Selections,   \* [Requests -> a set of documentIds]; {} when not given
    Inputs,       \* estimated tokens of the prompt
    Windows,      \* context windows of a model; 0 when not known
    Outputs,      \* maxOutputTokens of a model; 0 when not known
    Asked         \* maxTokens of a request; 0 when not given

Ids == 1..MaxIssue
Jobs == 1..MaxJob
Providers == {"anthropic", "huggingface", "moonshot"}
Hosts == {"default", "own"}
Modes == {"replace_all", "replace_ai", "incremental"}

ASSUME IssuesAssumption ==
    /\ Findings \in Seq([docs : SUBSET Docs, rules : SUBSET Rules])
    /\ MaxIssue \in Nat /\ MaxJob \in Nat /\ MaxChanges \in Nat /\ MaxFaults \in Nat
    /\ Backends \subseteq Providers \X Hosts
    /\ Selections \in [Requests -> SUBSET SUBSET Docs]
    /\ Inputs \subseteq Nat \ {0}
    /\ Windows \subseteq Nat /\ Outputs \subseteq Nat /\ Asked \subseteq Nat

NoIssue == [origin |-> "none", job |-> 0, finding |-> 0, nonissue |-> FALSE]
IssueRow == [origin : {"manual", "ai"}, job : Jobs \cup {0},
             finding : 0..Len(Findings), nonissue : BOOLEAN]
NoJob == [status |-> "none", provider |-> "none", host |-> "none"]
HttpJob == [status : {"queued", "completed", "failed", "http_error", "empty", "garbage"},
            provider : Providers, host : Hosts]

VARIABLES
    project,     \* whether the project is still there
    docs,        \* its documents
    rules,       \* the rules that exist
    effective,   \* those that apply to the project
    issues,      \* the issue rows, NoIssue where there is none
    nextIssue,
    docLinks, ruleLinks,  \* issues_rel_documents, issues_rel_rules
    jobs,        \* http_jobs
    nextJob,
    provided,    \* KV issue-analysis-provider: the jobs with the marker
    consumed,    \* KV issue-analysis-consumed: the jobs with the marker
    req,         \* the requests: where each is and its local variables
    wanted,      \* history: by job, the findings that those who marked it were to store
    withdrawn,   \* history: jobs that lost rows or links while stored, or marked
    contended,   \* history: jobs stored by two requests at a time, or added to
    changes, faults

tables == <<project, docs, rules, effective, issues, nextIssue, docLinks, ruleLinks>>
analysis == <<jobs, nextJob, provided, consumed>>
history == <<wanted, withdrawn, contended>>
vars == <<project, docs, rules, effective, issues, nextIssue, docLinks, ruleLinks,
          jobs, nextJob, provided, consumed, req, wanted, withdrawn, contended, changes,
          faults>>

NoBudget == [input |-> 0, window |-> 0, max |-> 0]

\* issue, job, mode, only, links and fields come from the request; docs, rules
\* and todo are what was selected; k and new are the finding and the issue being
\* stored; format is how the answer is read; got what the answer lists.
Idle == [op |-> "none", pc |-> "idle", member |-> TRUE, issue |-> 0, job |-> 0,
         mode |-> "none", only |-> {}, links |-> {}, fields |-> TRUE, relink |-> FALSE,
         docs |-> {}, rules |-> {}, todo |-> {}, k |-> 0, new |-> 0,
         budget |-> NoBudget, provider |-> "none", host |-> "none", format |-> "none",
         ans |-> 0, got |-> {}]

Init ==
    /\ project = TRUE /\ docs = Docs /\ rules = Rules /\ effective = Rules
    /\ issues = [i \in Ids |-> NoIssue] /\ nextIssue = 1
    /\ docLinks = {} /\ ruleLinks = {}
    /\ jobs = [j \in Jobs |-> NoJob] /\ nextJob = 1
    /\ provided = {} /\ consumed = {}
    /\ req = [r \in Requests |-> Idle]
    /\ wanted = [j \in Jobs |-> {}] /\ withdrawn = {} /\ contended = {}
    /\ changes = 0 /\ faults = 0

-----------------------------------------------------------------------------
At(r, op, l) == req[r].op = op /\ req[r].pc = l
Goto(r, l) == req' = [req EXCEPT ![r].pc = l]

\* The answer is sent; what is kept of it is what was created.
Answer(r, status, got) ==
    req' = [req EXCEPT ![r] = IF status = 201
                              THEN [Idle EXCEPT !.pc = "done", !.ans = status,
                                                !.links = req[r].links, !.got = got]
                              ELSE [Idle EXCEPT !.pc = "done"]]

Exists(i) == i \in Ids /\ issues[i] # NoIssue

\* r has removed the rows that were there and not yet marked the job.
Midway(r) ==
    req[r].op = "Consume" /\ req[r].pc \in {"insert", "linkDocs", "linkRules", "skipped", "mark"}

\* What this step takes from a job that is being stored, or marked, nobody is
\* sure to bring back.
Loses(j) ==
    \E i \in Ids :
        /\ issues[i].job = j
        /\ \/ issues'[i] = NoIssue
           \/ \E l \in (docLinks \ docLinks') \cup (ruleLinks \ ruleLinks') : l[1] = i
InUse(j) == j \in consumed \/ \E r \in Requests : Midway(r) /\ req[r].job = j
Withdraw == withdrawn' = withdrawn \cup {j \in Jobs : InUse(j) /\ Loses(j)}

\* DELETE FROM issues: the links go with the rows.
DeleteIssues(gone) ==
    /\ issues' = [i \in Ids |-> IF i \in gone THEN NoIssue ELSE issues[i]]
    /\ docLinks' = {l \in docLinks : l[1] \notin gone}
    /\ ruleLinks' = {l \in ruleLinks : l[1] \notin gone}
    /\ Withdraw
    /\ UNCHANGED <<project, docs, rules, effective, nextIssue>>

\* INSERT INTO issues; the foreign key fails without the project.
InsertIssue(r, row, then) ==
    /\ nextIssue <= MaxIssue
    /\ IF project
       THEN /\ issues' = [issues EXCEPT ![nextIssue] = row]
            /\ nextIssue' = nextIssue + 1
            /\ req' = [req EXCEPT ![r].pc = then, ![r].new = nextIssue]
       ELSE Answer(r, 500, {}) /\ UNCHANGED <<issues, nextIssue>>
    /\ UNCHANGED <<project, docs, rules, effective, docLinks, ruleLinks>>

InsertDocLinks_mutant_nofk(i, ds) == docLinks' = docLinks \cup ({i} \X ds)

\* One statement for all the links of an issue: all or none.
InsertDocLinks(i, ds) ==
    docLinks' = IF Exists(i) /\ ds \subseteq docs THEN docLinks \cup ({i} \X ds) ELSE docLinks

InsertRuleLinks(i, xs) ==
    ruleLinks' = IF Exists(i) /\ xs \subseteq rules THEN ruleLinks \cup ({i} \X xs) ELSE ruleLinks

assertProjectAccess(r, status, then) ==
    /\ IF project /\ req[r].member THEN Goto(r, then) ELSE Answer(r, status, {})
    /\ UNCHANGED <<tables, analysis, history>>

-----------------------------------------------------------------------------
(* The budget of output tokens: what is left of the context window after   *)
(* the estimated input and a slack.  0 stands for "not known".             *)

contextSlack == 1000
smallestOutput == 300

Lesser(a, b) == IF a <= b THEN a ELSE b
Greater(a, b) == IF a >= b THEN a ELSE b

effectiveContextWindow_mutant_noslack(window) == window

effectiveContextWindow(window) ==
    IF window > contextSlack THEN window - contextSlack ELSE window

availableOutputTokens(window, input) ==
    Greater(0, effectiveContextWindow(window) - input)

\* The prompt is refused when too little is left.
TooLarge(window, input) ==
    window > 0 /\ availableOutputTokens(window, input) < smallestOutput

\* Math.round of the share of the model's maximum, in hundredths.
computedMaxTokens(output, effort) ==
    LET providerMax == IF output = 0 THEN 1800 ELSE output
    IN  Lesser((providerMax * effort + 50) \div 100, providerMax)

Capped(tokens, window, input) ==
    IF window > 0
    THEN Lesser(tokens, Greater(smallestOutput, availableOutputTokens(window, input)))
    ELSE tokens

finalMaxTokens(asked, output, effort, window, input) ==
    LET capped == Capped(computedMaxTokens(output, effort), window, input)
    IN  Capped(IF asked = 0 THEN capped ELSE asked, window, input)

Efforts == {25, 40, 50, 75, 100}

-----------------------------------------------------------------------------
(* The provider a request is made for, and the one its answer is read as.  *)

\* The url of a request: the host of the base url and the path.
RequestUrl(provider, host) ==
    {IF host = "own" THEN "own"
     ELSE CASE provider = "anthropic"   -> "api.anthropic.com"
            [] provider = "huggingface" -> "huggingface.co"
            [] OTHER                    -> "moonshot.ai",
     IF provider = "anthropic" THEN "/v1/messages" ELSE "/chat/completions"}

detectProviderFromRequest_mutant_hostonly(url) ==
    CASE "api.anthropic.com" \in url -> "anthropic"
      [] "huggingface.co" \in url    -> "huggingface"
      [] "moonshot.ai" \in url       -> "moonshot"
      [] OTHER                       -> "unknown"

detectProviderFromRequest(url) ==
    IF url \cap {"api.anthropic.com", "/v1/messages"} # {} THEN "anthropic"
    ELSE IF url \cap {"huggingface.co", "/chat/completions"} # {} THEN "huggingface"
    ELSE IF "moonshot.ai" \in url THEN "moonshot"
    ELSE "unknown"

\* extractAnthropicText or extractHuggingFaceText
FormatOf(provider) ==
    CASE provider = "anthropic"                     -> "content"
      [] provider \in {"huggingface", "moonshot"}   -> "choices"
      [] OTHER                                      -> "unsupported"

-----------------------------------------------------------------------------
(* POST analyze.                                                           *)

SelectDocs(r, then) ==
    LET found == IF req[r].only = {} THEN docs ELSE docs \cap req[r].only
    IN  /\ IF found = {}
           THEN Answer(r, 400, {})
           ELSE req' = [req EXCEPT ![r].pc = then, ![r].docs = found]
        /\ UNCHANGED <<tables, analysis, history>>

SelectRules(r, then) ==
    /\ IF effective = {}
       THEN Answer(r, 400, {})
       ELSE req' = [req EXCEPT ![r].pc = then, ![r].rules = effective]
    /\ UNCHANGED <<tables, analysis, history>>

\* The issues there are (mode incremental), the user's settings, the model and
\* the configured keys are read; then come the budget and the request for the
\* provider, unless its key is missing.
PrepareRequest(r) ==
    /\ At(r, "Analyze", "prepare")
    /\ \E window \in Windows, input \in Inputs, output \in Outputs,
          asked \in Asked, effort \in Efforts, p \in Backends :
          \/ /\ ~TooLarge(window, input)
             /\ req' = [req EXCEPT ![r].pc = "enqueue", ![r].provider = p[1], ![r].host = p[2],
                  ![r].docs = {}, ![r].rules = {},
                  ![r].budget = [input |-> input, window |-> window,
                                 max |-> finalMaxTokens(asked, output, effort, window, input)]]
          \/ Answer(r, 400, {})
    /\ UNCHANGED <<tables, analysis, history>>

\* The runner takes the job and answers with its id.
EnqueueHttpJob(r) ==
    /\ At(r, "Analyze", "enqueue") /\ nextJob <= MaxJob
    /\ jobs' = [jobs EXCEPT ![nextJob] = [status |-> "queued", provider |-> req[r].provider,
                                          host |-> req[r].host]]
    /\ nextJob' = nextJob + 1
    /\ req' = [req EXCEPT ![r].pc = "provider", ![r].job = nextJob, ![r].budget = NoBudget,
                          ![r].provider = "none", ![r].host = "none"]
    /\ UNCHANGED <<tables, provided, consumed, history>>

\* The marker with the provider is written if it can be.
PutProvider(r) ==
    /\ At(r, "Analyze", "provider")
    /\ provided' = provided \cup {req[r].job}
    /\ Answer(r, 202, {})
    /\ UNCHANGED <<tables, jobs, nextJob, consumed, history>>

AnalyzeIssues(r) ==
    \/ At(r, "Analyze", "access") /\ assertProjectAccess(r, 500, "docs")
    \/ At(r, "Analyze", "docs") /\ SelectDocs(r, "rules")
    \/ At(r, "Analyze", "rules") /\ SelectRules(r, "prepare")
    \/ PrepareRequest(r) \/ EnqueueHttpJob(r) \/ PutProvider(r)

\* The job runner: the request is made and its outcome recorded, once.
RunJob(j) ==
    /\ jobs[j].status = "queued"
    /\ \E status \in {"completed", "failed", "http_error", "empty", "garbage"} :
          jobs' = [jobs EXCEPT ![j].status = status]
    /\ UNCHANGED <<tables, nextJob, provided, consumed, req, history, changes, faults>>

JobStatus(r) ==
    \/ At(r, "JobStatus", "access") /\ assertProjectAccess(r, 403, "job")
    \/ /\ At(r, "JobStatus", "job")
       /\ IF jobs[req[r].job] = NoJob THEN Answer(r, 404, {}) ELSE Goto(r, "status")
       /\ UNCHANGED <<tables, analysis, history>>
    \/ /\ At(r, "JobStatus", "status")
       /\ Answer(r, 200, {})
       /\ UNCHANGED <<tables, analysis, history>>

-----------------------------------------------------------------------------
(* POST consume.                                                           *)

\* The text is where the format says it is, and holds findings.
validateIssuePayload(job, format) ==
    format = FormatOf(job.provider) /\ job.status # "garbage"

\* The job, whether it was consumed, its result, and how to read it.
ReadResult(r) ==
    LET rq == req[r]
    IN  /\ UNCHANGED <<tables, analysis, history>>
        /\ \/ /\ At(r, "Consume", "job")
              /\ IF jobs[rq.job] = NoJob THEN Answer(r, 404, {}) ELSE Goto(r, "marker")
           \/ /\ At(r, "Consume", "marker")
              /\ IF rq.job \in consumed THEN Answer(r, 200, {}) ELSE Goto(r, "result")
           \/ /\ At(r, "Consume", "result")
              /\ CASE jobs[rq.job].status \in {"queued", "failed"} -> Answer(r, 500, {})
                   [] jobs[rq.job].status \in {"empty", "http_error"} -> Answer(r, 400, {})
                   [] OTHER -> Goto(r, "format")
           \/ /\ At(r, "Consume", "format")
              /\ LET job == jobs[rq.job]
                     p == IF rq.job \in provided THEN job.provider
                          ELSE detectProviderFromRequest(RequestUrl(job.provider, job.host))
                 IN  req' = [req EXCEPT ![r].format = FormatOf(p), ![r].pc = "parse"]
           \/ /\ At(r, "Consume", "parse")
              /\ IF validateIssuePayload(jobs[rq.job], rq.format)
                 THEN req' = [req EXCEPT ![r].pc = "docs", ![r].format = "none"]
                 ELSE Answer(r, 500, {})

\* A finding is stored when one of its rules and one of its documents were
\* selected; the next one after k, 0 when there is none.
ValidFinding(rq, k) ==
    Findings[k].rules \cap rq.rules # {} /\ Findings[k].docs \cap rq.docs # {}
NextFinding(rq, k) ==
    LET rest == {n \in k + 1..Len(Findings) : ValidFinding(rq, n)}
    IN  IF rest = {} THEN 0 ELSE CHOOSE n \in rest : \A o \in rest : n <= o

\* The job's issues are being stored by r.
Storing(r) == req[r].op = "Consume" /\ req[r].pc \in {"insert", "linkDocs", "linkRules"}

\* To the next finding; after the last one the skipped ones are filed.
Advance(r, k) ==
    LET rq == req[r]
        n  == NextFinding(rq, k)
        skipped == \E o \in 1..Len(Findings) : ~ValidFinding(rq, o)
    IN  /\ req' = [req EXCEPT ![r].k = n, ![r].new = 0,
                      ![r].pc = IF n # 0 THEN "insert" ELSE IF skipped THEN "skipped" ELSE "mark"]
        /\ UNCHANGED wanted
        /\ contended' = IF n # 0 /\ \/ rq.mode = "incremental"
                                    \/ \E s \in Requests \ {r} :
                                          Storing(s) /\ req[s].job = rq.job
                        THEN contended \cup {rq.job} ELSE contended

ClearIssues_mutant_none(r) ==
    /\ At(r, "Consume", "clear")
    /\ Advance(r, 0)
    /\ UNCHANGED <<tables, analysis, withdrawn>>

\* The marker; what it is to stand for are the findings that were selected.
Mark(j, rq) ==
    /\ consumed' = consumed \cup {j}
    /\ wanted' = [wanted EXCEPT ![j] = @ \cup {k \in 1..Len(Findings) : ValidFinding(rq, k)}]

ClearRows(r) ==
    CASE req[r].mode = "replace_all" -> DeleteIssues(Ids)
      [] req[r].mode = "replace_ai"  -> DeleteIssues({i \in Ids : issues[i].origin = "ai"})
      [] OTHER                       -> UNCHANGED <<tables, withdrawn>>

ClearIssues_mutant_markfirst(r) ==
    /\ At(r, "Consume", "clear")
    /\ Mark(req[r].job, req[r])
    /\ ClearRows(r)
    /\ LET n == NextFinding(req[r], 0)
       IN  req' = [req EXCEPT ![r].k = n, ![r].pc = IF n # 0 THEN "insert" ELSE "mark"]
    /\ UNCHANGED <<jobs, nextJob, provided, contended>>

ClearIssues(r) ==
    /\ At(r, "Consume", "clear")
    /\ ClearRows(r)
    /\ Advance(r, 0)
    /\ UNCHANGED analysis

\* The issue, then its documents, then its rules; a foreign key that fails
\* ends the request with what was stored so far.
StoreFinding(r) ==
    LET rq == req[r]
    IN  /\ UNCHANGED analysis
        /\ \/ /\ At(r, "Consume", "insert")
              /\ InsertIssue(r, [origin |-> "ai", job |-> rq.job, finding |-> rq.k,
                                 nonissue |-> FALSE], "linkDocs")
              /\ UNCHANGED history
           \/ /\ At(r, "Consume", "linkDocs")
              /\ LET ds == Findings[rq.k].docs \cap rq.docs
                 IN  /\ InsertDocLinks(rq.new, ds)
                     /\ IF Exists(rq.new) /\ ds \subseteq docs
                        THEN Goto(r, "linkRules") ELSE Answer(r, 500, {})
              /\ UNCHANGED <<project, docs, rules, effective, issues, nextIssue,
                             ruleLinks, history>>
           \/ /\ At(r, "Consume", "linkRules")
              /\ LET xs == Findings[rq.k].rules \cap rq.rules
                 IN  /\ InsertRuleLinks(rq.new, xs)
                     /\ IF Exists(rq.new) /\ xs \subseteq rules
                        THEN Advance(r, rq.k)
                        ELSE Answer(r, 500, {}) /\ UNCHANGED <<wanted, contended>>
              /\ UNCHANGED <<project, docs, rules, effective, issues, nextIssue, docLinks,
                             withdrawn>>

\* The skipped findings go to a file and the marker to KV, if they can.
MarkConsumed(r) ==
    /\ UNCHANGED <<tables, jobs, nextJob, provided, withdrawn, contended>>
    /\ \/ /\ At(r, "Consume", "skipped")
          /\ Goto(r, "mark")
          /\ UNCHANGED <<consumed, wanted>>
       \/ /\ At(r, "Consume", "mark")
          /\ Mark(req[r].job, req[r])
          /\ Answer(r, 200, {})

ConsumeIssues(r) ==
    \/ At(r, "Consume", "access") /\ assertProjectAccess(r, 500, "job")
    \/ ReadResult(r)
    \/ At(r, "Consume", "docs") /\ SelectDocs(r, "rules")
    \/ At(r, "Consume", "rules") /\ SelectRules(r, "clear")
    \/ ClearIssues(r) \/ StoreFinding(r) \/ MarkConsumed(r)

-----------------------------------------------------------------------------
(* routes/issues.ts.  These routes do not ask whose project it is.         *)

\* The rows of the linked documents: the conditions id = a, id = b, ... are
\* joined with AND, so that two different ids find nothing.
SelectLinked(ds) == IF Cardinality(ds) = 1 THEN ds \cap docs ELSE {}

\* For each issue of todo its links, the documents, and the rules.
ReadIssues(r, op) ==
    LET rq == req[r]
        i  == CHOOSE n \in rq.todo : TRUE
        linked == {l[2] : l \in {k \in docLinks : k[1] = i}}
    IN  /\ UNCHANGED <<tables, analysis, history>>
        /\ \/ /\ At(r, op, "links")
              /\ IF rq.todo = {}
                 THEN Answer(r, 200, rq.got)
                 ELSE req' = [req EXCEPT ![r].docs = linked,
                                  ![r].pc = IF linked = {} THEN "ruleLinks" ELSE "linked"]
           \/ /\ At(r, op, "linked")
              /\ req' = [req EXCEPT ![r].got = @ \cup ({i} \X SelectLinked(rq.docs)),
                                    ![r].docs = {}, ![r].pc = "ruleLinks"]
           \/ /\ At(r, op, "ruleLinks")
              /\ req' = [req EXCEPT ![r].todo = @ \ {i}, ![r].pc = "links"]

ListIssues(r) ==
    \/ /\ At(r, "List", "issues")
       /\ req' = [req EXCEPT ![r].todo = {i \in Ids : Exists(i)}, ![r].pc = "links"]
       /\ UNCHANGED <<tables, analysis, history>>
    \/ ReadIssues(r, "List")

SelectIssue(r, op, then) ==
    /\ At(r, op, "select")
    /\ IF Exists(req[r].issue)
       THEN req' = [req EXCEPT ![r].todo = {req[r].issue}, ![r].pc = then]
       ELSE Answer(r, 404, {})
    /\ UNCHANGED <<tables, analysis, history>>

GetIssue(r) == SelectIssue(r, "Get", "links") \/ ReadIssues(r, "Get")

\* The issue stays when its links are refused.
CreateIssue(r) ==
    LET rq == req[r]
    IN  /\ UNCHANGED <<analysis, history>>
        /\ \/ /\ At(r, "Create", "insert")
              /\ InsertIssue(r, [origin |-> "manual", job |-> 0, finding |-> 0,
                                 nonissue |-> FALSE], "link")
           \/ /\ At(r, "Create", "link")
              /\ InsertDocLinks(rq.new, rq.links)
              /\ IF rq.links = {} THEN Answer(r, 201, {})
                 ELSE IF Exists(rq.new) /\ rq.links \subseteq docs THEN Goto(r, "linked")
                 ELSE Answer(r, 500, {})
              /\ UNCHANGED <<project, docs, rules, effective, issues, nextIssue, ruleLinks>>
           \/ /\ At(r, "Create", "linked")
              /\ Answer(r, 201, SelectLinked(rq.links))
              /\ UNCHANGED tables

\* An update without columns is refused; the links are deleted, then inserted.
PatchIssue(r) ==
    LET rq == req[r]
    IN  \/ SelectIssue(r, "Patch", "update")
        \/ /\ UNCHANGED <<analysis, wanted, contended>>
           /\ \/ /\ At(r, "Patch", "update") /\ ~rq.fields
                 /\ Answer(r, 500, {})
                 /\ UNCHANGED <<tables, withdrawn>>
              \/ /\ At(r, "Patch", "update") /\ rq.fields
                 /\ \E nonissue \in BOOLEAN :
                       issues' = IF Exists(rq.issue)
                                 THEN [issues EXCEPT ![rq.issue].nonissue = nonissue]
                                 ELSE issues
                 /\ Goto(r, IF rq.relink THEN "unlink" ELSE "links")
                 /\ UNCHANGED <<project, docs, rules, effective, nextIssue,
                                docLinks, ruleLinks, withdrawn>>
              \/ /\ At(r, "Patch", "unlink")
                 /\ docLinks' = {l \in docLinks : l[1] # rq.issue}
                 /\ Goto(r, IF rq.links = {} THEN "links" ELSE "link")
                 /\ UNCHANGED <<project, docs, rules, effective, issues, nextIssue, ruleLinks>>
                 /\ Withdraw
              \/ /\ At(r, "Patch", "link")
                 /\ InsertDocLinks(rq.issue, rq.links)
                 /\ IF Exists(rq.issue) /\ rq.links \subseteq docs
                    THEN Goto(r, "links") ELSE Answer(r, 500, {})
                 /\ UNCHANGED <<project, docs, rules, effective, issues, nextIssue, ruleLinks,
                                withdrawn>>
        \/ ReadIssues(r, "Patch")

DeleteIssue(r) ==
    \/ SelectIssue(r, "Delete", "delete")
    \/ /\ At(r, "Delete", "delete")
       /\ DeleteIssues({req[r].issue})
       /\ Answer(r, 200, {})
       /\ UNCHANGED <<analysis, wanted, contended>>

-----------------------------------------------------------------------------
(* What goes on around: documents, rules and the project are deleted, a    *)
(* rule is detached.                                                       *)

Change ==
    /\ changes < MaxChanges
    /\ changes' = changes + 1
    /\ \/ \E d \in docs :
             /\ docs' = docs \ {d}
             /\ docLinks' = {l \in docLinks : l[2] # d}
             /\ UNCHANGED <<project, rules, effective, issues, ruleLinks>>
       \/ \E x \in effective :
             /\ effective' = effective \ {x}
             /\ UNCHANGED <<project, docs, rules, issues, docLinks, ruleLinks>>
       \/ \E x \in rules :
             /\ rules' = rules \ {x} /\ effective' = effective \ {x}
             /\ ruleLinks' = {l \in ruleLinks : l[2] # x}
             /\ UNCHANGED <<project, docs, issues, docLinks>>
       \/ /\ project /\ project' = FALSE
          /\ docs' = {} /\ effective' = {} /\ docLinks' = {} /\ ruleLinks' = {}
          /\ issues' = [i \in Ids |-> NoIssue]
          /\ UNCHANGED rules
    /\ Withdraw
    /\ UNCHANGED <<nextIssue, analysis, req, wanted, contended, faults>>

FirstStep(op) ==
    CASE op \in {"Analyze", "Consume", "JobStatus"} -> "access"
      [] op = "List"   -> "issues"
      [] op = "Create" -> "insert"
      [] OTHER         -> "select"

Receive(r) ==
    /\ req[r].pc = "idle"
    /\ \E op \in Operations[r] :
       \E i \in IF op \in {"Get", "Patch", "Delete"} THEN 1..nextIssue - 1 ELSE {0},
          j \in IF op \in {"Consume", "JobStatus"} THEN 1..nextJob - 1 ELSE {0},
          mode \in IF op = "Consume" THEN Modes ELSE {"none"},
          only \in IF op \in {"Analyze", "Consume"} THEN Selections[r] ELSE {{}},
          links \in IF op \in {"Create", "Patch"} THEN SUBSET Docs ELSE {{}},
          fields, relink \in IF op = "Patch" THEN BOOLEAN ELSE {TRUE},
          member \in IF FirstStep(op) = "access" THEN BOOLEAN ELSE {TRUE} :
          req' = [req EXCEPT ![r] = [Idle EXCEPT !.op = op, !.pc = FirstStep(op),
                     !.issue = i, !.job = j, !.mode = mode, !.only = only, !.links = links,
                     !.fields = fields, !.relink = relink, !.member = member]]
    /\ UNCHANGED <<tables, analysis, history>>

\* A call throws.  The writes of the two markers and of the skipped findings
\* are caught; every other one ends the request.  The runner may have taken the
\* job although the call to it throws.
CallThrows(r) ==
    /\ req[r].pc \notin {"idle", "done"} /\ faults < MaxFaults
    /\ faults' = faults + 1
    /\ CASE At(r, "Consume", "skipped")  -> Goto(r, "mark")
         [] At(r, "Consume", "mark")     -> Answer(r, 200, {})
         [] At(r, "Analyze", "provider") -> Answer(r, 202, {})
         [] OTHER                        -> Answer(r, 500, {})
    /\ \/ UNCHANGED <<jobs, nextJob>>
       \/ /\ At(r, "Analyze", "enqueue") /\ nextJob <= MaxJob
          /\ jobs' = [jobs EXCEPT ![nextJob] =
                         [status |-> "queued", provider |-> req[r].provider, host |-> req[r].host]]
          /\ nextJob' = nextJob + 1
    /\ UNCHANGED <<tables, provided, consumed, history, changes>>

Stop(r) ==
    /\ req[r].pc \notin {"idle", "done"} /\ faults < MaxFaults
    /\ faults' = faults + 1
    /\ req' = [req EXCEPT ![r] = [Idle EXCEPT !.pc = "done"]]
    /\ UNCHANGED <<tables, analysis, history, changes>>

Handle(r) ==
    \/ AnalyzeIssues(r) \/ JobStatus(r) \/ ConsumeIssues(r)
    \/ ListIssues(r) \/ GetIssue(r) \/ CreateIssue(r) \/ PatchIssue(r) \/ DeleteIssue(r)

Next ==
    \/ \E r \in Requests :
          \/ (Receive(r) \/ Handle(r)) /\ UNCHANGED <<changes, faults>>
          \/ CallThrows(r) \/ Stop(r)
    \/ \E j \in Jobs : RunJob(j)
    \/ Change

Spec == Init /\ [][Next]_vars

-----------------------------------------------------------------------------
(* Properties.                                                             *)

\* The rows and requests are well formed; every link joins an issue with a
\* document or a rule that is there, and nothing is left of a deleted project.
TypeOK ==
    /\ issues \in [Ids -> IssueRow \cup {NoIssue}]
    /\ jobs \in [Jobs -> HttpJob \cup {NoJob}]
    /\ nextIssue \in 1..MaxIssue + 1 /\ nextJob \in 1..MaxJob + 1
    /\ docs \subseteq Docs /\ effective \subseteq rules /\ rules \subseteq Rules
    /\ docLinks \subseteq {i \in Ids : Exists(i)} \X docs
    /\ ruleLinks \subseteq {i \in Ids : Exists(i)} \X rules
    /\ ~project => docs = {} /\ \A i \in Ids : ~Exists(i)
    /\ provided \cup consumed \subseteq Jobs
    /\ changes \in 0..MaxChanges /\ faults \in 0..MaxFaults

\* The row of a finding is there with its documents and rules.
Stored(j, k) ==
    \E i \in Ids :
        /\ issues[i].job = j /\ issues[i].finding = k
        /\ (\E l \in docLinks : l[1] = i) /\ (\E l \in ruleLinks : l[1] = i)

\* A job marked as consumed, which nobody can consume again, has all its
\* findings, each linked: a request that failed or was stopped half-way leaves
\* the job to be consumed again.  Excepted are the jobs that lost rows or links
\* while they were being stored or since then: to a user, to a change around
\* them, to the analysis of another job, or to another request that consumed
\* the same job (two may pass the check of the marker).
MarkedIsComplete ==
    \A j \in consumed \ withdrawn : \A k \in wanted[j] : Stored(j, k)

\* Each finding of a job is there at most once, however often consuming it
\* failed, was stopped or was repeated after its marker could not be written;
\* unless two requests stored it at the same time or it was added to what was
\* there (mode incremental).
NoDuplicates ==
    \A j \in Jobs \ contended : \A k \in 1..Len(Findings) :
        Cardinality({i \in Ids : issues[i].job = j /\ issues[i].finding = k}) <= 1

\* What a provider is asked for fits its context window: the prompt and the
\* largest output together, with the slack where the window is larger than it.
BudgetFits ==
    \A r \in Requests :
        LET b == req[r].budget
        IN  b.window > 0 =>
              /\ b.input + b.max <= b.window
              /\ b.window > contextSlack => b.input + b.max + contextSlack <= b.window

\* An answer is read in the format of the provider that gave it, also when the
\* marker with the provider could not be written and the url has to tell.
ReadAsWritten ==
    \A r \in Requests :
        At(r, "Consume", "parse") => req[r].format = FormatOf(jobs[req[r].job].provider)
=============================================================================
