---------------------------- MODULE Issues_proofs ----------------------------
(***************************************************************************)
(* Proofs about Issues: the budget of output tokens of an analysis fits    *)
(* the context window; the rows, the links and the jobs agree; an answer   *)
(* is read as it was written; a job that is marked is stored; and          *)
(* a finding is stored once.  For every number of requests, issues, jobs   *)
(* and faults, and every window, prompt, model and answer.                 *)
(***************************************************************************)
EXTENDS Issues, FiniteSetTheorems, WellFoundedInduction, TLAPS

-----------------------------------------------------------------------------
(* The budget.                                                             *)

\* What is available is what the effective window leaves, and the effective
\* window leaves the slack where there is room for it (analyze.post.ts:311-317).
LEMMA Available ==
    ASSUME NEW window \in Nat, NEW input \in Nat
    PROVE  /\ availableOutputTokens(window, input) \in Nat
           /\ availableOutputTokens(window, input) > 0 =>
                 /\ input + availableOutputTokens(window, input) <= window
                 /\ window > contextSlack =>
                       input + availableOutputTokens(window, input) + contextSlack <= window
BY DEF availableOutputTokens, effectiveContextWindow, Greater, contextSlack

\* The cap never exceeds what is available once the prompt was let through, and
\* the floor of 300 tokens does not break it (analyze.post.ts:318-336).
LEMMA CapHolds ==
    ASSUME NEW window \in Nat, NEW input \in Nat, NEW tokens \in Nat,
           window > 0, ~TooLarge(window, input)
    PROVE  /\ Capped(tokens, window, input) \in Nat
           /\ Capped(tokens, window, input) <= availableOutputTokens(window, input)
           /\ availableOutputTokens(window, input) > 0
<1> DEFINE free == availableOutputTokens(window, input)
<1>1. free \in Nat
  BY Available
<1>2. free >= smallestOutput
  BY <1>1 DEF TooLarge, smallestOutput
<1>3. Greater(smallestOutput, free) = free
  BY <1>1, <1>2 DEF Greater, smallestOutput
<1>4. Capped(tokens, window, input) = Lesser(tokens, free)
  BY <1>3 DEF Capped
<1> HIDE DEF free
<1>5. Lesser(tokens, free) \in Nat /\ Lesser(tokens, free) <= free
  BY <1>1 DEF Lesser
<1>6. free > 0
  BY <1>1, <1>2 DEF smallestOutput
<1> QED BY <1>4, <1>5, <1>6 DEF free

\* A share of the model's maximum is a number of tokens (analyze.post.ts:298-308).
LEMMA ShareIsNat ==
    ASSUME NEW output \in Nat, NEW effort \in Nat
    PROVE  computedMaxTokens(output, effort) \in Nat
<1> DEFINE providerMax == IF output = 0 THEN 1800 ELSE output
<1>1. providerMax \in Nat
  OBVIOUS
<1> HIDE DEF providerMax
<1>2. providerMax * effort \in Nat
  BY <1>1
<1> DEFINE n == providerMax * effort
<1>3. n \in Nat
  BY <1>2
<1> HIDE DEF n
<1>4. (n + 50) \div 100 \in Nat
  BY <1>3
<1>5. Lesser((n + 50) \div 100, providerMax) \in Nat
  BY <1>1, <1>4 DEF Lesser
<1> QED BY <1>5 DEF computedMaxTokens, n, providerMax

\* Whatever a user asks for, whatever the model's maximum, the effort, the
\* window and the prompt: a request that is not refused asks for no more output
\* than the context window has left, with the slack where the window is larger
\* than it (analyze.post.ts:298-336).
THEOREM FinalBudgetFits ==
    ASSUME NEW asked \in Nat, NEW output \in Nat, NEW effort \in Nat,
           NEW window \in Nat, NEW input \in Nat,
           window > 0, ~TooLarge(window, input)
    PROVE  LET max == finalMaxTokens(asked, output, effort, window, input)
           IN  /\ input + max <= window
               /\ window > contextSlack => input + max + contextSlack <= window
<1> DEFINE share == computedMaxTokens(output, effort)
           tokens == IF asked = 0 THEN Capped(share, window, input) ELSE asked
           free == availableOutputTokens(window, input)
           max == Capped(tokens, window, input)
<1>1. share \in Nat
  BY ShareIsNat
<1>2. Capped(share, window, input) \in Nat
  <2> HIDE DEF share
  <2> QED BY <1>1, CapHolds
<1>3. tokens \in Nat
  BY <1>2
<1>4. max \in Nat /\ max <= free /\ free > 0
  <2> HIDE DEF tokens
  <2> QED BY <1>3, CapHolds
<1>5. free \in Nat /\ input + free <= window
      /\ (window > contextSlack => input + free + contextSlack <= window)
  BY <1>4, Available
<1>6. finalMaxTokens(asked, output, effort, window, input) = max
  BY DEF finalMaxTokens
<1> HIDE DEF max, free
<1>7. input + max <= window
  BY <1>4, <1>5
<1>8. window > contextSlack => input + max + contextSlack <= window
  BY <1>4, <1>5 DEF contextSlack
<1> QED BY <1>6, <1>7, <1>8

-----------------------------------------------------------------------------
(* The inductive invariant.                                                *)

Fields == {"op", "pc", "member", "issue", "job", "mode", "only", "links", "fields",
           "relink", "docs", "rules", "todo", "k", "new", "budget", "provider",
           "host", "format", "ans", "got"}

\* The rows and links of TypeOK; and a row that names a job is one of the AI's,
\* so that replace_ai deletes every row of the job.  No row has the next id.
TablesOK ==
    /\ issues \in [Ids -> IssueRow \cup {NoIssue}]
    /\ nextIssue \in 1..MaxIssue + 1
    /\ docs \subseteq Docs /\ effective \subseteq rules /\ rules \subseteq Rules
    /\ docLinks \subseteq {i \in Ids : Exists(i)} \X docs
    /\ ruleLinks \subseteq {i \in Ids : Exists(i)} \X rules
    /\ ~project => docs = {} /\ \A i \in Ids : ~Exists(i)
    /\ \A i \in Ids : issues[i].job \in Jobs => issues[i].origin = "ai"
    /\ \A i \in Ids : Exists(i) => i < nextIssue

\* The jobs and markers of TypeOK; a job that has its number has its provider.
JobsOK ==
    /\ jobs \in [Jobs -> HttpJob \cup {NoJob}]
    /\ nextJob \in 1..MaxJob + 1
    /\ provided \cup consumed \subseteq Jobs
    /\ \A j \in 1..nextJob - 1 : jobs[j] \in HttpJob
    /\ DOMAIN wanted = Jobs /\ \A j \in Jobs \ consumed : wanted[j] = {}

\* Two rows of a finding are one row, unless the job is contended.
RowsOnce ==
    \A a, b \in Ids :
        (/\ issues[a].job \in Jobs \ contended
         /\ issues[b].job = issues[a].job
         /\ issues[b].finding = issues[a].finding) => a = b

Fits(b) ==
    b.window > 0 =>
      /\ b.input + b.max <= b.window
      /\ b.window > contextSlack => b.input + b.max + contextSlack <= b.window

Stores(q) == q.op = "Consume" /\ q.pc \in {"insert", "linkDocs", "linkRules"}

\* q has cleared its job's rows and has not marked the job.
Marking(q) ==
    q.op = "Consume" /\ q.pc \in {"insert", "linkDocs", "linkRules", "skipped", "mark"}

\* What request q holds, given the jobs and the next job.
Base(q, js, nj) ==
    /\ q.op = "Consume" => q.job \in 1..nj - 1
    /\ (q.op = "Analyze" /\ q.pc = "provider") => q.job \in 1..nj - 1
    /\ (q.op = "Analyze" /\ q.pc = "enqueue") => q.provider \in Providers /\ q.host \in Hosts
    /\ q.op = "Consume" => q.mode \in Modes
    /\ (q.op = "Consume" /\ q.pc = "parse") => q.format = FormatOf(js[q.job].provider)
    /\ Stores(q) => q.k \in 1..Len(Findings)

\* While q stores the findings of a job that nobody else stores, the rows of the
\* job are those of the findings before the one q is at.
Ahead(q, iss, con) ==
    (Stores(q) /\ q.job \notin con) =>
          \A i \in Ids : iss[i].job = q.job =>
              iss[i].finding <= q.k /\ (q.pc = "insert" => iss[i].finding < q.k)

Good(q, iss, js, nj, con) ==
    /\ DOMAIN q = Fields
    /\ Fits(q.budget)
    /\ Base(q, js, nj)
    /\ Ahead(q, iss, con)

\* Two requests that store the same job make it contended.
Apart ==
    \A r, s \in Requests :
        (r # s /\ Stores(req[r]) /\ Stores(req[s]) /\ req[r].job = req[s].job) =>
            req[r].job \in contended

RequestsOK ==
    /\ DOMAIN req = Requests
    /\ \A r \in Requests : Good(req[r], issues, jobs, nextJob, contended)
    /\ Apart

\* Stored(j, k), with the rows iss and the links dl and rl.
StoredIn(j, k, iss, dl, rl) ==
    \E i \in Ids :
        /\ iss[i].job = j /\ iss[i].finding = k
        /\ (\E l \in dl : l[1] = i) /\ (\E l \in rl : l[1] = i)

\* While q is on its way to the marker of a job that is not withdrawn, the findings
\* it selected are stored up to the one it is at, and the row it is linking, if it
\* is still there, is of that finding and has its documents before its rules.
Covered(q, iss, ni, dl, rl, wd) ==
    (Marking(q) /\ q.job \notin wd) =>
        /\ \A k \in 1..Len(Findings) :
               ValidFinding(q, k) /\ (k < q.k \/ ~Stores(q)) => StoredIn(q.job, k, iss, dl, rl)
        /\ Stores(q) => ValidFinding(q, q.k)
        /\ q.pc \in {"linkDocs", "linkRules"} =>
               /\ q.new \in 1..ni - 1
               /\ iss[q.new] # NoIssue => iss[q.new].job = q.job /\ iss[q.new].finding = q.k
        /\ q.pc = "linkRules" /\ iss[q.new] # NoIssue => \E l \in dl : l[1] = q.new

Complete ==
    /\ \A r \in Requests :
           Covered(req[r], issues, nextIssue, docLinks, ruleLinks, withdrawn)
    /\ MarkedIsComplete

StoreInv == TablesOK /\ JobsOK /\ RowsOnce
IssuesInv == StoreInv /\ RequestsOK /\ Complete /\ changes \in 0..MaxChanges /\ faults \in 0..MaxFaults

-----------------------------------------------------------------------------
(* What the steps share.                                                   *)

\* A row keeps its job and finding until it goes; what is new is of the jobs S.
Kept(S) ==
    \A i \in Ids : issues'[i].job \in Jobs =>
        \/ issues'[i].job = issues[i].job /\ issues'[i].finding = issues[i].finding
        \/ issues'[i].job \in S

\* A row of a job that is being stored, or marked, stays with its links unless
\* the job is withdrawn; an id is not used again.
Lasting ==
    /\ nextIssue \in Int /\ nextIssue' \in Int /\ nextIssue <= nextIssue'
    /\ \A i \in Ids : i < nextIssue /\ issues'[i] # NoIssue =>
           /\ issues[i] # NoIssue
           /\ issues'[i].job = issues[i].job /\ issues'[i].finding = issues[i].finding
    /\ \A j \in Jobs : InUse(j) /\ j \notin withdrawn' =>
           \A i \in Ids : issues[i].job = j =>
               /\ issues'[i].job = j /\ issues'[i].finding = issues[i].finding
               /\ \A l \in docLinks : l[1] = i => l \in docLinks'
               /\ \A l \in ruleLinks : l[1] = i => l \in ruleLinks'

\* A job keeps its provider; what is withdrawn or contended stays so.
Evolves(S) ==
    /\ nextJob' \in Int /\ nextJob <= nextJob'
    /\ \A j \in 1..nextJob - 1 : jobs'[j].provider = jobs[j].provider
    /\ withdrawn \subseteq withdrawn' /\ contended \subseteq contended'
    /\ Kept(S) /\ Lasting

\* The jobs that r stores findings of.
StoredBy(r) == {j \in Jobs : Stores(req[r]) /\ req[r].job = j}

\* r moves, the others stay, r does not begin to store what another one stores
\* without making it contended, and comes to storing over the clear.
Moved(r) ==
    /\ DOMAIN req' = Requests
    /\ \A s \in Requests : s # r => req'[s] = req[s]
    /\ Good(req'[r], issues', jobs', nextJob', contended')
    /\ Stores(req'[r]) =>
          \/ Stores(req[r]) /\ req'[r].job = req[r].job
          \/ req'[r].job \in contended'
          \/ \A s \in Requests \ {r} : ~(Stores(req[s]) /\ req[s].job = req'[r].job)
    /\ Marking(req'[r]) => Marking(req[r]) \/ At(r, "Consume", "clear")

\* What a step of r does.
Step(r) == StoreInv' /\ Evolves(StoredBy(r)) /\ Moved(r)

\* NoIssue is no row and names no job.
LEMMA RowIsNotNoIssue ==
    /\ NoIssue \notin IssueRow /\ NoIssue.job = 0 /\ 0 \notin Jobs
<1>1. NoIssue.origin = "none" /\ NoIssue.job = 0
  BY DEF NoIssue
<1>2. \A row \in IssueRow : row.origin # "none"
  BY DEF IssueRow
<1>3. 0 \notin Jobs
  BY DEF Jobs
<1>4. QED
  BY <1>1, <1>2, <1>3

LEMMA JobsGrow ==
    ASSUME NEW a \in Int, NEW b \in Int, a <= b
    PROVE  1..a - 1 \subseteq 1..b - 1
OBVIOUS

LEMMA BaseStays ==
    ASSUME StoreInv, NEW S, Evolves(S), NEW q, Base(q, jobs, nextJob)
    PROVE  Base(q, jobs', nextJob')
<1>1. nextJob \in Int /\ nextJob' \in Int /\ nextJob <= nextJob'
  BY DEF StoreInv, JobsOK, Evolves
<1>2. 1..nextJob - 1 \subseteq 1..nextJob' - 1
  BY <1>1, JobsGrow
<1>3. (q.op = "Consume" /\ q.pc = "parse") => q.format = FormatOf(jobs'[q.job].provider)
  BY DEF Base, Evolves
<1>4. QED
  BY <1>2, <1>3 DEF Base, Evolves

\* What a request holds stays good; the new rows are of a job that it does not
\* store, or that is contended.
LEMMA GoodStays ==
    ASSUME StoreInv, NEW S, Evolves(S), NEW q,
           Good(q, issues, jobs, nextJob, contended),
           Stores(q) /\ q.job \in S => q.job \in contended
    PROVE  Good(q, issues', jobs', nextJob', contended')
<1>1. Base(q, jobs, nextJob) /\ Ahead(q, issues, contended)
  BY DEF Good
<1>2. ASSUME Stores(q), q.job \notin contended', NEW i \in Ids, issues'[i].job = q.job
      PROVE  issues'[i].finding <= q.k /\ (q.pc = "insert" => issues'[i].finding < q.k)
  <2>1. q.job \notin contended /\ q.job \notin S
    BY <1>2 DEF Evolves
  <2>2. q.job \in Jobs
    <3>1. q.job \in 1..nextJob - 1
      BY <1>1, <1>2 DEF Base, Stores
    <3>2. 1..nextJob - 1 \subseteq Jobs
      BY IssuesAssumption DEF StoreInv, JobsOK, Jobs
    <3>3. QED
      BY <3>1, <3>2
  <2>3. issues[i].job = q.job /\ issues'[i].finding = issues[i].finding
    BY <1>2, <2>1, <2>2 DEF Evolves, Kept
  <2>4. QED
    BY <1>1, <1>2, <2>1, <2>3 DEF Ahead
<1>3. Ahead(q, issues', contended')
  BY <1>2 DEF Ahead
<1>4. Base(q, jobs', nextJob')
  BY <1>1, BaseStays
<1>5. QED
  BY <1>3, <1>4 DEF Good

\* A step of r keeps what all requests hold.
LEMMA StepKeeps ==
    ASSUME StoreInv, RequestsOK, NEW r \in Requests, Step(r)
    PROVE  StoreInv' /\ RequestsOK'
<1>1. ASSUME NEW s \in Requests, s # r
      PROVE  Good(req'[s], issues', jobs', nextJob', contended')
  <2>1. req'[s] = req[s]
    BY <1>1 DEF Step, Moved
  <2>2. Stores(req[s]) /\ req[s].job \in StoredBy(r) => req[s].job \in contended
    BY <1>1 DEF StoredBy, RequestsOK, Apart
  <2>3. Good(req[s], issues', jobs', nextJob', contended')
    BY <2>2, GoodStays DEF Step, RequestsOK
  <2>4. QED
    BY <2>1, <2>3
<1>2. ASSUME NEW a \in Requests, NEW b \in Requests, a # b,
             Stores(req'[a]), Stores(req'[b]), req'[a].job = req'[b].job
      PROVE  req'[a].job \in contended'
  <2>1. contended \subseteq contended'
    BY DEF Step, Evolves
  <2>2. \A s \in Requests : s # r => req'[s] = req[s]
    BY DEF Step, Moved
  <2>3. CASE a # r /\ b # r
    BY <1>2, <2>1, <2>2, <2>3 DEF RequestsOK, Apart
  <2>4. ASSUME NEW s \in Requests, s # r, Stores(req'[s]), Stores(req'[r]),
               req'[s].job = req'[r].job
        PROVE  req'[r].job \in contended'
    <3>1. Stores(req[s]) /\ req[s].job = req'[r].job
      BY <2>2, <2>4
    <3>2. CASE Stores(req[r]) /\ req'[r].job = req[r].job
      BY <2>1, <2>4, <3>1, <3>2 DEF RequestsOK, Apart
    <3>3. QED
      BY <2>4, <3>1, <3>2 DEF Step, Moved
  <2>5. QED
    BY <1>2, <2>3, <2>4
<1>3. Apart'
  BY <1>2 DEF Apart, Stores
<1>4. QED
  BY <1>1, <1>3 DEF Step, Moved, RequestsOK

\* Links are added at most.
LEMMA LinksLast ==
    ASSUME StoreInv, UNCHANGED <<issues, nextIssue>>,
           docLinks \subseteq docLinks', ruleLinks \subseteq ruleLinks'
    PROVE  Lasting
<1>1. nextIssue \in Int
  BY DEF StoreInv, TablesOK
<1>2. QED
  BY <1>1 DEF Lasting

\* Rows and links go, and the jobs they are taken from are withdrawn.
LEMMA RowsLast ==
    ASSUME StoreInv, nextIssue' = nextIssue, Withdraw,
           \A i \in Ids : issues'[i] # NoIssue =>
               /\ issues[i] # NoIssue
               /\ issues'[i].job = issues[i].job /\ issues'[i].finding = issues[i].finding
    PROVE  Lasting /\ withdrawn \subseteq withdrawn'
<1>1. nextIssue \in Int
  BY DEF StoreInv, TablesOK
<1>2. ASSUME NEW j \in Jobs, InUse(j), j \notin withdrawn', NEW i \in Ids, issues[i].job = j
      PROVE  /\ issues'[i].job = j /\ issues'[i].finding = issues[i].finding
             /\ \A l \in docLinks : l[1] = i => l \in docLinks'
             /\ \A l \in ruleLinks : l[1] = i => l \in ruleLinks'
  <2>1. ~Loses(j)
    BY <1>2 DEF Withdraw
  <2>2. /\ issues'[i] # NoIssue
        /\ \A l \in (docLinks \ docLinks') \cup (ruleLinks \ ruleLinks') : l[1] # i
    BY <1>2, <2>1 DEF Loses
  <2>3. QED
    BY <1>2, <2>2
<1>3. withdrawn \subseteq withdrawn'
  BY DEF Withdraw
<1>4. QED
  BY <1>1, <1>2, <1>3 DEF Lasting

\* Nothing is written.
LEMMA NoWrite ==
    ASSUME StoreInv, UNCHANGED <<tables, analysis, history>>, NEW S
    PROVE  StoreInv' /\ Evolves(S)
<1>1. TablesOK'
  BY DEF StoreInv, TablesOK, Exists, tables
<1>2. JobsOK'
  BY DEF StoreInv, JobsOK, analysis, history
<1>3. RowsOnce'
  BY DEF StoreInv, RowsOnce, tables, history
<1>4. Lasting
  BY LinksLast DEF tables
<1>5. Evolves(S)
  BY <1>4 DEF StoreInv, JobsOK, Evolves, Kept, tables, analysis, history
<1>6. QED
  BY <1>1, <1>2, <1>3, <1>5 DEF StoreInv

\* Rows only go, and the jobs that are contended stay so.
LEMMA RowsOnceKept ==
    ASSUME RowsOnce, Kept({}), contended \subseteq contended'
    PROVE  RowsOnce'
BY DEF RowsOnce, Kept

-----------------------------------------------------------------------------
(* Where a request goes.                                                   *)

\* The places at which nothing is known but what came with the request.
Calm(q) ==
    \/ q.op \notin {"Analyze", "Consume"}
    \/ q.pc \notin {"provider", "enqueue", "skipped", "mark", "parse",
                    "insert", "linkDocs", "linkRules"}

LEMMA NoBudgetFits == Fits(NoBudget)
BY DEF Fits, NoBudget

\* The request goes on to a calm place.
LEMMA MoveOn ==
    ASSUME StoreInv, RequestsOK, NEW r \in Requests, Evolves(StoredBy(r)),
           NEW q, req' = [req EXCEPT ![r] = q], DOMAIN q = Fields,
           q.op = req[r].op, q.job = req[r].job, q.mode = req[r].mode,
           q.budget = req[r].budget, Calm(q)
    PROVE  Moved(r)
<1>1. req'[r] = q /\ DOMAIN req' = Requests /\ \A s \in Requests : s # r => req'[s] = req[s]
  BY DEF RequestsOK
<1>2. Good(req[r], issues, jobs, nextJob, contended)
  BY DEF RequestsOK
<1>3. Base(req[r], jobs', nextJob')
  BY <1>2, BaseStays DEF Good
<1>4. Base(q, jobs', nextJob') /\ ~Stores(q) /\ ~Marking(q)
  BY <1>3 DEF Base, Calm, Stores, Marking
<1>5. Fits(q.budget) /\ Ahead(q, issues', contended')
  BY <1>2, <1>4 DEF Good, Ahead
<1>6. QED
  BY <1>1, <1>4, <1>5 DEF Moved, Good

LEMMA GotoCalm ==
    ASSUME StoreInv, RequestsOK, NEW r \in Requests, Evolves(StoredBy(r)),
           NEW l, Goto(r, l),
           \/ req[r].op \notin {"Analyze", "Consume"}
           \/ l \notin {"provider", "enqueue", "skipped", "mark", "parse",
                        "insert", "linkDocs", "linkRules"}
    PROVE  Moved(r)
<1> DEFINE q == [req[r] EXCEPT !.pc = l]
<1>1. DOMAIN req[r] = Fields
  BY DEF RequestsOK, Good
<1>2. /\ DOMAIN q = Fields /\ q.op = req[r].op /\ q.job = req[r].job
      /\ q.mode = req[r].mode /\ q.budget = req[r].budget /\ q.pc = l
  BY <1>1 DEF Fields
<1>3. req' = [req EXCEPT ![r] = q]
  BY DEF Goto
<1> HIDE DEF q
<1>4. Calm(q)
  BY <1>2 DEF Calm
<1>5. QED
  BY <1>2, <1>3, <1>4, MoveOn

\* A request without an operation is good whatever is stored.
LEMMA MoveToRest ==
    ASSUME RequestsOK, NEW r \in Requests, NEW q, req' = [req EXCEPT ![r] = q],
           DOMAIN q = Fields, q.op = "none", q.budget = NoBudget
    PROVE  Moved(r)
<1>1. req'[r] = q /\ DOMAIN req' = Requests /\ \A s \in Requests : s # r => req'[s] = req[s]
  BY DEF RequestsOK
<1>2. Base(q, jobs', nextJob') /\ ~Stores(q) /\ ~Marking(q)
  BY DEF Base, Stores, Marking
<1>3. Fits(q.budget) /\ Ahead(q, issues', contended')
  BY <1>2, NoBudgetFits DEF Ahead
<1>4. QED
  BY <1>1, <1>2, <1>3 DEF Moved, Good

LEMMA AnswerMoved ==
    ASSUME RequestsOK, NEW r \in Requests, NEW status, NEW got, Answer(r, status, got)
    PROVE  Moved(r)
<1> DEFINE p == [Idle EXCEPT !.pc = "done", !.ans = status,
                             !.links = req[r].links, !.got = got]
           o == [Idle EXCEPT !.pc = "done"]
           q == IF status = 201 THEN p ELSE o
<1>1. DOMAIN p = Fields /\ p.op = "none" /\ p.budget = NoBudget
  BY DEF Idle, Fields
<1>2. DOMAIN o = Fields /\ o.op = "none" /\ o.budget = NoBudget
  BY DEF Idle, Fields
<1>3. req' = [req EXCEPT ![r] = q]
  BY DEF Answer
<1> HIDE DEF p, o
<1>4. DOMAIN q = Fields /\ q.op = "none" /\ q.budget = NoBudget
  BY <1>1, <1>2
<1> HIDE DEF q
<1>5. QED
  BY <1>3, <1>4, MoveToRest

\* A call that only reads: the handler goes on or answers.
LEMMA ReadStep ==
    ASSUME StoreInv, RequestsOK, NEW r \in Requests,
           UNCHANGED <<tables, analysis, history>>,
           \/ \E status, got : Answer(r, status, got)
           \/ \E l : Goto(r, l) /\
                 \/ req[r].op \notin {"Analyze", "Consume"}
                 \/ l \notin {"provider", "enqueue", "skipped", "mark", "parse",
                              "insert", "linkDocs", "linkRules"}
    PROVE  Step(r)
<1>1. StoreInv' /\ Evolves(StoredBy(r))
  BY NoWrite
<1>2. Moved(r)
  BY <1>1, AnswerMoved, GotoCalm
<1>3. QED
  BY <1>1, <1>2 DEF Step

\* The same, with what was read kept in the request.
LEMMA ReadInto ==
    ASSUME StoreInv, RequestsOK, NEW r \in Requests,
           UNCHANGED <<tables, analysis, history>>,
           NEW q, req' = [req EXCEPT ![r] = q], DOMAIN q = Fields,
           q.op = req[r].op, q.job = req[r].job, q.mode = req[r].mode,
           q.budget = req[r].budget, Calm(q)
    PROVE  Step(r)
<1>1. StoreInv' /\ Evolves(StoredBy(r))
  BY NoWrite
<1>2. Moved(r)
  BY <1>1, MoveOn
<1>3. QED
  BY <1>1, <1>2 DEF Step

-----------------------------------------------------------------------------
(* The statements.                                                         *)

\* Links are taken away, or inserted for an issue and documents that are there.
LEMMA DocLinksKept ==
    ASSUME StoreInv, docLinks' \subseteq {i \in Ids : Exists(i)} \X docs,
           Lasting, withdrawn \subseteq withdrawn',
           UNCHANGED <<project, docs, rules, effective, issues, nextIssue, ruleLinks,
                       analysis, wanted, contended>>, NEW S
    PROVE  StoreInv' /\ Evolves(S)
<1>1. TablesOK'
  BY DEF StoreInv, TablesOK, Exists
<1>2. JobsOK'
  BY DEF StoreInv, JobsOK, analysis
<1>3. RowsOnce'
  BY DEF StoreInv, RowsOnce
<1>4. Evolves(S)
  BY DEF StoreInv, JobsOK, Evolves, Kept, analysis
<1>5. QED
  BY <1>1, <1>2, <1>3, <1>4 DEF StoreInv

LEMMA InsertDocLinksKept ==
    ASSUME StoreInv, NEW i, NEW ds, InsertDocLinks(i, ds),
           UNCHANGED <<project, docs, rules, effective, issues, nextIssue, ruleLinks,
                       analysis, history>>, NEW S
    PROVE  StoreInv' /\ Evolves(S)
<1>1. docLinks \subseteq {n \in Ids : Exists(n)} \X docs
  BY DEF StoreInv, TablesOK
<1>2. docLinks' \subseteq {n \in Ids : Exists(n)} \X docs
  <2>1. CASE Exists(i) /\ ds \subseteq docs
    <3>1. i \in {n \in Ids : Exists(n)}
      BY <2>1 DEF Exists
    <3>2. {i} \X ds \subseteq {n \in Ids : Exists(n)} \X docs
      BY <2>1, <3>1
    <3>3. docLinks' = docLinks \cup ({i} \X ds)
      BY <2>1 DEF InsertDocLinks
    <3>4. QED
      BY <1>1, <3>2, <3>3
  <2>2. CASE ~(Exists(i) /\ ds \subseteq docs)
    BY <1>1, <2>2 DEF InsertDocLinks
  <2>3. QED
    BY <2>1, <2>2
<1>3. Lasting
  BY LinksLast DEF InsertDocLinks
<1>4. QED
  BY <1>2, <1>3, DocLinksKept DEF history

LEMMA UnlinkKept ==
    ASSUME StoreInv, NEW i, docLinks' = {l \in docLinks : l[1] # i}, Withdraw,
           UNCHANGED <<project, docs, rules, effective, issues, nextIssue, ruleLinks,
                       analysis, wanted, contended>>, NEW S
    PROVE  StoreInv' /\ Evolves(S)
<1>1. docLinks \subseteq {n \in Ids : Exists(n)} \X docs
  BY DEF StoreInv, TablesOK
<1>2. docLinks' \subseteq {n \in Ids : Exists(n)} \X docs
  BY <1>1
<1>3. Lasting /\ withdrawn \subseteq withdrawn'
  BY RowsLast
<1>4. QED
  BY <1>2, <1>3, DocLinksKept

\* The rules of a finding are linked; what is contended may grow.
LEMMA InsertRuleLinksKept ==
    ASSUME StoreInv, NEW i, NEW xs, InsertRuleLinks(i, xs), contended \subseteq contended',
           UNCHANGED <<project, docs, rules, effective, issues, nextIssue, docLinks,
                       analysis, wanted, withdrawn>>, NEW S
    PROVE  StoreInv' /\ Evolves(S)
<1>1. ruleLinks \subseteq {n \in Ids : Exists(n)} \X rules
  BY DEF StoreInv, TablesOK
<1>2. ruleLinks' \subseteq {n \in Ids : Exists(n)} \X rules
  <2>1. CASE Exists(i) /\ xs \subseteq rules
    <3>1. i \in {n \in Ids : Exists(n)}
      BY <2>1 DEF Exists
    <3>2. {i} \X xs \subseteq {n \in Ids : Exists(n)} \X rules
      BY <2>1, <3>1
    <3>3. ruleLinks' = ruleLinks \cup ({i} \X xs)
      BY <2>1 DEF InsertRuleLinks
    <3>4. QED
      BY <1>1, <3>2, <3>3
  <2>2. CASE ~(Exists(i) /\ xs \subseteq rules)
    BY <1>1, <2>2 DEF InsertRuleLinks
  <2>3. QED
    BY <2>1, <2>2
<1>3. TablesOK'
  BY <1>2 DEF StoreInv, TablesOK, Exists
<1>4. JobsOK'
  BY DEF StoreInv, JobsOK, analysis
<1>5. RowsOnce'
  BY DEF StoreInv, RowsOnce
<1>6. Lasting
  BY LinksLast DEF InsertRuleLinks
<1>7. Evolves(S)
  BY <1>6 DEF StoreInv, JobsOK, Evolves, Kept, analysis
<1>8. QED
  BY <1>3, <1>4, <1>5, <1>7 DEF StoreInv

\* Rows go with their links, and the rest stays.
LEMMA RowsGo ==
    ASSUME StoreInv, NEW gone,
           issues' = [i \in Ids |-> IF i \in gone THEN NoIssue ELSE issues[i]],
           docs' \subseteq docs, effective' \subseteq rules', rules' \subseteq rules,
           docLinks' \subseteq {l \in docLinks : l[1] \notin gone},
           \A l \in docLinks' : l[2] \in docs',
           ruleLinks' \subseteq {l \in ruleLinks : l[1] \notin gone},
           \A l \in ruleLinks' : l[2] \in rules',
           ~project' => docs' = {} /\ (~project \/ Ids \subseteq gone),
           Withdraw, contended \subseteq contended',
           UNCHANGED <<nextIssue, analysis, wanted>>, NEW S
    PROVE  StoreInv' /\ Evolves(S)
<1>1. /\ issues' \in [Ids -> IssueRow \cup {NoIssue}]
      /\ \A i \in Ids : issues'[i] = IF i \in gone THEN NoIssue ELSE issues[i]
  BY DEF StoreInv, TablesOK
<1>2. \A i \in Ids : issues'[i].job \in Jobs => issues'[i] = issues[i]
  BY <1>1, RowIsNotNoIssue
<1>3. Kept(S) /\ Kept({})
  BY <1>2 DEF Kept
<1>4. RowsOnce'
  BY <1>3, RowsOnceKept DEF StoreInv
<1>5. JobsOK'
  BY DEF StoreInv, JobsOK, analysis
<1>6. Evolves(S)
  <2>1. \A i \in Ids : issues'[i] # NoIssue => issues'[i] = issues[i]
    BY <1>1
  <2>2. Lasting /\ withdrawn \subseteq withdrawn'
    BY <2>1, RowsLast
  <2>3. QED
    BY <1>3, <2>2 DEF StoreInv, JobsOK, Evolves, analysis
<1>7. TablesOK'
  <2>1. \A i \in Ids : Exists(i)' = (issues'[i] # NoIssue)
    BY DEF Exists
  <2>2. docLinks' \subseteq {i \in Ids : Exists(i)'} \X docs'
    <3>1. ASSUME NEW l \in docLinks'
          PROVE  l \in {i \in Ids : Exists(i)'} \X docs'
      <4>1. l \in docLinks /\ l[1] \notin gone /\ l[2] \in docs'
        OBVIOUS
      <4>2. l \in {i \in Ids : Exists(i)} \X docs
        BY <4>1 DEF StoreInv, TablesOK
      <4>3. l = <<l[1], l[2]>> /\ l[1] \in Ids /\ issues[l[1]] # NoIssue
        BY <4>2 DEF Exists
      <4>4. Exists(l[1])'
        BY <1>1, <4>1, <4>3 DEF Exists
      <4>5. QED
        BY <4>1, <4>3, <4>4
    <3>2. QED
      BY <3>1
  <2>3. ruleLinks' \subseteq {i \in Ids : Exists(i)'} \X rules'
    <3>1. ASSUME NEW l \in ruleLinks'
          PROVE  l \in {i \in Ids : Exists(i)'} \X rules'
      <4>1. l \in ruleLinks /\ l[1] \notin gone /\ l[2] \in rules'
        OBVIOUS
      <4>2. l \in {i \in Ids : Exists(i)} \X rules
        BY <4>1 DEF StoreInv, TablesOK
      <4>3. l = <<l[1], l[2]>> /\ l[1] \in Ids /\ issues[l[1]] # NoIssue
        BY <4>2 DEF Exists
      <4>4. Exists(l[1])'
        BY <1>1, <4>1, <4>3 DEF Exists
      <4>5. QED
        BY <4>1, <4>3, <4>4
    <3>2. QED
      BY <3>1
  <2>4. ~project' => docs' = {} /\ \A i \in Ids : ~Exists(i)'
    BY <1>1 DEF StoreInv, TablesOK, Exists
  <2>5. \A i \in Ids : issues'[i].job \in Jobs => issues'[i].origin = "ai"
    BY <1>2 DEF StoreInv, TablesOK
  <2>6. docs' \subseteq Docs /\ rules' \subseteq Rules /\ nextIssue' \in 1..MaxIssue + 1
    BY DEF StoreInv, TablesOK
  <2>7. \A i \in Ids : Exists(i)' => i < nextIssue'
    BY <1>1 DEF StoreInv, TablesOK, Exists
  <2>8. QED
    BY <1>1, <2>2, <2>3, <2>4, <2>5, <2>6, <2>7 DEF TablesOK
<1>8. QED
  BY <1>4, <1>5, <1>6, <1>7 DEF StoreInv

LEMMA DeleteKept ==
    ASSUME StoreInv, NEW gone, DeleteIssues(gone), contended \subseteq contended',
           UNCHANGED <<analysis, wanted>>, NEW S
    PROVE  StoreInv' /\ Evolves(S)
<1>1. /\ docLinks \subseteq {n \in Ids : Exists(n)} \X docs
      /\ ruleLinks \subseteq {n \in Ids : Exists(n)} \X rules
      /\ effective \subseteq rules
      /\ ~project => docs = {}
  BY DEF StoreInv, TablesOK
<1>2. /\ \A l \in docLinks' : l[2] \in docs
      /\ \A l \in ruleLinks' : l[2] \in rules
  BY <1>1 DEF DeleteIssues
<1>3. /\ issues' = [i \in Ids |-> IF i \in gone THEN NoIssue ELSE issues[i]]
      /\ docLinks' = {l \in docLinks : l[1] \notin gone}
      /\ ruleLinks' = {l \in ruleLinks : l[1] \notin gone}
      /\ UNCHANGED <<project, docs, rules, effective, nextIssue>> /\ Withdraw
  BY DEF DeleteIssues
<1>4. QED
  BY <1>1, <1>2, <1>3, RowsGo

\* The row of a finding: no row of its job is as far as it, so it is the first.
LEMMA InsertKept ==
    ASSUME StoreInv, NEW row \in IssueRow, nextIssue <= MaxIssue, project,
           issues' = [issues EXCEPT ![nextIssue] = row], nextIssue' = nextIssue + 1,
           NEW S, row.job \in Jobs => row.origin = "ai" /\ row.job \in S,
           row.job \in Jobs \ contended =>
               \A i \in Ids : issues[i].job = row.job => issues[i].finding < row.finding,
           UNCHANGED <<project, docs, rules, effective, docLinks, ruleLinks, analysis, history>>
    PROVE  StoreInv' /\ Evolves(S)
<1>1. nextIssue \in Ids /\ nextIssue' \in 1..MaxIssue + 1
  BY IssuesAssumption DEF StoreInv, TablesOK, Ids
<1>2. /\ issues' \in [Ids -> IssueRow \cup {NoIssue}]
      /\ \A i \in Ids : issues'[i] = IF i = nextIssue THEN row ELSE issues[i]
  BY <1>1 DEF StoreInv, TablesOK
<1>3. row # NoIssue
  BY RowIsNotNoIssue
<1>4. Kept(S)
  BY <1>2 DEF Kept
<1>5. JobsOK'
  BY DEF StoreInv, JobsOK, analysis, history
<1>6. Evolves(S)
  <2>1. nextIssue \in Int /\ nextIssue' \in Int /\ nextIssue <= nextIssue'
    BY DEF StoreInv, TablesOK
  <2>2. issues[nextIssue] = NoIssue
    BY <1>1, <2>1 DEF StoreInv, TablesOK, Exists
  <2>3. issues[nextIssue].job \notin Jobs
    BY <2>2, RowIsNotNoIssue
  <2>4. \A i \in Ids : i < nextIssue => issues'[i] = issues[i]
    BY <1>2, <2>1
  <2>5. \A i \in Ids : issues[i].job \in Jobs => issues'[i] = issues[i]
    BY <1>2, <2>3
  <2>6. Lasting
    BY <2>1, <2>4, <2>5 DEF Lasting
  <2>7. QED
    BY <1>4, <2>6 DEF StoreInv, JobsOK, Evolves, analysis, history
<1>7. RowsOnce'
  <2> SUFFICES ASSUME NEW a \in Ids, NEW b \in Ids,
                      issues'[a].job \in Jobs \ contended',
                      issues'[b].job = issues'[a].job,
                      issues'[b].finding = issues'[a].finding
               PROVE  a = b
    BY DEF RowsOnce
  <2>1. contended' = contended
    BY DEF history
  <2>2. CASE a # nextIssue /\ b # nextIssue
    BY <1>2, <2>1, <2>2 DEF StoreInv, RowsOnce
  <2>3. ASSUME NEW c \in Ids, c # nextIssue, row.job \in Jobs \ contended,
               issues[c].job = row.job, issues[c].finding = row.finding
        PROVE  FALSE
    <3>1. row.finding \in Int
      BY IssuesAssumption DEF IssueRow
    <3>2. QED
      BY <2>3, <3>1
  <2>4. CASE a = nextIssue /\ b # nextIssue
    BY <1>2, <2>1, <2>3, <2>4
  <2>5. CASE b = nextIssue /\ a # nextIssue
    BY <1>2, <2>1, <2>3, <2>5
  <2>6. QED
    BY <2>2, <2>4, <2>5
<1>8. TablesOK'
  <2>1. \A i \in Ids : Exists(i) => Exists(i)'
    BY <1>2, <1>3 DEF Exists
  <2>2. /\ docLinks \subseteq {n \in Ids : Exists(n)} \X docs
        /\ ruleLinks \subseteq {n \in Ids : Exists(n)} \X rules
    BY DEF StoreInv, TablesOK
  <2>3. /\ docLinks' \subseteq {n \in Ids : Exists(n)'} \X docs'
        /\ ruleLinks' \subseteq {n \in Ids : Exists(n)'} \X rules'
    BY <2>1, <2>2
  <2>4. \A i \in Ids : issues'[i].job \in Jobs => issues'[i].origin = "ai"
    BY <1>2 DEF StoreInv, TablesOK
  <2>5. \A i \in Ids : Exists(i)' => i < nextIssue'
    <3>1. nextIssue \in Int /\ nextIssue' = nextIssue + 1 /\ \A i \in Ids : i \in Int
      BY DEF StoreInv, TablesOK, Ids
    <3>2. \A i \in Ids : Exists(i)' => i < nextIssue \/ i = nextIssue
      BY <1>2 DEF StoreInv, TablesOK, Exists
    <3>3. QED
      BY <3>1, <3>2
  <2>6. QED
    BY <1>1, <1>2, <2>3, <2>4, <2>5 DEF StoreInv, TablesOK
<1>9. QED
  BY <1>5, <1>6, <1>7, <1>8 DEF StoreInv

\* A row is marked as no issue, and stays the row it was.
LEMMA PatchKept ==
    ASSUME StoreInv, NEW n, NEW nonissue \in BOOLEAN,
           issues' = IF Exists(n) THEN [issues EXCEPT ![n].nonissue = nonissue] ELSE issues,
           UNCHANGED <<project, docs, rules, effective, nextIssue, docLinks, ruleLinks,
                       analysis, history>>, NEW S
    PROVE  StoreInv' /\ Evolves(S)
<1>1. CASE ~Exists(n)
  <2>1. UNCHANGED <<tables, analysis, history>>
    BY <1>1 DEF tables
  <2>2. QED
    BY <2>1, NoWrite
<1>2. CASE Exists(n)
  <2> DEFINE row == [issues[n] EXCEPT !.nonissue = nonissue]
  <2>1. n \in Ids /\ issues[n] \in IssueRow
    BY <1>2 DEF StoreInv, TablesOK, Exists
  <2>2. /\ row \in IssueRow /\ row.job = issues[n].job
        /\ row.finding = issues[n].finding /\ row.origin = issues[n].origin
    BY <2>1 DEF IssueRow
  <2>3. issues' = [issues EXCEPT ![n] = row]
    BY <1>2
  <2> HIDE DEF row
  <2>4. /\ issues' \in [Ids -> IssueRow \cup {NoIssue}]
        /\ \A i \in Ids : issues'[i] = IF i = n THEN row ELSE issues[i]
    BY <2>1, <2>2, <2>3 DEF StoreInv, TablesOK
  <2>5. row # NoIssue
    BY <2>2, RowIsNotNoIssue
  <2>6. \A i \in Ids : /\ issues'[i].job = issues[i].job
                       /\ issues'[i].finding = issues[i].finding
                       /\ issues'[i].origin = issues[i].origin
    BY <2>2, <2>4
  <2>7. Kept(S)
    BY <2>6 DEF Kept
  <2>8. JobsOK'
    BY DEF StoreInv, JobsOK, analysis, history
  <2>9. Evolves(S)
    <3>1. nextIssue \in Int
      BY DEF StoreInv, TablesOK
    <3>2. \A i \in Ids : issues'[i] # NoIssue => issues[i] # NoIssue
      BY <1>2, <2>4 DEF Exists
    <3>3. Lasting
      BY <2>6, <3>1, <3>2 DEF Lasting
    <3>4. QED
      BY <2>7, <3>3 DEF StoreInv, JobsOK, Evolves, analysis, history
  <2>10. RowsOnce'
    BY <2>6 DEF StoreInv, RowsOnce, history
  <2>11. TablesOK'
    <3>1. \A i \in Ids : Exists(i) = Exists(i)'
      BY <1>2, <2>4, <2>5 DEF Exists
    <3>2. /\ docLinks' \subseteq {i \in Ids : Exists(i)'} \X docs'
          /\ ruleLinks' \subseteq {i \in Ids : Exists(i)'} \X rules'
          /\ ~project' => docs' = {} /\ \A i \in Ids : ~Exists(i)'
      BY <3>1 DEF StoreInv, TablesOK
    <3>3. \A i \in Ids : issues'[i].job \in Jobs => issues'[i].origin = "ai"
      BY <2>6 DEF StoreInv, TablesOK
    <3>4. \A i \in Ids : Exists(i)' => i < nextIssue'
      BY <3>1 DEF StoreInv, TablesOK
    <3>5. QED
      BY <2>4, <3>2, <3>3, <3>4 DEF StoreInv, TablesOK
  <2>12. QED
    BY <2>8, <2>9, <2>10, <2>11 DEF StoreInv
<1>3. QED
  BY <1>1, <1>2

-----------------------------------------------------------------------------
(* An analysis is asked for.                                               *)

LEMMA AccessStep ==
    ASSUME StoreInv, RequestsOK, NEW r \in Requests, NEW status,
           NEW then \in {"docs", "job"}, assertProjectAccess(r, status, then)
    PROVE  Step(r)
BY ReadStep DEF assertProjectAccess

LEMMA SelectDocsStep ==
    ASSUME StoreInv, RequestsOK, NEW r \in Requests, SelectDocs(r, "rules")
    PROVE  Step(r)
<1> DEFINE found == IF req[r].only = {} THEN docs ELSE docs \cap req[r].only
           q == [req[r] EXCEPT !.pc = "rules", !.docs = found]
<1>1. UNCHANGED <<tables, analysis, history>>
  BY DEF SelectDocs
<1>2. CASE Answer(r, 400, {})
  BY <1>1, <1>2, ReadStep
<1>3. CASE req' = [req EXCEPT ![r].pc = "rules", ![r].docs = found]
  <2> HIDE DEF found
  <2>1. DOMAIN req[r] = Fields
    BY DEF RequestsOK, Good
  <2>2. /\ DOMAIN q = Fields /\ q.op = req[r].op /\ q.job = req[r].job
        /\ q.mode = req[r].mode /\ q.budget = req[r].budget /\ q.pc = "rules"
    BY <2>1 DEF Fields
  <2>3. req' = [req EXCEPT ![r] = q]
    BY <1>3
  <2> HIDE DEF q
  <2>4. Calm(q)
    BY <2>2 DEF Calm
  <2>5. QED
    BY <1>1, <2>2, <2>3, <2>4, ReadInto
<1>4. QED
  BY <1>2, <1>3 DEF SelectDocs

LEMMA SelectRulesStep ==
    ASSUME StoreInv, RequestsOK, NEW r \in Requests, NEW then \in {"prepare", "clear"},
           SelectRules(r, then)
    PROVE  Step(r)
<1> DEFINE q == [req[r] EXCEPT !.pc = then, !.rules = effective]
<1>1. UNCHANGED <<tables, analysis, history>>
  BY DEF SelectRules
<1>2. CASE Answer(r, 400, {})
  BY <1>1, <1>2, ReadStep
<1>3. CASE req' = [req EXCEPT ![r].pc = then, ![r].rules = effective]
  <2>1. DOMAIN req[r] = Fields
    BY DEF RequestsOK, Good
  <2>2. /\ DOMAIN q = Fields /\ q.op = req[r].op /\ q.job = req[r].job
        /\ q.mode = req[r].mode /\ q.budget = req[r].budget /\ q.pc = then
    BY <2>1 DEF Fields
  <2>3. req' = [req EXCEPT ![r] = q]
    BY <1>3
  <2> HIDE DEF q
  <2>4. Calm(q)
    BY <2>2 DEF Calm
  <2>5. QED
    BY <1>1, <2>2, <2>3, <2>4, ReadInto
<1>4. QED
  BY <1>2, <1>3 DEF SelectRules

\* The budget of what is prepared fits, and the provider is one there is.
LEMMA PrepareStep ==
    ASSUME StoreInv, RequestsOK, NEW r \in Requests, PrepareRequest(r)
    PROVE  Step(r)
<1>1. UNCHANGED <<tables, analysis, history>> /\ req[r].op = "Analyze"
  BY DEF PrepareRequest, At
<1>2. StoreInv' /\ Evolves(StoredBy(r))
  BY <1>1, NoWrite
<1>3. CASE Answer(r, 400, {})
  BY <1>1, <1>3, ReadStep
<1>4. ASSUME NEW window \in Windows, NEW input \in Inputs, NEW output \in Outputs,
             NEW asked \in Asked, NEW effort \in Efforts, NEW p \in Backends,
             ~TooLarge(window, input),
             req' = [req EXCEPT ![r].pc = "enqueue", ![r].provider = p[1], ![r].host = p[2],
                  ![r].docs = {}, ![r].rules = {},
                  ![r].budget = [input |-> input, window |-> window,
                                 max |-> finalMaxTokens(asked, output, effort, window, input)]]
      PROVE  Step(r)
  <2> DEFINE max == finalMaxTokens(asked, output, effort, window, input)
             b == [input |-> input, window |-> window, max |-> max]
             q == [req[r] EXCEPT !.pc = "enqueue", !.provider = p[1], !.host = p[2],
                                 !.docs = {}, !.rules = {}, !.budget = b]
  <2>1. /\ window \in Nat /\ input \in Nat /\ output \in Nat /\ asked \in Nat
        /\ effort \in Nat /\ p[1] \in Providers /\ p[2] \in Hosts
    BY IssuesAssumption DEF Efforts
  <2>2. window > 0 => /\ input + max <= window
                      /\ window > contextSlack => input + max + contextSlack <= window
    BY <1>4, <2>1, FinalBudgetFits
  <2> HIDE DEF max
  <2>3. b.window = window /\ b.input = input /\ b.max = max
    OBVIOUS
  <2> HIDE DEF b
  <2>4. Fits(b)
    BY <2>2, <2>3 DEF Fits
  <2>5. DOMAIN req[r] = Fields
    BY DEF RequestsOK, Good
  <2>6. /\ DOMAIN q = Fields /\ q.op = "Analyze" /\ q.pc = "enqueue"
        /\ q.provider = p[1] /\ q.host = p[2] /\ q.budget = b
    BY <1>1, <2>5 DEF Fields
  <2>7. req' = [req EXCEPT ![r] = q]
    BY <1>4 DEF b, max
  <2> HIDE DEF q
  <2>8. req'[r] = q /\ DOMAIN req' = Requests /\ \A s \in Requests : s # r => req'[s] = req[s]
    BY <2>7 DEF RequestsOK
  <2>9. Base(q, jobs', nextJob') /\ ~Stores(q) /\ ~Marking(q)
    BY <2>1, <2>6 DEF Base, Stores, Marking
  <2>10. Ahead(q, issues', contended')
    BY <2>9 DEF Ahead
  <2>11. QED
    BY <1>2, <2>4, <2>6, <2>8, <2>9, <2>10 DEF Step, Moved, Good
<1>5. PICK window \in Windows, input \in Inputs, output \in Outputs,
           asked \in Asked, effort \in Efforts, p \in Backends :
          \/ /\ ~TooLarge(window, input)
             /\ req' = [req EXCEPT ![r].pc = "enqueue", ![r].provider = p[1], ![r].host = p[2],
                  ![r].docs = {}, ![r].rules = {},
                  ![r].budget = [input |-> input, window |-> window,
                                 max |-> finalMaxTokens(asked, output, effort, window, input)]]
          \/ Answer(r, 400, {})
  BY Zenon DEF PrepareRequest
<1>6. QED
  BY <1>3, <1>4, <1>5

\* A job that has its number is one the runner has.
LEMMA JobTaken ==
    ASSUME StoreInv, NEW p \in Providers, NEW h \in Hosts, nextJob <= MaxJob,
           jobs' = [jobs EXCEPT ![nextJob] = [status |-> "queued", provider |-> p, host |-> h]],
           nextJob' = nextJob + 1, UNCHANGED <<tables, provided, consumed, history>>, NEW S
    PROVE  /\ StoreInv' /\ Evolves(S)
           /\ nextJob \in 1..nextJob' - 1
<1> DEFINE job == [status |-> "queued", provider |-> p, host |-> h]
<1>1. job \in HttpJob
  BY DEF HttpJob
<1>2. jobs' = [jobs EXCEPT ![nextJob] = job]
  OBVIOUS
<1> HIDE DEF job
<1>3. /\ nextJob \in Jobs /\ nextJob \in Int /\ nextJob' \in 1..MaxJob + 1
      /\ nextJob \in 1..nextJob' - 1
      /\ \A j \in 1..nextJob' - 1 : j = nextJob \/ j \in 1..nextJob - 1
      /\ \A j \in 1..nextJob' - 1 : j \in Jobs
      /\ \A j \in 1..nextJob - 1 : j \in Jobs /\ j # nextJob
  BY IssuesAssumption DEF StoreInv, JobsOK, Jobs
<1>4. /\ jobs' \in [Jobs -> HttpJob \cup {NoJob}]
      /\ \A j \in Jobs : jobs'[j] = IF j = nextJob THEN job ELSE jobs[j]
  BY <1>1, <1>2, <1>3 DEF StoreInv, JobsOK
<1>5. \A j \in 1..nextJob' - 1 : jobs'[j] \in HttpJob
  BY <1>1, <1>3, <1>4 DEF StoreInv, JobsOK
<1>6. JobsOK'
  BY <1>3, <1>4, <1>5 DEF StoreInv, JobsOK, history
<1>7. TablesOK' /\ RowsOnce'
  BY DEF StoreInv, TablesOK, RowsOnce, Exists, tables, history
<1>8. nextJob' \in Int /\ nextJob <= nextJob'
  BY <1>3
<1>9. Kept(S)
  BY DEF Kept, tables
<1>10. Lasting
  BY LinksLast DEF tables
<1>11. Evolves(S)
  BY <1>3, <1>4, <1>8, <1>9, <1>10 DEF Evolves, history
<1>12. QED
  BY <1>3, <1>6, <1>7, <1>11 DEF StoreInv

LEMMA EnqueueStep ==
    ASSUME StoreInv, RequestsOK, NEW r \in Requests, EnqueueHttpJob(r)
    PROVE  Step(r)
<1> DEFINE q == [req[r] EXCEPT !.pc = "provider", !.job = nextJob, !.budget = NoBudget,
                               !.provider = "none", !.host = "none"]
<1>1. req[r].op = "Analyze" /\ req[r].pc = "enqueue"
  BY DEF EnqueueHttpJob, At
<1>2. DOMAIN req[r] = Fields /\ req[r].provider \in Providers /\ req[r].host \in Hosts
  BY <1>1 DEF RequestsOK, Good, Base
<1>3. /\ StoreInv' /\ Evolves(StoredBy(r))
      /\ nextJob \in 1..nextJob' - 1
  BY <1>2, JobTaken DEF EnqueueHttpJob
<1>4. /\ DOMAIN q = Fields /\ q.op = "Analyze" /\ q.pc = "provider"
      /\ q.job = nextJob /\ q.budget = NoBudget
  BY <1>1, <1>2 DEF Fields
<1>5. req' = [req EXCEPT ![r] = q]
  BY DEF EnqueueHttpJob
<1> HIDE DEF q
<1>6. req'[r] = q /\ DOMAIN req' = Requests /\ \A s \in Requests : s # r => req'[s] = req[s]
  BY <1>5 DEF RequestsOK
<1>7. Base(q, jobs', nextJob') /\ ~Stores(q) /\ ~Marking(q)
  BY <1>3, <1>4 DEF Base, Stores, Marking
<1>8. Ahead(q, issues', contended') /\ Fits(q.budget)
  BY <1>4, <1>7, NoBudgetFits DEF Ahead
<1>9. QED
  BY <1>3, <1>4, <1>6, <1>7, <1>8 DEF Step, Moved, Good

\* A marker is written for a job there is.
LEMMA MarkerKept ==
    ASSUME StoreInv, NEW P, NEW C, P \subseteq 1..nextJob - 1, C \subseteq 1..nextJob - 1,
           provided' = provided \cup P, consumed' = consumed \cup C,
           DOMAIN wanted' = Jobs, \A j \in Jobs \ consumed' : wanted'[j] = {},
           UNCHANGED <<tables, jobs, nextJob, withdrawn, contended>>, NEW S
    PROVE  StoreInv' /\ Evolves(S)
<1>1. 1..nextJob - 1 \subseteq Jobs
  BY IssuesAssumption DEF StoreInv, JobsOK, Jobs
<1>2. provided' \cup consumed' \subseteq Jobs
  BY <1>1 DEF StoreInv, JobsOK
<1>3. JobsOK'
  BY <1>2 DEF StoreInv, JobsOK
<1>4. TablesOK' /\ RowsOnce'
  BY DEF StoreInv, TablesOK, RowsOnce, Exists, tables
<1>5. Lasting
  BY LinksLast DEF tables
<1>6. Evolves(S)
  BY <1>5 DEF StoreInv, JobsOK, Evolves, Kept, tables
<1>7. QED
  BY <1>3, <1>4, <1>6 DEF StoreInv

LEMMA AnalyzeStep ==
    ASSUME StoreInv, RequestsOK, NEW r \in Requests, AnalyzeIssues(r)
    PROVE  Step(r)
<1>1. CASE assertProjectAccess(r, 500, "docs")
  BY <1>1, AccessStep
<1>2. CASE SelectDocs(r, "rules")
  BY <1>2, SelectDocsStep
<1>3. CASE SelectRules(r, "prepare")
  BY <1>3, SelectRulesStep
<1>4. CASE PrepareRequest(r)
  BY <1>4, PrepareStep
<1>5. CASE EnqueueHttpJob(r)
  BY <1>5, EnqueueStep
<1>6. CASE PutProvider(r)
  <2>1. req[r].job \in 1..nextJob - 1
    BY <1>6 DEF PutProvider, At, RequestsOK, Good, Base
  <2> DEFINE P == {req[r].job}
  <2>2. /\ P \subseteq 1..nextJob - 1 /\ provided' = provided \cup P
        /\ consumed' = consumed \cup {} /\ consumed' = consumed
        /\ UNCHANGED <<tables, jobs, nextJob, wanted, withdrawn, contended>>
    BY <1>6, <2>1 DEF PutProvider, history
  <2> HIDE DEF P
  <2>3. DOMAIN wanted' = Jobs /\ \A j \in Jobs \ consumed' : wanted'[j] = {}
    BY <2>2 DEF StoreInv, JobsOK
  <2>4. StoreInv' /\ Evolves(StoredBy(r))
    BY <2>2, <2>3, MarkerKept
  <2>5. Moved(r)
    BY <1>6, AnswerMoved DEF PutProvider
  <2>6. QED
    BY <2>4, <2>5 DEF Step
<1>7. QED
  BY <1>1, <1>2, <1>3, <1>4, <1>5, <1>6 DEF AnalyzeIssues

LEMMA JobStatusStep ==
    ASSUME StoreInv, RequestsOK, NEW r \in Requests, JobStatus(r)
    PROVE  Step(r)
<1>1. CASE assertProjectAccess(r, 403, "job")
  BY <1>1, AccessStep
<1>2. CASE /\ IF jobs[req[r].job] = NoJob THEN Answer(r, 404, {}) ELSE Goto(r, "status")
           /\ UNCHANGED <<tables, analysis, history>>
  BY <1>2, ReadStep
<1>3. CASE Answer(r, 200, {}) /\ UNCHANGED <<tables, analysis, history>>
  BY <1>3, ReadStep
<1>4. QED
  BY <1>1, <1>2, <1>3 DEF JobStatus

-----------------------------------------------------------------------------
(* The findings are stored in order.                                       *)

\* A set of naturals that has a member has a least one.
LEMMA Least ==
    ASSUME NEW T \in SUBSET Nat, T # {}
    PROVE  \E n \in T : \A o \in T : n <= o
<1> DEFINE R == {ss \in Nat \X Nat : ss[1] < ss[2]}
<1>1. IsWellFoundedOn(R, Nat)
  BY NatLessThanWellFounded DEF OpToRel
<1> HIDE DEF R
<1>2. PICK n \in T : \A o \in T : ~(<<o, n>> \in R)
  BY <1>1, WFMin
<1>3. \A o \in T : ~(o < n)
  BY <1>2 DEF R
<1>4. QED
  BY <1>3

\* The finding after k comes after k, and no valid one is between them.
LEMMA NextIsLater ==
    ASSUME NEW rq, NEW k \in Nat, NextFinding(rq, k) # 0
    PROVE  /\ NextFinding(rq, k) \in Nat /\ NextFinding(rq, k) > k
           /\ NextFinding(rq, k) \in 1..Len(Findings)
           /\ ValidFinding(rq, NextFinding(rq, k))
           /\ \A m \in k + 1..Len(Findings) :
                  ValidFinding(rq, m) => NextFinding(rq, k) <= m
<1> DEFINE T == {n \in k + 1..Len(Findings) : ValidFinding(rq, n)}
<1>1. Len(Findings) \in Nat
  BY IssuesAssumption
<1>2. T \in SUBSET Nat /\ \A n \in T : n > k /\ n \in 1..Len(Findings)
  BY <1>1
<1>3. T # {} /\ NextFinding(rq, k) = CHOOSE n \in T : \A o \in T : n <= o
  BY DEF NextFinding
<1> HIDE DEF T
<1>4. \E n \in T : \A o \in T : n <= o
  BY <1>2, <1>3, Least
<1>5. NextFinding(rq, k) \in T /\ \A o \in T : NextFinding(rq, k) <= o
  BY <1>3, <1>4
<1>6. ValidFinding(rq, NextFinding(rq, k))
  BY <1>5 DEF T
<1>7. \A m \in k + 1..Len(Findings) : ValidFinding(rq, m) => NextFinding(rq, k) <= m
  BY <1>5 DEF T
<1>8. QED
  BY <1>2, <1>5, <1>6, <1>7

\* Without a next finding no valid one is left.
LEMMA NoneIsLast ==
    ASSUME NEW rq, NEW k \in Nat, NextFinding(rq, k) = 0,
           NEW m \in k + 1..Len(Findings)
    PROVE  ~ValidFinding(rq, m)
<1> DEFINE T == {n \in k + 1..Len(Findings) : ValidFinding(rq, n)}
<1>1. T \in SUBSET Nat /\ \A n \in T : n # 0
  BY IssuesAssumption
<1>2. T # {} => NextFinding(rq, k) = CHOOSE n \in T : \A o \in T : n <= o
  BY DEF NextFinding
<1> HIDE DEF T
<1>3. T # {} => NextFinding(rq, k) \in T
  BY <1>1, <1>2, Least
<1>4. T = {}
  BY <1>1, <1>3
<1>5. QED
  BY <1>4 DEF T

LEMMA AdvanceGrows ==
    ASSUME NEW r, NEW k, Advance(r, k)
    PROVE  contended \subseteq contended' /\ UNCHANGED wanted
<1> DEFINE n == NextFinding(req[r], k)
           A == n # 0 /\ \/ req[r].mode = "incremental"
                         \/ \E s \in Requests \ {r} :
                               Storing(s) /\ req[s].job = req[r].job
<1>1. /\ wanted' = wanted
      /\ contended' = IF A THEN contended \cup {req[r].job} ELSE contended
  BY DEF Advance
<1> HIDE DEF n, A
<1>2. QED
  BY <1>1

\* To the next finding: the rows of the job are at most as far as k, unless the
\* job is contended or the mode makes it so.
LEMMA AdvanceMoved ==
    ASSUME StoreInv, RequestsOK, NEW r \in Requests, req[r].op = "Consume",
           Marking(req[r]) \/ At(r, "Consume", "clear"),
           NEW k \in Nat, Advance(r, k), Evolves(StoredBy(r)),
           (req[r].job \notin contended /\ req[r].mode # "incremental") =>
               \A i \in Ids : issues'[i].job = req[r].job => issues'[i].finding <= k,
           issues' \in [Ids -> IssueRow \cup {NoIssue}]
    PROVE  Moved(r)
<1> DEFINE n == NextFinding(req[r], k)
           skipped == \E o \in 1..Len(Findings) : ~ValidFinding(req[r], o)
           l == IF n # 0 THEN "insert" ELSE IF skipped THEN "skipped" ELSE "mark"
           q == [req[r] EXCEPT !.k = n, !.new = 0, !.pc = l]
           others == \E s \in Requests \ {r} : Stores(req[s]) /\ req[s].job = req[r].job
<1>1. Good(req[r], issues, jobs, nextJob, contended)
  BY DEF RequestsOK
<1>2. DOMAIN req[r] = Fields /\ Fits(req[r].budget) /\ Base(req[r], jobs', nextJob')
  BY <1>1, BaseStays DEF Good
<1>3. req' = [req EXCEPT ![r] = q]
  BY DEF Advance
<1>4. contended' = IF n # 0 /\ (req[r].mode = "incremental" \/ others)
                   THEN contended \cup {req[r].job} ELSE contended
  BY DEF Advance, Storing, Stores
<1>5. n # 0 => n \in Nat /\ n > k /\ n \in 1..Len(Findings)
  BY NextIsLater
<1> HIDE DEF n, skipped
<1>6. /\ l \in {"insert", "skipped", "mark"}
      /\ l = "insert" => n # 0
      /\ l # "insert" => n = 0
  OBVIOUS
<1> HIDE DEF l
<1>7. /\ DOMAIN q = Fields /\ q.op = "Consume" /\ q.job = req[r].job /\ q.mode = req[r].mode
      /\ q.budget = req[r].budget /\ q.pc = l /\ q.k = n
  BY <1>2 DEF Fields
<1> HIDE DEF q, others
<1>8. req'[r] = q /\ DOMAIN req' = Requests /\ \A s \in Requests : s # r => req'[s] = req[s]
  BY <1>3 DEF RequestsOK
<1>9. Base(q, jobs', nextJob')
  <2>1. Stores(q) => q.k \in 1..Len(Findings)
    BY <1>5, <1>6, <1>7 DEF Stores
  <2>2. QED
    BY <1>2, <1>6, <1>7, <2>1 DEF Base
<1>10. Ahead(q, issues', contended')
  <2> SUFFICES ASSUME Stores(q), q.job \notin contended', NEW i \in Ids,
                      issues'[i].job = q.job
               PROVE  issues'[i].finding <= q.k /\ (q.pc = "insert" => issues'[i].finding < q.k)
    BY DEF Ahead
  <2>1. l = "insert" /\ n # 0 /\ n \in Nat /\ n > k
    BY <1>5, <1>6, <1>7 DEF Stores
  <2>2. req[r].job \notin contended /\ req[r].mode # "incremental"
    BY <1>4, <1>7, <2>1
  <2>3. issues'[i].finding <= k
    BY <1>7, <2>2
  <2>4. issues'[i].finding \in Int
    <3>1. issues'[i] \in IssueRow \cup {NoIssue}
      OBVIOUS
    <3>2. \A row \in IssueRow : row.finding \in Int
      BY DEF IssueRow
    <3>3. NoIssue.finding \in Int
      BY DEF NoIssue
    <3>4. QED
      BY <3>1, <3>2, <3>3
  <2>5. QED
    BY <1>7, <2>1, <2>3, <2>4
<1>11. Stores(q) =>
          \/ q.job \in contended'
          \/ \A s \in Requests \ {r} : ~(Stores(req[s]) /\ req[s].job = q.job)
  <2>1. Stores(q) => n # 0
    BY <1>6, <1>7 DEF Stores
  <2>2. QED
    BY <1>4, <1>7, <2>1 DEF others
<1>12. QED
  BY <1>2, <1>7, <1>8, <1>9, <1>10, <1>11 DEF Moved, Good

\* What is on the way is deleted first: in the modes that replace, no row of the
\* job is left.
LEMMA ClearStep ==
    ASSUME StoreInv, RequestsOK, NEW r \in Requests, ClearIssues(r)
    PROVE  Step(r)
<1>1. /\ At(r, "Consume", "clear") /\ req[r].op = "Consume"
      /\ UNCHANGED analysis /\ ClearRows(r) /\ Advance(r, 0)
  BY DEF ClearIssues, At
<1>2. contended \subseteq contended' /\ UNCHANGED wanted
  BY <1>1, AdvanceGrows
<1>3. req[r].mode \in Modes /\ req[r].job \in Jobs
  <2>1. req[r].mode \in Modes /\ req[r].job \in 1..nextJob - 1
    BY <1>1 DEF RequestsOK, Good, Base
  <2>2. 1..nextJob - 1 \subseteq Jobs
    BY IssuesAssumption DEF StoreInv, JobsOK, Jobs
  <2>3. QED
    BY <2>1, <2>2
<1>4. ASSUME NEW gone, DeleteIssues(gone),
             \A i \in Ids : issues[i].job = req[r].job => i \in gone
      PROVE  Step(r)
  <2>1. StoreInv' /\ Evolves(StoredBy(r))
    BY <1>1, <1>2, <1>4, DeleteKept
  <2>2. issues' \in [Ids -> IssueRow \cup {NoIssue}]
    BY <2>1 DEF StoreInv, TablesOK
  <2>3. \A i \in Ids : issues'[i] = IF i \in gone THEN NoIssue ELSE issues[i]
    BY <1>4 DEF DeleteIssues
  <2>4. \A i \in Ids : issues'[i].job # req[r].job
    BY <1>3, <1>4, <2>3, RowIsNotNoIssue
  <2>5. Moved(r)
    BY <1>1, <2>1, <2>2, <2>4, AdvanceMoved
  <2>6. QED
    BY <2>1, <2>5 DEF Step
<1>5. CASE req[r].mode = "replace_all"
  <2>1. DeleteIssues(Ids)
    BY <1>1, <1>5 DEF ClearRows
  <2>2. QED
    BY <1>4, <2>1
<1>6. CASE req[r].mode = "replace_ai"
  <2> DEFINE gone == {i \in Ids : issues[i].origin = "ai"}
  <2>1. DeleteIssues(gone)
    BY <1>1, <1>6 DEF ClearRows
  <2>2. \A i \in Ids : issues[i].job = req[r].job => i \in gone
    BY <1>3 DEF StoreInv, TablesOK
  <2> HIDE DEF gone
  <2>3. QED
    BY <1>4, <2>1, <2>2
<1>7. CASE req[r].mode = "incremental"
  <2>1. UNCHANGED <<tables, withdrawn>>
    BY <1>1, <1>7 DEF ClearRows
  <2>2. TablesOK'
    BY <2>1 DEF StoreInv, TablesOK, Exists, tables
  <2>3. JobsOK'
    BY <1>1, <1>2 DEF StoreInv, JobsOK, analysis
  <2>4. RowsOnce'
    BY <1>2, <2>1 DEF StoreInv, RowsOnce, tables
  <2>5. Lasting
    BY <2>1, LinksLast DEF tables
  <2>6. Evolves(StoredBy(r))
    BY <1>1, <1>2, <2>1, <2>5 DEF StoreInv, JobsOK, Evolves, Kept, tables, analysis
  <2>7. Moved(r)
    BY <1>1, <1>7, <2>2, <2>6, AdvanceMoved DEF TablesOK
  <2>8. QED
    BY <2>2, <2>3, <2>4, <2>6, <2>7 DEF Step, StoreInv
<1>8. QED
  BY <1>3, <1>5, <1>6, <1>7 DEF Modes

\* r goes on storing the finding it is at: its rows are at most as far as it.
LEMMA StoringMoved ==
    ASSUME StoreInv, RequestsOK, NEW r \in Requests, Stores(req[r]), Evolves(StoredBy(r)),
           NEW q, req' = [req EXCEPT ![r] = q], DOMAIN q = Fields,
           q.op = "Consume", q.pc \in {"linkDocs", "linkRules"}, q.job = req[r].job,
           q.mode = req[r].mode, q.budget = req[r].budget, q.k = req[r].k,
           req[r].job \notin contended =>
               \A i \in Ids : issues'[i].job = req[r].job => issues'[i].finding <= req[r].k
    PROVE  Moved(r)
<1>1. req'[r] = q /\ DOMAIN req' = Requests /\ \A s \in Requests : s # r => req'[s] = req[s]
  BY DEF RequestsOK
<1>2. Good(req[r], issues, jobs, nextJob, contended)
  BY DEF RequestsOK
<1>3. Base(req[r], jobs', nextJob') /\ Fits(q.budget)
  BY <1>2, BaseStays DEF Good
<1>4. Base(q, jobs', nextJob')
  BY <1>3 DEF Base, Stores
<1>5. Ahead(q, issues', contended')
  BY DEF Ahead, Evolves
<1>6. Marking(req[r])
  BY DEF Stores, Marking
<1>7. QED
  BY <1>1, <1>3, <1>4, <1>5, <1>6 DEF Moved, Good

LEMMA InsertFindingStep ==
    ASSUME StoreInv, RequestsOK, NEW r \in Requests, At(r, "Consume", "insert"),
           InsertIssue(r, [origin |-> "ai", job |-> req[r].job, finding |-> req[r].k,
                           nonissue |-> FALSE], "linkDocs"),
           UNCHANGED <<analysis, history>>
    PROVE  Step(r)
<1> DEFINE row == [origin |-> "ai", job |-> req[r].job, finding |-> req[r].k,
                   nonissue |-> FALSE]
           q == [req[r] EXCEPT !.pc = "linkDocs", !.new = nextIssue]
<1>1. Stores(req[r]) /\ req[r].op = "Consume" /\ req[r].pc = "insert"
  BY DEF At, Stores
<1>2. Good(req[r], issues, jobs, nextJob, contended)
  BY DEF RequestsOK
<1>3. req[r].job \in 1..nextJob - 1 /\ req[r].k \in 1..Len(Findings)
  BY <1>1, <1>2 DEF Good, Base
<1>4. req[r].job \in Jobs
  BY <1>3, IssuesAssumption DEF StoreInv, JobsOK, Jobs
<1>5. req[r].k \in 0..Len(Findings) /\ req[r].k \in Int
  BY <1>3, IssuesAssumption
<1>6. /\ row \in IssueRow /\ row.job = req[r].job /\ row.finding = req[r].k
      /\ row.origin = "ai"
  BY <1>4, <1>5 DEF IssueRow
<1>7. InsertIssue(r, row, "linkDocs")
  OBVIOUS
<1> HIDE DEF row
<1>8. /\ nextIssue <= MaxIssue
      /\ UNCHANGED <<project, docs, rules, effective, docLinks, ruleLinks>>
      /\ project => /\ issues' = [issues EXCEPT ![nextIssue] = row]
                    /\ nextIssue' = nextIssue + 1
                    /\ req' = [req EXCEPT ![r] = q]
      /\ ~project => Answer(r, 500, {}) /\ UNCHANGED <<issues, nextIssue>>
  BY <1>7 DEF InsertIssue
<1>9. CASE ~project
  <2>1. UNCHANGED <<tables, analysis, history>> /\ Answer(r, 500, {})
    BY <1>8, <1>9 DEF tables
  <2>2. QED
    BY <2>1, ReadStep
<1>10. CASE project
  <2>1. row.job \in StoredBy(r)
    BY <1>1, <1>4, <1>6 DEF StoredBy
  <2>2. req[r].job \notin contended =>
            \A i \in Ids : issues[i].job = req[r].job => issues[i].finding < req[r].k
    BY <1>1, <1>2 DEF Good, Ahead
  <2>3. StoreInv' /\ Evolves(StoredBy(r))
    BY <1>6, <1>8, <1>10, <2>1, <2>2, InsertKept
  <2>4. \A i \in Ids : issues'[i] = issues[i] \/ issues'[i] = row
    BY <1>8, <1>10 DEF StoreInv, TablesOK
  <2>5. \A i \in Ids : issues[i].finding \in Int
    <3>1. \A x \in IssueRow : x.finding \in Int
      BY DEF IssueRow
    <3>2. NoIssue.finding \in Int
      BY DEF NoIssue
    <3>3. QED
      BY <3>1, <3>2 DEF StoreInv, TablesOK
  <2>6. req[r].job \notin contended =>
            \A i \in Ids : issues'[i].job = req[r].job => issues'[i].finding <= req[r].k
    BY <1>5, <1>6, <2>2, <2>4, <2>5
  <2>7. DOMAIN req[r] = Fields
    BY <1>2 DEF Good
  <2>8. /\ DOMAIN q = Fields /\ q.op = "Consume" /\ q.pc = "linkDocs" /\ q.job = req[r].job
        /\ q.mode = req[r].mode /\ q.budget = req[r].budget /\ q.k = req[r].k
    BY <1>1, <2>7 DEF Fields
  <2>9. req' = [req EXCEPT ![r] = q]
    BY <1>8, <1>10
  <2> HIDE DEF q
  <2>10. Moved(r)
    BY <1>1, <2>3, <2>6, <2>8, <2>9, StoringMoved
  <2>11. QED
    BY <2>3, <2>10 DEF Step
<1>11. QED
  BY <1>9, <1>10

LEMMA StoreFindingStep ==
    ASSUME StoreInv, RequestsOK, NEW r \in Requests, StoreFinding(r)
    PROVE  Step(r)
<1>1. UNCHANGED analysis
  BY DEF StoreFinding
<1>2. CASE /\ At(r, "Consume", "insert")
           /\ InsertIssue(r, [origin |-> "ai", job |-> req[r].job, finding |-> req[r].k,
                              nonissue |-> FALSE], "linkDocs")
           /\ UNCHANGED history
  BY <1>1, <1>2, InsertFindingStep
<1>3. ASSUME NEW ds, At(r, "Consume", "linkDocs"), InsertDocLinks(req[r].new, ds),
             IF Exists(req[r].new) /\ ds \subseteq docs
             THEN Goto(r, "linkRules") ELSE Answer(r, 500, {}),
             UNCHANGED <<project, docs, rules, effective, issues, nextIssue, ruleLinks, history>>
      PROVE  Step(r)
  <2>1. StoreInv' /\ Evolves(StoredBy(r))
    BY <1>1, <1>3, InsertDocLinksKept
  <2>2. CASE Answer(r, 500, {})
    BY <2>1, <2>2, AnswerMoved DEF Step
  <2>3. CASE Goto(r, "linkRules")
    <3> DEFINE q == [req[r] EXCEPT !.pc = "linkRules"]
    <3>1. Stores(req[r]) /\ req[r].op = "Consume"
      BY <1>3 DEF At, Stores
    <3>2. DOMAIN req[r] = Fields /\ Ahead(req[r], issues, contended)
      BY DEF RequestsOK, Good
    <3>3. /\ DOMAIN q = Fields /\ q.op = "Consume" /\ q.pc = "linkRules" /\ q.job = req[r].job
          /\ q.mode = req[r].mode /\ q.budget = req[r].budget /\ q.k = req[r].k
      BY <3>1, <3>2 DEF Fields
    <3>4. req' = [req EXCEPT ![r] = q]
      BY <2>3 DEF Goto
    <3> HIDE DEF q
    <3>5. req[r].job \notin contended =>
              \A i \in Ids : issues'[i].job = req[r].job => issues'[i].finding <= req[r].k
      BY <1>3, <3>1, <3>2 DEF Ahead
    <3>6. Moved(r)
      BY <2>1, <3>1, <3>3, <3>4, <3>5, StoringMoved
    <3>7. QED
      BY <2>1, <3>6 DEF Step
  <2>4. QED
    BY <1>3, <2>2, <2>3
<1>4. ASSUME NEW xs, At(r, "Consume", "linkRules"), InsertRuleLinks(req[r].new, xs),
             IF Exists(req[r].new) /\ xs \subseteq rules
             THEN Advance(r, req[r].k)
             ELSE Answer(r, 500, {}) /\ UNCHANGED <<wanted, contended>>,
             UNCHANGED <<project, docs, rules, effective, issues, nextIssue, docLinks, withdrawn>>
      PROVE  Step(r)
  <2>1. CASE Answer(r, 500, {}) /\ UNCHANGED <<wanted, contended>>
    <3>1. StoreInv' /\ Evolves(StoredBy(r))
      BY <1>1, <1>4, <2>1, InsertRuleLinksKept
    <3>2. QED
      BY <2>1, <3>1, AnswerMoved DEF Step
  <2>2. CASE Advance(r, req[r].k)
    <3>1. contended \subseteq contended' /\ UNCHANGED wanted
      BY <2>2, AdvanceGrows
    <3>2. StoreInv' /\ Evolves(StoredBy(r))
      BY <1>1, <1>4, <3>1, InsertRuleLinksKept
    <3>3. Stores(req[r]) /\ Marking(req[r]) /\ req[r].op = "Consume"
      BY <1>4 DEF At, Stores, Marking
    <3>4. Ahead(req[r], issues, contended) /\ req[r].k \in Nat
      <4>1. Ahead(req[r], issues, contended) /\ req[r].k \in 1..Len(Findings)
        BY <3>3 DEF RequestsOK, Good, Base
      <4>2. QED
        BY <4>1, IssuesAssumption
    <3>5. req[r].job \notin contended =>
              \A i \in Ids : issues'[i].job = req[r].job => issues'[i].finding <= req[r].k
      BY <1>4, <3>3, <3>4 DEF Ahead
    <3>6. issues' \in [Ids -> IssueRow \cup {NoIssue}]
      BY <3>2 DEF StoreInv, TablesOK
    <3>7. Moved(r)
      BY <2>2, <3>2, <3>3, <3>4, <3>5, <3>6, AdvanceMoved
    <3>8. QED
      BY <3>2, <3>7 DEF Step
  <2>3. QED
    BY <1>4, <2>1, <2>2
<1>5. QED
  BY <1>2, <1>3, <1>4 DEF StoreFinding

-----------------------------------------------------------------------------
(* The answer is read.                                                     *)

\* The url tells the format of the provider that was asked, whatever the host of
\* its base url.
LEMMA DetectedFormat ==
    ASSUME NEW p \in Providers, NEW h \in Hosts
    PROVE  FormatOf(detectProviderFromRequest(RequestUrl(p, h))) = FormatOf(p)
<1>1. p \in {"anthropic", "huggingface", "moonshot"} /\ h \in {"default", "own"}
  BY DEF Providers, Hosts
<1>2. CASE p = "anthropic"
  <2>1. "/v1/messages" \in RequestUrl(p, h)
    BY <1>2 DEF RequestUrl
  <2>2. detectProviderFromRequest(RequestUrl(p, h)) = "anthropic"
    BY <2>1 DEF detectProviderFromRequest
  <2>3. QED
    BY <1>2, <2>2
<1>3. CASE p # "anthropic"
  <2>1. "/chat/completions" \in RequestUrl(p, h) /\ "/v1/messages" \notin RequestUrl(p, h)
    BY <1>1, <1>3 DEF RequestUrl
  <2>2. "api.anthropic.com" \notin RequestUrl(p, h)
    BY <1>1, <1>3 DEF RequestUrl
  <2>3. detectProviderFromRequest(RequestUrl(p, h)) = "huggingface"
    BY <2>1, <2>2 DEF detectProviderFromRequest
  <2>4. QED
    BY <1>1, <1>3, <2>3 DEF FormatOf
<1>4. QED
  BY <1>2, <1>3

LEMMA ReadResultStep ==
    ASSUME StoreInv, RequestsOK, NEW r \in Requests, ReadResult(r)
    PROVE  Step(r)
<1>1. UNCHANGED <<tables, analysis, history>>
  BY DEF ReadResult
<1>2. CASE \/ \E status, got : Answer(r, status, got)
           \/ \E l \in {"marker", "result", "format"} : Goto(r, l)
  BY <1>1, <1>2, ReadStep
<1>3. Good(req[r], issues, jobs, nextJob, contended)
  BY DEF RequestsOK
<1>4. DOMAIN req[r] = Fields /\ Fits(req[r].budget) /\ Base(req[r], jobs, nextJob)
  BY <1>3 DEF Good
<1>5. ASSUME NEW p, At(r, "Consume", "format"),
             p = IF req[r].job \in provided THEN jobs[req[r].job].provider
                 ELSE detectProviderFromRequest(
                         RequestUrl(jobs[req[r].job].provider, jobs[req[r].job].host)),
             req' = [req EXCEPT ![r].format = FormatOf(p), ![r].pc = "parse"]
      PROVE  Step(r)
  <2> DEFINE q == [req[r] EXCEPT !.format = FormatOf(p), !.pc = "parse"]
  <2>1. StoreInv' /\ Evolves(StoredBy(r)) /\ jobs' = jobs
    BY <1>1, NoWrite DEF analysis
  <2>2. req[r].op = "Consume" /\ Base(req[r], jobs', nextJob')
    BY <1>4, <1>5, <2>1, BaseStays DEF At
  <2>3. jobs[req[r].job] \in HttpJob
    BY <1>4, <2>2 DEF Base, StoreInv, JobsOK
  <2>4. jobs[req[r].job].provider \in Providers /\ jobs[req[r].job].host \in Hosts
    BY <2>3 DEF HttpJob
  <2>5. FormatOf(p) = FormatOf(jobs[req[r].job].provider)
    BY <1>5, <2>4, DetectedFormat
  <2>6. /\ DOMAIN q = Fields /\ q.op = "Consume" /\ q.pc = "parse" /\ q.job = req[r].job
        /\ q.mode = req[r].mode /\ q.budget = req[r].budget /\ q.format = FormatOf(p)
    BY <1>4, <2>2 DEF Fields
  <2>7. req' = [req EXCEPT ![r] = q]
    BY <1>5
  <2> HIDE DEF q
  <2>8. req'[r] = q /\ DOMAIN req' = Requests /\ \A s \in Requests : s # r => req'[s] = req[s]
    BY <2>7 DEF RequestsOK
  <2>9. ~Stores(q) /\ ~Marking(q) /\ Ahead(q, issues', contended')
    BY <2>6 DEF Stores, Marking, Ahead
  <2>10. q.format = FormatOf(jobs'[q.job].provider)
    BY <2>1, <2>5, <2>6
  <2>11. Base(q, jobs', nextJob')
    BY <2>2, <2>6, <2>9, <2>10 DEF Base
  <2>12. QED
    BY <1>4, <2>1, <2>6, <2>8, <2>9, <2>11 DEF Step, Moved, Good
<1>6. CASE req' = [req EXCEPT ![r].pc = "docs", ![r].format = "none"]
  <2> DEFINE q == [req[r] EXCEPT !.pc = "docs", !.format = "none"]
  <2>1. /\ DOMAIN q = Fields /\ q.op = req[r].op /\ q.pc = "docs" /\ q.job = req[r].job
        /\ q.mode = req[r].mode /\ q.budget = req[r].budget
    BY <1>4 DEF Fields
  <2>2. req' = [req EXCEPT ![r] = q]
    BY <1>6
  <2> HIDE DEF q
  <2>3. Calm(q)
    BY <2>1 DEF Calm
  <2>4. QED
    BY <1>1, <2>1, <2>2, <2>3, ReadInto
<1>7. CASE /\ At(r, "Consume", "format")
           /\ LET job == jobs[req[r].job]
                  p == IF req[r].job \in provided THEN job.provider
                       ELSE detectProviderFromRequest(RequestUrl(job.provider, job.host))
              IN  req' = [req EXCEPT ![r].format = FormatOf(p), ![r].pc = "parse"]
  BY <1>5, <1>7
<1>8. CASE /\ At(r, "Consume", "result")
           /\ CASE jobs[req[r].job].status \in {"queued", "failed"} -> Answer(r, 500, {})
                [] jobs[req[r].job].status \in {"empty", "http_error"} -> Answer(r, 400, {})
                [] OTHER -> Goto(r, "format")
  <2>1. Answer(r, 500, {}) \/ Answer(r, 400, {}) \/ Goto(r, "format")
    BY <1>8
  <2>2. QED
    BY <1>2, <2>1
<1>9. QED
  BY <1>2, <1>6, <1>7, <1>8 DEF ReadResult

\* The marker is written, or the skipped findings were filed: both come after the
\* last finding.
LEMMA MarkStep ==
    ASSUME StoreInv, RequestsOK, NEW r \in Requests, StoreInv', Evolves(StoredBy(r)),
           At(r, "Consume", "skipped"), Goto(r, "mark")
    PROVE  Moved(r)
<1> DEFINE q == [req[r] EXCEPT !.pc = "mark"]
<1>1. req[r].op = "Consume" /\ req[r].pc = "skipped"
  BY DEF At
<1>2. Good(req[r], issues, jobs, nextJob, contended)
  BY DEF RequestsOK
<1>3. /\ DOMAIN req[r] = Fields /\ Fits(req[r].budget)
      /\ Base(req[r], jobs', nextJob')
  BY <1>2, BaseStays DEF Good
<1>4. /\ DOMAIN q = Fields /\ q.op = "Consume" /\ q.pc = "mark" /\ q.job = req[r].job
      /\ q.mode = req[r].mode /\ q.budget = req[r].budget
  BY <1>1, <1>3 DEF Fields
<1>5. req' = [req EXCEPT ![r] = q]
  BY DEF Goto
<1> HIDE DEF q
<1>6. req'[r] = q /\ DOMAIN req' = Requests /\ \A s \in Requests : s # r => req'[s] = req[s]
  BY <1>5 DEF RequestsOK
<1>7. Base(q, jobs', nextJob') /\ ~Stores(q)
  BY <1>1, <1>3, <1>4 DEF Base, Stores
<1>8. Ahead(q, issues', contended') /\ Marking(req[r])
  BY <1>1, <1>7 DEF Ahead, Marking
<1>9. QED
  BY <1>3, <1>4, <1>6, <1>7, <1>8 DEF Moved, Good

LEMMA ConsumeStep ==
    ASSUME StoreInv, RequestsOK, NEW r \in Requests, ConsumeIssues(r)
    PROVE  Step(r)
<1>1. CASE assertProjectAccess(r, 500, "job")
  BY <1>1, AccessStep
<1>2. CASE ReadResult(r)
  BY <1>2, ReadResultStep
<1>3. CASE SelectDocs(r, "rules")
  BY <1>3, SelectDocsStep
<1>4. CASE SelectRules(r, "clear")
  BY <1>4, SelectRulesStep
<1>5. CASE ClearIssues(r)
  BY <1>5, ClearStep
<1>6. CASE StoreFinding(r)
  BY <1>6, StoreFindingStep
<1>7. CASE MarkConsumed(r)
  <2>1. UNCHANGED <<tables, jobs, nextJob, provided, withdrawn, contended>>
    BY <1>7 DEF MarkConsumed
  <2>2. CASE At(r, "Consume", "skipped") /\ Goto(r, "mark") /\ UNCHANGED <<consumed, wanted>>
    <3>1. UNCHANGED <<tables, analysis, history>>
      BY <2>1, <2>2 DEF analysis, history
    <3>2. StoreInv' /\ Evolves(StoredBy(r))
      BY <3>1, NoWrite
    <3>3. QED
      BY <2>2, <3>2, MarkStep DEF Step
  <2>3. CASE At(r, "Consume", "mark") /\ Mark(req[r].job, req[r]) /\ Answer(r, 200, {})
    <3> DEFINE C == {req[r].job}
    <3>1. Base(req[r], jobs, nextJob)
      BY DEF RequestsOK, Good
    <3>2. req[r].job \in 1..nextJob - 1
      BY <2>3, <3>1 DEF At, Base
    <3>3. /\ C \subseteq 1..nextJob - 1
          /\ consumed' = consumed \cup C /\ provided' = provided \cup {}
      BY <2>1, <2>3, <3>2 DEF Mark
    <3>4. DOMAIN wanted' = Jobs /\ \A j \in Jobs \ consumed' : wanted'[j] = {}
      BY <2>3 DEF Mark, StoreInv, JobsOK
    <3> HIDE DEF C
    <3>5. StoreInv' /\ Evolves(StoredBy(r))
      BY <2>1, <3>3, <3>4, MarkerKept
    <3>6. QED
      BY <2>3, <3>5, AnswerMoved DEF Step
  <2>4. QED
    BY <1>7, <2>2, <2>3 DEF MarkConsumed
<1>8. QED
  BY <1>1, <1>2, <1>3, <1>4, <1>5, <1>6, <1>7 DEF ConsumeIssues

-----------------------------------------------------------------------------
(* The issues users read and write.                                        *)

LEMMA ReadIssuesStep ==
    ASSUME StoreInv, RequestsOK, NEW r \in Requests, NEW op \in {"List", "Get", "Patch"},
           ReadIssues(r, op)
    PROVE  Step(r)
<1> DEFINE i == CHOOSE n \in req[r].todo : TRUE
           linked == {l[2] : l \in {k \in docLinks : k[1] = i}}
           l == IF linked = {} THEN "ruleLinks" ELSE "linked"
           q1 == [req[r] EXCEPT !.docs = linked, !.pc = l]
           q2 == [req[r] EXCEPT !.got = @ \cup ({i} \X SelectLinked(req[r].docs)),
                                !.docs = {}, !.pc = "ruleLinks"]
           q3 == [req[r] EXCEPT !.todo = @ \ {i}, !.pc = "links"]
<1>1. UNCHANGED <<tables, analysis, history>>
  BY DEF ReadIssues
<1>2. req[r].op = op
  BY DEF ReadIssues, At
<1>3. DOMAIN req[r] = Fields
  BY DEF RequestsOK, Good
<1>4. \/ Answer(r, 200, req[r].got)
      \/ req' = [req EXCEPT ![r] = q1]
      \/ req' = [req EXCEPT ![r] = q2]
      \/ req' = [req EXCEPT ![r] = q3]
  BY DEF ReadIssues
<1> HIDE DEF i, linked, l
<1>5. ASSUME NEW q, q \in {q1, q2, q3}
      PROVE  /\ DOMAIN q = Fields /\ q.op = req[r].op /\ q.job = req[r].job
             /\ q.mode = req[r].mode /\ q.budget = req[r].budget
  <2>1. CASE q = q1
    BY <1>3, <2>1 DEF Fields
  <2>2. CASE q = q2
    BY <1>3, <2>2 DEF Fields
  <2>3. CASE q = q3
    BY <1>3, <2>3 DEF Fields
  <2>4. QED
    BY <1>5, <2>1, <2>2, <2>3
<1> HIDE DEF q1, q2, q3
<1>6. ASSUME NEW q, q \in {q1, q2, q3}, req' = [req EXCEPT ![r] = q]
      PROVE  Step(r)
  <2>1. Calm(q)
    BY <1>2, <1>5, <1>6 DEF Calm
  <2>2. QED
    BY <1>1, <1>5, <1>6, <2>1, ReadInto
<1>7. CASE Answer(r, 200, req[r].got)
  BY <1>1, <1>7, ReadStep
<1>8. QED
  BY <1>4, <1>6, <1>7

LEMMA SelectIssueStep ==
    ASSUME StoreInv, RequestsOK, NEW r \in Requests, NEW op \in {"Get", "Patch", "Delete"},
           NEW then, SelectIssue(r, op, then)
    PROVE  Step(r)
<1> DEFINE q == [req[r] EXCEPT !.todo = {req[r].issue}, !.pc = then]
<1>1. UNCHANGED <<tables, analysis, history>> /\ req[r].op = op
  BY DEF SelectIssue, At
<1>2. CASE Answer(r, 404, {})
  BY <1>1, <1>2, ReadStep
<1>3. CASE req' = [req EXCEPT ![r].todo = {req[r].issue}, ![r].pc = then]
  <2>1. DOMAIN req[r] = Fields
    BY DEF RequestsOK, Good
  <2>2. /\ DOMAIN q = Fields /\ q.op = req[r].op /\ q.job = req[r].job
        /\ q.mode = req[r].mode /\ q.budget = req[r].budget
    BY <2>1 DEF Fields
  <2>3. req' = [req EXCEPT ![r] = q]
    BY <1>3
  <2> HIDE DEF q
  <2>4. Calm(q)
    BY <1>1, <2>2 DEF Calm
  <2>5. QED
    BY <1>1, <2>2, <2>3, <2>4, ReadInto
<1>4. QED
  BY <1>2, <1>3 DEF SelectIssue

LEMMA ListStep ==
    ASSUME StoreInv, RequestsOK, NEW r \in Requests, ListIssues(r)
    PROVE  Step(r)
<1>1. CASE ReadIssues(r, "List")
  BY <1>1, ReadIssuesStep
<1>2. CASE /\ At(r, "List", "issues")
           /\ req' = [req EXCEPT ![r].todo = {i \in Ids : Exists(i)}, ![r].pc = "links"]
           /\ UNCHANGED <<tables, analysis, history>>
  <2> DEFINE T == {i \in Ids : Exists(i)}
             q == [req[r] EXCEPT !.todo = T, !.pc = "links"]
  <2>1. req' = [req EXCEPT ![r] = q]
    BY <1>2
  <2> HIDE DEF T
  <2>2. DOMAIN req[r] = Fields /\ req[r].op = "List"
    BY <1>2 DEF RequestsOK, Good, At
  <2>3. /\ DOMAIN q = Fields /\ q.op = req[r].op /\ q.job = req[r].job
        /\ q.mode = req[r].mode /\ q.budget = req[r].budget
    BY <2>2 DEF Fields
  <2> HIDE DEF q
  <2>4. Calm(q)
    BY <2>2, <2>3 DEF Calm
  <2>5. QED
    BY <1>2, <2>1, <2>3, <2>4, ReadInto
<1>3. QED
  BY <1>1, <1>2 DEF ListIssues

LEMMA CreateStep ==
    ASSUME StoreInv, RequestsOK, NEW r \in Requests, CreateIssue(r)
    PROVE  Step(r)
<1>1. UNCHANGED <<analysis, history>> /\ req[r].op = "Create"
  BY DEF CreateIssue, At
<1>2. CASE InsertIssue(r, [origin |-> "manual", job |-> 0, finding |-> 0,
                           nonissue |-> FALSE], "link")
  <2> DEFINE row == [origin |-> "manual", job |-> 0, finding |-> 0, nonissue |-> FALSE]
             q == [req[r] EXCEPT !.pc = "link", !.new = nextIssue]
  <2>1. 0 \in 0..Len(Findings) /\ 0 \notin Jobs
    BY IssuesAssumption DEF Jobs
  <2>2. row \in IssueRow /\ row.job = 0 /\ row.job \notin Jobs
    BY <2>1 DEF IssueRow
  <2>3. InsertIssue(r, row, "link")
    BY <1>2
  <2> HIDE DEF row
  <2>4. /\ nextIssue <= MaxIssue
        /\ UNCHANGED <<project, docs, rules, effective, docLinks, ruleLinks>>
        /\ project => /\ issues' = [issues EXCEPT ![nextIssue] = row]
                      /\ nextIssue' = nextIssue + 1
                      /\ req' = [req EXCEPT ![r] = q]
        /\ ~project => Answer(r, 500, {}) /\ UNCHANGED <<issues, nextIssue>>
    BY <2>3 DEF InsertIssue
  <2>5. CASE ~project
    <3>1. UNCHANGED <<tables, analysis, history>> /\ Answer(r, 500, {})
      BY <1>1, <2>4, <2>5 DEF tables
    <3>2. QED
      BY <3>1, ReadStep
  <2>6. CASE project
    <3>1. StoreInv' /\ Evolves(StoredBy(r))
      BY <1>1, <2>2, <2>4, <2>6, InsertKept
    <3>2. DOMAIN req[r] = Fields
      BY DEF RequestsOK, Good
    <3>3. /\ DOMAIN q = Fields /\ q.op = req[r].op /\ q.job = req[r].job
          /\ q.mode = req[r].mode /\ q.budget = req[r].budget
      BY <3>2 DEF Fields
    <3>4. req' = [req EXCEPT ![r] = q]
      BY <2>4, <2>6
    <3> HIDE DEF q
    <3>5. Calm(q)
      BY <1>1, <3>3 DEF Calm
    <3>6. QED
      BY <3>1, <3>3, <3>4, <3>5, MoveOn DEF Step
  <2>7. QED
    BY <2>5, <2>6
<1>3. CASE /\ InsertDocLinks(req[r].new, req[r].links)
           /\ IF req[r].links = {} THEN Answer(r, 201, {})
              ELSE IF Exists(req[r].new) /\ req[r].links \subseteq docs THEN Goto(r, "linked")
              ELSE Answer(r, 500, {})
           /\ UNCHANGED <<project, docs, rules, effective, issues, nextIssue, ruleLinks>>
  <2>1. StoreInv' /\ Evolves(StoredBy(r))
    BY <1>1, <1>3, InsertDocLinksKept
  <2>2. (\E status, got : Answer(r, status, got)) \/ Goto(r, "linked")
    BY <1>3
  <2>3. Moved(r)
    BY <1>1, <2>1, <2>2, AnswerMoved, GotoCalm
  <2>4. QED
    BY <2>1, <2>3 DEF Step
<1>4. CASE Answer(r, 201, SelectLinked(req[r].links)) /\ UNCHANGED tables
  BY <1>1, <1>4, ReadStep
<1>5. QED
  BY <1>2, <1>3, <1>4 DEF CreateIssue

LEMMA PatchStep ==
    ASSUME StoreInv, RequestsOK, NEW r \in Requests, PatchIssue(r)
    PROVE  Step(r)
<1>1. CASE SelectIssue(r, "Patch", "update")
  BY <1>1, SelectIssueStep
<1>2. CASE ReadIssues(r, "Patch")
  BY <1>2, ReadIssuesStep
<1>3. ASSUME UNCHANGED <<analysis, history>>, Answer(r, 500, {}), UNCHANGED tables
      PROVE  Step(r)
  BY <1>3, ReadStep
<1>4. ASSUME UNCHANGED <<analysis, history>>, req[r].op = "Patch",
             NEW nonissue \in BOOLEAN,
             issues' = IF Exists(req[r].issue)
                       THEN [issues EXCEPT ![req[r].issue].nonissue = nonissue] ELSE issues,
             NEW l, Goto(r, l),
             UNCHANGED <<project, docs, rules, effective, nextIssue, docLinks, ruleLinks>>
      PROVE  Step(r)
  <2>1. StoreInv' /\ Evolves(StoredBy(r))
    BY <1>4, PatchKept
  <2>2. QED
    BY <1>4, <2>1, GotoCalm DEF Step
<1>5. ASSUME UNCHANGED <<analysis, wanted, contended>>, Withdraw, req[r].op = "Patch",
             docLinks' = {l \in docLinks : l[1] # req[r].issue},
             NEW m, Goto(r, m),
             UNCHANGED <<project, docs, rules, effective, issues, nextIssue, ruleLinks>>
      PROVE  Step(r)
  <2>1. StoreInv' /\ Evolves(StoredBy(r))
    BY <1>5, UnlinkKept
  <2>2. QED
    BY <1>5, <2>1, GotoCalm DEF Step
<1>6. ASSUME UNCHANGED <<analysis, history>>, req[r].op = "Patch",
             InsertDocLinks(req[r].issue, req[r].links),
             Goto(r, "links") \/ Answer(r, 500, {}),
             UNCHANGED <<project, docs, rules, effective, issues, nextIssue, ruleLinks>>
      PROVE  Step(r)
  <2>1. StoreInv' /\ Evolves(StoredBy(r))
    BY <1>6, InsertDocLinksKept
  <2>2. QED
    BY <1>6, <2>1, GotoCalm, AnswerMoved DEF Step
<1>7. QED
  BY <1>1, <1>2, <1>3, <1>4, <1>5, <1>6 DEF PatchIssue, At, history

LEMMA DeleteStep ==
    ASSUME StoreInv, RequestsOK, NEW r \in Requests, DeleteIssue(r)
    PROVE  Step(r)
<1>1. CASE SelectIssue(r, "Delete", "delete")
  BY <1>1, SelectIssueStep
<1>2. CASE /\ DeleteIssues({req[r].issue}) /\ Answer(r, 200, {})
           /\ UNCHANGED <<analysis, wanted, contended>>
  <2>1. StoreInv' /\ Evolves(StoredBy(r))
    BY <1>2, DeleteKept
  <2>2. QED
    BY <1>2, <2>1, AnswerMoved DEF Step
<1>3. QED
  BY <1>1, <1>2 DEF DeleteIssue

-----------------------------------------------------------------------------
(* Requests come in, fail and are stopped; and what goes on around them.   *)

LEMMA ReceiveStep ==
    ASSUME StoreInv, RequestsOK, NEW r \in Requests, Receive(r)
    PROVE  Step(r)
<1>1. UNCHANGED <<tables, analysis, history>>
  BY DEF Receive
<1>2. StoreInv' /\ Evolves(StoredBy(r)) /\ nextJob' = nextJob
  BY <1>1, NoWrite DEF analysis
<1>3. PICK op \in Operations[r] :
      \E i \in IF op \in {"Get", "Patch", "Delete"} THEN 1..nextIssue - 1 ELSE {0},
         j \in IF op \in {"Consume", "JobStatus"} THEN 1..nextJob - 1 ELSE {0},
         mode \in IF op = "Consume" THEN Modes ELSE {"none"},
         only \in IF op \in {"Analyze", "Consume"} THEN Selections[r] ELSE {{}},
         links \in IF op \in {"Create", "Patch"} THEN SUBSET Docs ELSE {{}},
         fields, relink \in IF op = "Patch" THEN BOOLEAN ELSE {TRUE},
         member \in IF FirstStep(op) = "access" THEN BOOLEAN ELSE {TRUE} :
         req' = [req EXCEPT ![r] = [Idle EXCEPT !.op = op, !.pc = FirstStep(op),
                    !.issue = i, !.job = j, !.mode = mode, !.only = only, !.links = links,
                    !.fields = fields, !.relink = relink, !.member = member]]
  BY DEF Receive
<1>4. PICK i \in IF op \in {"Get", "Patch", "Delete"} THEN 1..nextIssue - 1 ELSE {0},
           j \in IF op \in {"Consume", "JobStatus"} THEN 1..nextJob - 1 ELSE {0},
           mode \in IF op = "Consume" THEN Modes ELSE {"none"},
           only \in IF op \in {"Analyze", "Consume"} THEN Selections[r] ELSE {{}},
           links \in IF op \in {"Create", "Patch"} THEN SUBSET Docs ELSE {{}},
           fields \in IF op = "Patch" THEN BOOLEAN ELSE {TRUE},
           relink \in IF op = "Patch" THEN BOOLEAN ELSE {TRUE},
           member \in IF FirstStep(op) = "access" THEN BOOLEAN ELSE {TRUE} :
         req' = [req EXCEPT ![r] = [Idle EXCEPT !.op = op, !.pc = FirstStep(op),
                    !.issue = i, !.job = j, !.mode = mode, !.only = only, !.links = links,
                    !.fields = fields, !.relink = relink, !.member = member]]
  BY <1>3
<1> DEFINE l == FirstStep(op)
           q == [Idle EXCEPT !.op = op, !.pc = l,
                       !.issue = i, !.job = j, !.mode = mode, !.only = only, !.links = links,
                       !.fields = fields, !.relink = relink, !.member = member]
<1>5. /\ op \in {"Analyze", "Consume"} => l = "access"
      /\ op = "Consume" => j \in 1..nextJob - 1 /\ mode \in Modes
  BY DEF FirstStep
<1>6. req' = [req EXCEPT ![r] = q]
  BY <1>4
<1> HIDE DEF l
<1>7. /\ DOMAIN q = Fields /\ q.op = op /\ q.pc = l /\ q.job = j /\ q.mode = mode
      /\ q.budget = NoBudget
  BY DEF Idle, Fields
<1> HIDE DEF q
<1>8. req'[r] = q /\ DOMAIN req' = Requests /\ \A s \in Requests : s # r => req'[s] = req[s]
  BY <1>6 DEF RequestsOK
<1>9. Base(q, jobs', nextJob') /\ ~Stores(q) /\ ~Marking(q)
  BY <1>2, <1>5, <1>7 DEF Base, Stores, Marking
<1>10. Ahead(q, issues', contended') /\ Fits(q.budget)
  BY <1>7, <1>9, NoBudgetFits DEF Ahead
<1>11. QED
  BY <1>2, <1>7, <1>8, <1>9, <1>10 DEF Step, Moved, Good

LEMMA CallThrowsStep ==
    ASSUME StoreInv, RequestsOK, NEW r \in Requests, CallThrows(r)
    PROVE  Step(r)
<1>1. UNCHANGED <<tables, provided, consumed, history>>
  BY DEF CallThrows
<1>2. StoreInv' /\ Evolves(StoredBy(r))
  <2>1. CASE UNCHANGED <<jobs, nextJob>>
    <3>1. UNCHANGED <<tables, analysis, history>>
      BY <1>1, <2>1 DEF analysis
    <3>2. QED
      BY <3>1, NoWrite
  <2>2. CASE /\ At(r, "Analyze", "enqueue") /\ nextJob <= MaxJob
             /\ jobs' = [jobs EXCEPT ![nextJob] =
                    [status |-> "queued", provider |-> req[r].provider, host |-> req[r].host]]
             /\ nextJob' = nextJob + 1
    <3>1. req[r].provider \in Providers /\ req[r].host \in Hosts
      BY <2>2 DEF RequestsOK, Good, Base, At
    <3>2. QED
      BY <1>1, <2>2, <3>1, JobTaken
  <2>3. QED
    BY <2>1, <2>2 DEF CallThrows
<1>3. \/ At(r, "Consume", "skipped") /\ Goto(r, "mark")
      \/ Answer(r, 200, {}) \/ Answer(r, 202, {}) \/ Answer(r, 500, {})
  BY DEF CallThrows
<1>4. Moved(r)
  BY <1>2, <1>3, MarkStep, AnswerMoved
<1>5. QED
  BY <1>2, <1>4 DEF Step

LEMMA StopStep ==
    ASSUME StoreInv, RequestsOK, NEW r \in Requests, Stop(r)
    PROVE  Step(r)
<1> DEFINE q == [Idle EXCEPT !.pc = "done"]
<1>1. UNCHANGED <<tables, analysis, history>> /\ req' = [req EXCEPT ![r] = q]
  BY DEF Stop
<1>2. DOMAIN q = Fields /\ q.op = "none" /\ q.budget = NoBudget
  BY DEF Idle, Fields
<1> HIDE DEF q
<1>3. StoreInv' /\ Evolves(StoredBy(r))
  BY <1>1, NoWrite
<1>4. QED
  BY <1>1, <1>2, <1>3, MoveToRest DEF Step

\* No request moves.
LEMMA RequestsKept ==
    ASSUME StoreInv, RequestsOK, Evolves({}), UNCHANGED req
    PROVE  RequestsOK'
<1>1. \A r \in Requests : Good(req[r], issues', jobs', nextJob', contended')
  BY GoodStays DEF RequestsOK
<1>2. Apart'
  BY DEF RequestsOK, Apart, Stores, Evolves
<1>3. QED
  BY <1>1, <1>2 DEF RequestsOK

LEMMA RunJobStep ==
    ASSUME StoreInv, RequestsOK, NEW j \in Jobs, RunJob(j)
    PROVE  StoreInv' /\ RequestsOK' /\ Evolves({})
<1>1. UNCHANGED <<tables, nextJob, provided, consumed, req, history>> /\ jobs[j].status = "queued"
  BY DEF RunJob
<1>2. PICK status \in {"completed", "failed", "http_error", "empty", "garbage"} :
          jobs' = [jobs EXCEPT ![j].status = status]
  BY DEF RunJob
<1> DEFINE job == [jobs[j] EXCEPT !.status = status]
<1>3. jobs[j] \in HttpJob
  <2>1. NoJob.status = "none"
    BY DEF NoJob
  <2>2. QED
    BY <1>1, <2>1 DEF StoreInv, JobsOK
<1>4. job \in HttpJob /\ job.provider = jobs[j].provider
  BY <1>3 DEF HttpJob
<1>5. jobs' = [jobs EXCEPT ![j] = job]
  BY <1>2
<1> HIDE DEF job
<1>6. /\ jobs' \in [Jobs -> HttpJob \cup {NoJob}]
      /\ \A n \in Jobs : jobs'[n] = IF n = j THEN job ELSE jobs[n]
  BY <1>4, <1>5 DEF StoreInv, JobsOK
<1>7. 1..nextJob - 1 \subseteq Jobs /\ nextJob \in Int
  BY IssuesAssumption DEF StoreInv, JobsOK, Jobs
<1>8. \A n \in 1..nextJob - 1 : jobs'[n] \in HttpJob /\ jobs'[n].provider = jobs[n].provider
  BY <1>4, <1>6, <1>7 DEF StoreInv, JobsOK
<1>9. JobsOK'
  BY <1>1, <1>6, <1>8 DEF StoreInv, JobsOK, history
<1>10. TablesOK' /\ RowsOnce'
  BY <1>1 DEF StoreInv, TablesOK, RowsOnce, Exists, tables, history
<1>11. Lasting
  BY <1>1, LinksLast DEF tables
<1>12. Evolves({})
  BY <1>1, <1>7, <1>8, <1>11 DEF Evolves, Kept, tables, history
<1>13. QED
  BY <1>1, <1>9, <1>10, <1>12, RequestsKept DEF StoreInv

LEMMA ChangeStep ==
    ASSUME StoreInv, RequestsOK, Change
    PROVE  StoreInv' /\ RequestsOK' /\ Evolves({})
<1>1. UNCHANGED <<nextIssue, analysis, req, wanted, contended>> /\ Withdraw
  BY DEF Change
<1>2. /\ docLinks \subseteq {n \in Ids : Exists(n)} \X docs
      /\ ruleLinks \subseteq {n \in Ids : Exists(n)} \X rules
      /\ effective \subseteq rules
      /\ ~project => docs = {}
      /\ issues = [i \in Ids |-> issues[i]]
  BY DEF StoreInv, TablesOK
<1>3. /\ \A l \in docLinks : l[2] \in docs
      /\ \A l \in ruleLinks : l[2] \in rules
  BY <1>2
<1>4. contended \subseteq contended' /\ Withdraw
  BY <1>1
<1>5. UNCHANGED <<nextIssue, analysis, wanted>>
  BY <1>1
<1>6. ASSUME UNCHANGED <<project, issues>>, docs' \subseteq docs,
             effective' \subseteq rules', rules' \subseteq rules,
             docLinks' \subseteq docLinks, \A l \in docLinks' : l[2] \in docs',
             ruleLinks' \subseteq ruleLinks, \A l \in ruleLinks' : l[2] \in rules'
      PROVE  StoreInv' /\ Evolves({})
  <2>1. issues' = [i \in Ids |-> IF i \in {} THEN NoIssue ELSE issues[i]]
    BY <1>2, <1>6
  <2>2. /\ docLinks' \subseteq {l \in docLinks : l[1] \notin {}}
        /\ ruleLinks' \subseteq {l \in ruleLinks : l[1] \notin {}}
        /\ ~project' => docs' = {} /\ (~project \/ Ids \subseteq {})
    BY <1>2, <1>6
  <2>3. QED
    BY <1>4, <1>5, <1>6, <2>1, <2>2, RowsGo
<1>7. ASSUME NEW d \in docs, docs' = docs \ {d}, docLinks' = {l \in docLinks : l[2] # d},
             UNCHANGED <<project, rules, effective, issues, ruleLinks>>
      PROVE  StoreInv' /\ Evolves({})
  <2>1. \A l \in docLinks' : l[2] \in docs'
    BY <1>3, <1>7
  <2>2. QED
    BY <1>2, <1>3, <1>6, <1>7, <2>1
<1>8. ASSUME NEW x \in effective, effective' = effective \ {x},
             UNCHANGED <<project, docs, rules, issues, docLinks, ruleLinks>>
      PROVE  StoreInv' /\ Evolves({})
  BY <1>2, <1>3, <1>6, <1>8
<1>9. ASSUME NEW x \in rules, rules' = rules \ {x}, effective' = effective \ {x},
             ruleLinks' = {l \in ruleLinks : l[2] # x},
             UNCHANGED <<project, docs, issues, docLinks>>
      PROVE  StoreInv' /\ Evolves({})
  <2>1. \A l \in ruleLinks' : l[2] \in rules'
    BY <1>3, <1>9
  <2>2. QED
    BY <1>2, <1>3, <1>6, <1>9, <2>1
<1>10. ASSUME project' = FALSE, docs' = {}, effective' = {}, docLinks' = {}, ruleLinks' = {},
              issues' = [i \in Ids |-> NoIssue], UNCHANGED rules
       PROVE  StoreInv' /\ Evolves({})
  <2>1. issues' = [i \in Ids |-> IF i \in Ids THEN NoIssue ELSE issues[i]]
    BY <1>10
  <2>2. /\ docLinks' \subseteq {l \in docLinks : l[1] \notin Ids}
        /\ ruleLinks' \subseteq {l \in ruleLinks : l[1] \notin Ids}
        /\ docs' \subseteq docs /\ effective' \subseteq rules' /\ rules' \subseteq rules
        /\ \A l \in docLinks' : l[2] \in docs'
        /\ \A l \in ruleLinks' : l[2] \in rules'
        /\ ~project' => docs' = {} /\ (~project \/ Ids \subseteq Ids)
    BY <1>10
  <2>3. QED
    BY <1>4, <1>5, <2>1, <2>2, RowsGo
<1>11. StoreInv' /\ Evolves({})
  BY <1>7, <1>8, <1>9, <1>10 DEF Change
<1>12. QED
  BY <1>1, <1>11, RequestsKept

-----------------------------------------------------------------------------
(* What is stored lasts until the marker and after it.                     *)

\* The job of a request that consumes is a job.
LEMMA ConsumedIsJob ==
    ASSUME StoreInv, RequestsOK, NEW r \in Requests, req[r].op = "Consume"
    PROVE  req[r].job \in Jobs
<1>1. req[r].job \in 1..nextJob - 1
  BY DEF RequestsOK, Good, Base
<1>2. QED
  BY <1>1, IssuesAssumption DEF StoreInv, JobsOK, Jobs

\* A finding of a job in use stays stored, unless the job is withdrawn.
LEMMA StoredStays ==
    ASSUME Lasting, NEW j \in Jobs, InUse(j), j \notin withdrawn', NEW k,
           StoredIn(j, k, issues, docLinks, ruleLinks)
    PROVE  StoredIn(j, k, issues', docLinks', ruleLinks')
<1>1. PICK i \in Ids : /\ issues[i].job = j /\ issues[i].finding = k
                       /\ \E l \in docLinks : l[1] = i
                       /\ \E l \in ruleLinks : l[1] = i
  BY DEF StoredIn
<1>2. /\ issues'[i].job = j /\ issues'[i].finding = k
      /\ \A l \in docLinks : l[1] = i => l \in docLinks'
      /\ \A l \in ruleLinks : l[1] = i => l \in ruleLinks'
  BY <1>1 DEF Lasting
<1>3. QED
  BY <1>1, <1>2 DEF StoredIn

\* What is known of a request that stays where it is.
LEMMA CoveredStays ==
    ASSUME StoreInv, StoreInv', Lasting, withdrawn \subseteq withdrawn',
           NEW q, Marking(q) => q.job \in Jobs /\ InUse(q.job),
           Covered(q, issues, nextIssue, docLinks, ruleLinks, withdrawn)
    PROVE  Covered(q, issues', nextIssue', docLinks', ruleLinks', withdrawn')
<1> SUFFICES ASSUME Marking(q), q.job \notin withdrawn'
             PROVE  /\ \A k \in 1..Len(Findings) :
                           ValidFinding(q, k) /\ (k < q.k \/ ~Stores(q)) =>
                               StoredIn(q.job, k, issues', docLinks', ruleLinks')
                    /\ Stores(q) => ValidFinding(q, q.k)
                    /\ q.pc \in {"linkDocs", "linkRules"} =>
                           /\ q.new \in 1..nextIssue' - 1
                           /\ issues'[q.new] # NoIssue =>
                                 issues'[q.new].job = q.job /\ issues'[q.new].finding = q.k
                    /\ q.pc = "linkRules" /\ issues'[q.new] # NoIssue =>
                           \E l \in docLinks' : l[1] = q.new
  BY DEF Covered
<1>1. q.job \in Jobs /\ InUse(q.job) /\ q.job \notin withdrawn
  OBVIOUS
<1>2. /\ \A k \in 1..Len(Findings) :
             ValidFinding(q, k) /\ (k < q.k \/ ~Stores(q)) =>
                 StoredIn(q.job, k, issues, docLinks, ruleLinks)
      /\ Stores(q) => ValidFinding(q, q.k)
      /\ q.pc \in {"linkDocs", "linkRules"} =>
             /\ q.new \in 1..nextIssue - 1
             /\ issues[q.new] # NoIssue =>
                   issues[q.new].job = q.job /\ issues[q.new].finding = q.k
      /\ q.pc = "linkRules" /\ issues[q.new] # NoIssue =>
             \E l \in docLinks : l[1] = q.new
  BY <1>1 DEF Covered
<1>3. \A k \in 1..Len(Findings) :
          ValidFinding(q, k) /\ (k < q.k \/ ~Stores(q)) =>
              StoredIn(q.job, k, issues', docLinks', ruleLinks')
  BY <1>1, <1>2, StoredStays
<1>4. ASSUME q.pc \in {"linkDocs", "linkRules"}
      PROVE  /\ q.new \in 1..nextIssue' - 1
             /\ issues'[q.new] # NoIssue =>
                   /\ issues[q.new] # NoIssue
                   /\ issues'[q.new].job = q.job /\ issues'[q.new].finding = q.k
                   /\ \A l \in docLinks : l[1] = q.new => l \in docLinks'
  <2>1. nextIssue \in 1..MaxIssue + 1 /\ nextIssue' \in Int /\ nextIssue <= nextIssue'
    BY DEF StoreInv, TablesOK, Lasting
  <2>2. q.new \in 1..nextIssue' - 1 /\ q.new \in Ids /\ q.new < nextIssue
    BY <1>2, <1>4, <2>1, IssuesAssumption DEF Ids
  <2>3. QED
    BY <1>1, <1>2, <1>4, <2>2 DEF Lasting
<1>5. QED
  BY <1>2, <1>3, <1>4

\* The marked jobs stay complete.
LEMMA MarkedStays ==
    ASSUME StoreInv, Lasting, MarkedIsComplete, withdrawn \subseteq withdrawn',
           NEW j \in consumed \ withdrawn', NEW k \in wanted[j]
    PROVE  Stored(j, k)'
<1>1. j \in Jobs /\ InUse(j)
  BY DEF StoreInv, JobsOK, InUse
<1>2. StoredIn(j, k, issues, docLinks, ruleLinks)
  BY DEF MarkedIsComplete, Stored, StoredIn
<1>3. StoredIn(j, k, issues', docLinks', ruleLinks')
  BY <1>1, <1>2, StoredStays
<1>4. QED
  BY <1>3 DEF Stored, StoredIn

\* A request on its way to the marker keeps what is known of it while it stays.
LEMMA RequestCovered ==
    ASSUME StoreInv, StoreInv', RequestsOK, Complete, Lasting,
           withdrawn \subseteq withdrawn', NEW s \in Requests
    PROVE  Covered(req[s], issues', nextIssue', docLinks', ruleLinks', withdrawn')
<1>1. Marking(req[s]) => req[s].job \in Jobs /\ InUse(req[s].job)
  BY ConsumedIsJob DEF Marking, InUse, Midway
<1>2. Covered(req[s], issues, nextIssue, docLinks, ruleLinks, withdrawn)
  BY DEF Complete
<1>3. QED
  BY <1>1, <1>2, CoveredStays

\* A step of r, which does not write the marker.
LEMMA CompleteKept ==
    ASSUME StoreInv, RequestsOK, Complete, NEW r \in Requests, Step(r),
           UNCHANGED <<consumed, wanted>>,
           Covered(req'[r], issues', nextIssue', docLinks', ruleLinks', withdrawn')
    PROVE  Complete'
<1>1. StoreInv' /\ Lasting /\ withdrawn \subseteq withdrawn'
  BY DEF Step, Evolves
<1>2. \A s \in Requests :
          Covered(req'[s], issues', nextIssue', docLinks', ruleLinks', withdrawn')
  BY <1>1, RequestCovered DEF Step, Moved
<1>3. MarkedIsComplete'
  BY <1>1, MarkedStays DEF Complete, MarkedIsComplete
<1>4. QED
  BY <1>2, <1>3 DEF Complete

\* A step of r, which is not on its way to the marker afterwards.
LEMMA QuietStep ==
    ASSUME StoreInv, RequestsOK, Complete, NEW r \in Requests, Step(r),
           UNCHANGED <<consumed, wanted>>, ~Marking(req'[r])
    PROVE  Complete'
<1>1. Covered(req'[r], issues', nextIssue', docLinks', ruleLinks', withdrawn')
  BY DEF Covered
<1>2. QED
  BY <1>1, CompleteKept

\* Who answers or is stopped is not on the way to the marker, nor is who was not
\* on it and has not cleared the rows.
LEMMA NotMarking ==
    ASSUME RequestsOK, NEW r \in Requests,
           \/ \E status, got : Answer(r, status, got)
           \/ Stop(r)
           \/ /\ Moved(r)
              /\ req[r].op # "Consume" \/ req[r].pc \notin {"clear", "insert", "linkDocs",
                                               "linkRules", "skipped", "mark"}
    PROVE  ~Marking(req'[r])
<1>1. DOMAIN req = Requests
  BY DEF RequestsOK
<1>2. ASSUME NEW status, NEW got, Answer(r, status, got)
      PROVE  ~Marking(req'[r])
  <2> DEFINE p == [Idle EXCEPT !.pc = "done", !.ans = status,
                               !.links = req[r].links, !.got = got]
             o == [Idle EXCEPT !.pc = "done"]
  <2>1. p.op = "none" /\ o.op = "none"
    BY DEF Idle
  <2>2. req' = [req EXCEPT ![r] = IF status = 201 THEN p ELSE o]
    BY <1>2 DEF Answer
  <2> HIDE DEF p, o
  <2>3. req'[r].op = "none"
    BY <1>1, <2>1, <2>2
  <2>4. QED
    BY <2>3 DEF Marking
<1>3. CASE Stop(r)
  BY <1>1, <1>3 DEF Stop, Idle, Marking
<1>4. CASE /\ Moved(r)
           /\ req[r].op # "Consume" \/ req[r].pc \notin {"clear", "insert", "linkDocs",
                                            "linkRules", "skipped", "mark"}
  BY <1>4 DEF Moved, Marking, At
<1>5. QED
  BY <1>2, <1>3, <1>4

\* To the next finding: what was selected up to k is stored, and what is between
\* k and the next one was not selected.
LEMMA AdvanceCovered ==
    ASSUME RequestsOK, NEW r \in Requests, req[r].op = "Consume",
           NEW k \in Nat, Advance(r, k),
           req[r].job \notin withdrawn' =>
               \A m \in 1..Len(Findings) : ValidFinding(req[r], m) /\ m <= k =>
                   StoredIn(req[r].job, m, issues', docLinks', ruleLinks')
    PROVE  Covered(req'[r], issues', nextIssue', docLinks', ruleLinks', withdrawn')
<1> DEFINE n == NextFinding(req[r], k)
           skipped == \E o \in 1..Len(Findings) : ~ValidFinding(req[r], o)
           l == IF n # 0 THEN "insert" ELSE IF skipped THEN "skipped" ELSE "mark"
           q == [req[r] EXCEPT !.k = n, !.new = 0, !.pc = l]
<1>1. DOMAIN req[r] = Fields /\ DOMAIN req = Requests
  BY DEF RequestsOK, Good
<1>2. req' = [req EXCEPT ![r] = q]
  BY DEF Advance
<1>3. n # 0 => /\ ValidFinding(req[r], n)
               /\ \A m \in k + 1..Len(Findings) : ValidFinding(req[r], m) => n <= m
               /\ n \in Nat
  BY NextIsLater
<1>4. n = 0 => \A m \in k + 1..Len(Findings) : ~ValidFinding(req[r], m)
  BY NoneIsLast
<1> HIDE DEF n, skipped
<1>5. l \in {"insert", "skipped", "mark"} /\ (l = "insert" <=> n # 0)
  OBVIOUS
<1> HIDE DEF l
<1>6. /\ q.job = req[r].job /\ q.pc = l /\ q.k = n /\ q.op = "Consume"
      /\ q.docs = req[r].docs /\ q.rules = req[r].rules
  BY <1>1 DEF Fields
<1> HIDE DEF q
<1>7. req'[r] = q /\ \A m : ValidFinding(q, m) <=> ValidFinding(req[r], m)
  BY <1>1, <1>2, <1>6 DEF ValidFinding
<1>8. Stores(q) <=> n # 0
  BY <1>5, <1>6 DEF Stores
<1>9. ASSUME q.job \notin withdrawn', NEW m \in 1..Len(Findings), ValidFinding(q, m),
             m < q.k \/ ~Stores(q)
      PROVE  StoredIn(q.job, m, issues', docLinks', ruleLinks')
  <2>1. m <= k \/ m \in k + 1..Len(Findings)
    BY IssuesAssumption
  <2>2. m \notin k + 1..Len(Findings)
    BY <1>3, <1>4, <1>6, <1>7, <1>8, <1>9
  <2>3. QED
    BY <1>6, <1>7, <1>9, <2>1, <2>2
<1>10. Stores(q) => ValidFinding(q, q.k)
  BY <1>3, <1>6, <1>7, <1>8
<1>11. q.pc \notin {"linkDocs", "linkRules"}
  BY <1>5, <1>6
<1>12. QED
  BY <1>7, <1>9, <1>10, <1>11 DEF Covered

LEMMA ClearComplete ==
    ASSUME StoreInv, RequestsOK, Complete, NEW r \in Requests, ClearIssues(r)
    PROVE  Complete'
<1>1. req[r].op = "Consume" /\ Advance(r, 0) /\ UNCHANGED consumed
  BY DEF ClearIssues, At, analysis
<1>2. \A m \in 1..Len(Findings) : ~(m <= 0)
  OBVIOUS
<1>3. Covered(req'[r], issues', nextIssue', docLinks', ruleLinks', withdrawn')
  BY <1>1, <1>2, AdvanceCovered
<1>4. UNCHANGED wanted
  BY <1>1, AdvanceGrows
<1>5. QED
  BY <1>1, <1>3, <1>4, ClearStep, CompleteKept

\* The row of a finding is inserted; then it is to get its documents.
LEMMA InsertComplete ==
    ASSUME StoreInv, RequestsOK, Complete, NEW r \in Requests, At(r, "Consume", "insert"),
           StoreFinding(r)
    PROVE  Complete'
<1>1. req[r].op = "Consume" /\ req[r].pc = "insert" /\ Step(r)
  BY StoreFindingStep DEF At
<1> DEFINE row == [origin |-> "ai", job |-> req[r].job, finding |-> req[r].k,
                   nonissue |-> FALSE]
           q == [req[r] EXCEPT !.pc = "linkDocs", !.new = nextIssue]
<1>2. InsertIssue(r, row, "linkDocs") /\ UNCHANGED <<analysis, history>>
  BY <1>1 DEF StoreFinding, At
<1>3. UNCHANGED <<consumed, wanted, withdrawn>>
  BY <1>2 DEF analysis, history
<1>4. row.job = req[r].job /\ row.finding = req[r].k
  OBVIOUS
<1> HIDE DEF row
<1>5. CASE Answer(r, 500, {})
  BY <1>1, <1>3, <1>5, NotMarking, QuietStep
<1>6. CASE project
  <2>1. /\ nextIssue <= MaxIssue /\ nextIssue' = nextIssue + 1
        /\ issues' = [issues EXCEPT ![nextIssue] = row]
        /\ req' = [req EXCEPT ![r] = q]
    BY <1>2, <1>6 DEF InsertIssue
  <2>2. nextIssue \in Ids /\ nextIssue \in 1..nextIssue' - 1
    BY <2>1, IssuesAssumption DEF StoreInv, TablesOK, Ids
  <2>3. issues'[nextIssue] = row
    BY <2>1, <2>2 DEF StoreInv, TablesOK
  <2>4. DOMAIN req[r] = Fields /\ DOMAIN req = Requests
    BY DEF RequestsOK, Good
  <2>5. /\ q.op = "Consume" /\ q.pc = "linkDocs" /\ q.new = nextIssue /\ q.k = req[r].k
        /\ q.job = req[r].job /\ q.docs = req[r].docs /\ q.rules = req[r].rules
    BY <1>1, <2>4 DEF Fields
  <2> HIDE DEF q
  <2>6. /\ req'[r] = q /\ \A m : ValidFinding(q, m) <=> ValidFinding(req[r], m)
        /\ Stores(q) /\ Stores(req[r]) /\ Marking(req[r])
    BY <1>1, <2>1, <2>4, <2>5 DEF ValidFinding, Stores, Marking
  <2>7. Covered(req[r], issues', nextIssue', docLinks', ruleLinks', withdrawn')
    BY <1>1, RequestCovered DEF Step, Evolves
  <2>8. Covered(q, issues', nextIssue', docLinks', ruleLinks', withdrawn')
    BY <1>4, <2>2, <2>3, <2>5, <2>6, <2>7 DEF Covered
  <2>9. QED
    BY <1>1, <1>3, <2>6, <2>8, CompleteKept
<1>7. QED
  BY <1>2, <1>5, <1>6 DEF InsertIssue

\* The row gets its documents: a finding that was selected has one.
LEMMA LinkDocsComplete ==
    ASSUME StoreInv, RequestsOK, Complete, NEW r \in Requests, At(r, "Consume", "linkDocs"),
           StoreFinding(r)
    PROVE  Complete'
<1>1. req[r].op = "Consume" /\ req[r].pc = "linkDocs" /\ Step(r)
  BY StoreFindingStep DEF At
<1> DEFINE ds == Findings[req[r].k].docs \cap req[r].docs
           q == [req[r] EXCEPT !.pc = "linkRules"]
<1>2. /\ InsertDocLinks(req[r].new, ds) /\ UNCHANGED <<analysis, history>>
      /\ IF Exists(req[r].new) /\ ds \subseteq docs
         THEN Goto(r, "linkRules") ELSE Answer(r, 500, {})
  BY <1>1 DEF StoreFinding, At
<1>3. UNCHANGED <<consumed, wanted, withdrawn>>
  BY <1>2 DEF analysis, history
<1>4. ValidFinding(req[r], req[r].k) => ds # {}
  BY DEF ValidFinding
<1> HIDE DEF ds
<1>5. CASE Answer(r, 500, {})
  BY <1>1, <1>3, <1>5, NotMarking, QuietStep
<1>6. CASE Exists(req[r].new) /\ ds \subseteq docs
  <2>1. docLinks' = docLinks \cup ({req[r].new} \X ds) /\ req' = [req EXCEPT ![r] = q]
    BY <1>2, <1>6 DEF InsertDocLinks, Goto
  <2>2. DOMAIN req[r] = Fields /\ DOMAIN req = Requests
    BY DEF RequestsOK, Good
  <2>3. /\ q.op = "Consume" /\ q.pc = "linkRules" /\ q.new = req[r].new /\ q.k = req[r].k
        /\ q.job = req[r].job /\ q.docs = req[r].docs /\ q.rules = req[r].rules
    BY <1>1, <2>2 DEF Fields
  <2> HIDE DEF q
  <2>4. /\ req'[r] = q /\ \A m : ValidFinding(q, m) <=> ValidFinding(req[r], m)
        /\ Stores(q) /\ Stores(req[r]) /\ Marking(q) /\ Marking(req[r])
    BY <1>1, <2>1, <2>2, <2>3 DEF ValidFinding, Stores, Marking
  <2>5. Covered(req[r], issues', nextIssue', docLinks', ruleLinks', withdrawn')
    BY <1>1, RequestCovered DEF Step, Evolves
  <2>6. ds # {} => \E l \in docLinks' : l[1] = req[r].new
    <3>1. ASSUME NEW d \in ds
          PROVE  <<req[r].new, d>> \in docLinks' /\ <<req[r].new, d>>[1] = req[r].new
      BY <2>1
    <3>2. QED
      BY <3>1
  <2>7. Covered(q, issues', nextIssue', docLinks', ruleLinks', withdrawn')
    <3>1. CASE q.job \in withdrawn'
      BY <3>1 DEF Covered
    <3>2. CASE q.job \notin withdrawn'
      <4>1. ValidFinding(q, q.k)
        BY <2>3, <2>4, <2>5, <3>2 DEF Covered
      <4>2. \E l \in docLinks' : l[1] = q.new
        BY <1>4, <2>3, <2>4, <2>6, <4>1
      <4>3. QED
        BY <1>1, <2>3, <2>4, <2>5, <3>2, <4>1, <4>2 DEF Covered
    <3>3. QED
      BY <3>1, <3>2
  <2>8. QED
    BY <1>1, <1>3, <2>4, <2>7, CompleteKept
<1>7. QED
  BY <1>2, <1>5, <1>6

\* The row gets its rules, and with them its finding is stored.
LEMMA LinkRulesComplete ==
    ASSUME StoreInv, RequestsOK, Complete, NEW r \in Requests, At(r, "Consume", "linkRules"),
           StoreFinding(r)
    PROVE  Complete'
<1>1. req[r].op = "Consume" /\ req[r].pc = "linkRules" /\ Step(r)
  BY StoreFindingStep DEF At
<1> DEFINE xs == Findings[req[r].k].rules \cap req[r].rules
<1>2. /\ InsertRuleLinks(req[r].new, xs) /\ UNCHANGED <<analysis, issues, docLinks, withdrawn>>
      /\ IF Exists(req[r].new) /\ xs \subseteq rules
         THEN Advance(r, req[r].k)
         ELSE Answer(r, 500, {}) /\ UNCHANGED <<wanted, contended>>
  BY <1>1 DEF StoreFinding, At
<1>3. UNCHANGED consumed
  BY <1>2 DEF analysis
<1>4. ValidFinding(req[r], req[r].k) => xs # {}
  BY DEF ValidFinding
<1> HIDE DEF xs
<1>5. CASE Answer(r, 500, {}) /\ UNCHANGED <<wanted, contended>>
  BY <1>1, <1>3, <1>5, NotMarking, QuietStep
<1>6. CASE Exists(req[r].new) /\ xs \subseteq rules
  <2>1. ruleLinks' = ruleLinks \cup ({req[r].new} \X xs) /\ Advance(r, req[r].k)
    BY <1>2, <1>6 DEF InsertRuleLinks
  <2>2. Stores(req[r]) /\ Marking(req[r]) /\ req[r].k \in 1..Len(Findings)
    BY <1>1 DEF Stores, Marking, RequestsOK, Good, Base
  <2>3. Covered(req[r], issues', nextIssue', docLinks', ruleLinks', withdrawn')
    BY <1>1, RequestCovered DEF Step, Evolves
  <2>4. ASSUME req[r].job \notin withdrawn', NEW m \in 1..Len(Findings),
               ValidFinding(req[r], m), m <= req[r].k
        PROVE  StoredIn(req[r].job, m, issues', docLinks', ruleLinks')
    <3>1. CASE m < req[r].k
      BY <2>2, <2>3, <2>4, <3>1 DEF Covered
    <3>2. CASE m = req[r].k
      <4>1. PICK x \in xs : TRUE
        BY <1>4, <2>4, <3>2
      <4>2. <<req[r].new, x>> \in ruleLinks' /\ <<req[r].new, x>>[1] = req[r].new
        BY <2>1
      <4>3. req[r].new \in Ids /\ issues'[req[r].new] # NoIssue
        BY <1>2, <1>6 DEF Exists
      <4>4. /\ issues'[req[r].new].job = req[r].job
            /\ issues'[req[r].new].finding = m
            /\ \E l \in docLinks' : l[1] = req[r].new
        BY <1>1, <2>2, <2>3, <2>4, <3>2, <4>3 DEF Covered
      <4>5. QED
        BY <4>2, <4>3, <4>4 DEF StoredIn
    <3>3. QED
      BY <2>2, <2>4, <3>1, <3>2, IssuesAssumption
  <2>5. req[r].k \in Nat
    BY <2>2, IssuesAssumption
  <2>6. Covered(req'[r], issues', nextIssue', docLinks', ruleLinks', withdrawn')
    BY <1>1, <2>1, <2>4, <2>5, AdvanceCovered
  <2>7. UNCHANGED wanted
    BY <2>1, AdvanceGrows
  <2>8. QED
    BY <1>1, <1>3, <2>6, <2>7, CompleteKept
<1>7. QED
  BY <1>2, <1>5, <1>6

\* The skipped findings are filed: all that was selected is stored by then.
LEMMA SkippedComplete ==
    ASSUME StoreInv, RequestsOK, Complete, NEW r \in Requests, Step(r),
           At(r, "Consume", "skipped"), Goto(r, "mark"), UNCHANGED <<consumed, wanted>>
    PROVE  Complete'
<1> DEFINE q == [req[r] EXCEPT !.pc = "mark"]
<1>1. req[r].op = "Consume" /\ req[r].pc = "skipped" /\ req' = [req EXCEPT ![r] = q]
  BY DEF At, Goto
<1>2. DOMAIN req[r] = Fields /\ DOMAIN req = Requests
  BY DEF RequestsOK, Good
<1>3. /\ q.op = "Consume" /\ q.pc = "mark" /\ q.job = req[r].job
      /\ q.docs = req[r].docs /\ q.rules = req[r].rules
  BY <1>1, <1>2 DEF Fields
<1> HIDE DEF q
<1>4. /\ req'[r] = q /\ \A m : ValidFinding(q, m) <=> ValidFinding(req[r], m)
      /\ ~Stores(q) /\ ~Stores(req[r]) /\ Marking(req[r])
  BY <1>1, <1>2, <1>3 DEF ValidFinding, Stores, Marking
<1>5. Covered(req[r], issues', nextIssue', docLinks', ruleLinks', withdrawn')
  BY RequestCovered DEF Step, Evolves
<1>6. Covered(q, issues', nextIssue', docLinks', ruleLinks', withdrawn')
  BY <1>3, <1>4, <1>5 DEF Covered
<1>7. QED
  BY <1>4, <1>6, CompleteKept

\* The marker is written: what it stands for is stored.
LEMMA MarkComplete ==
    ASSUME StoreInv, RequestsOK, Complete, NEW r \in Requests, Step(r),
           At(r, "Consume", "mark"), Mark(req[r].job, req[r]), Answer(r, 200, {})
    PROVE  Complete'
<1>1. req[r].op = "Consume" /\ req[r].pc = "mark" /\ Marking(req[r]) /\ ~Stores(req[r])
  BY DEF At, Marking, Stores
<1>2. StoreInv' /\ Lasting /\ withdrawn \subseteq withdrawn'
  BY DEF Step, Evolves
<1>3. \A s \in Requests :
          Covered(req[s], issues', nextIssue', docLinks', ruleLinks', withdrawn')
  BY <1>2, RequestCovered
<1>4. \A s \in Requests :
          Covered(req'[s], issues', nextIssue', docLinks', ruleLinks', withdrawn')
  <2>1. ~Marking(req'[r])
    BY NotMarking
  <2>2. Covered(req'[r], issues', nextIssue', docLinks', ruleLinks', withdrawn')
    BY <2>1 DEF Covered
  <2>3. QED
    BY <1>3, <2>2 DEF Step, Moved
<1>5. ASSUME NEW j \in consumed' \ withdrawn', NEW k \in wanted'[j]
      PROVE  Stored(j, k)'
  <2> DEFINE selected == {m \in 1..Len(Findings) : ValidFinding(req[r], m)}
  <2>1. /\ consumed' = consumed \cup {req[r].job}
        /\ wanted' = [wanted EXCEPT ![req[r].job] = @ \cup selected]
    BY DEF Mark
  <2>2. j \in Jobs /\ DOMAIN wanted = Jobs /\ \A n \in Jobs \ consumed : wanted[n] = {}
    BY <1>2 DEF StoreInv, JobsOK
  <2> HIDE DEF selected
  <2>3. k \in wanted[j] \/ (j = req[r].job /\ k \in selected)
    BY <1>5, <2>1, <2>2
  <2>4. CASE k \in wanted[j]
    <3>1. j \in consumed
      BY <2>2, <2>4
    <3>2. QED
      BY <1>2, <1>5, <2>4, <3>1, MarkedStays DEF Complete
  <2>5. CASE j = req[r].job /\ k \in selected
    <3>1. k \in 1..Len(Findings) /\ ValidFinding(req[r], k)
      BY <2>5 DEF selected
    <3>2. StoredIn(j, k, issues', docLinks', ruleLinks')
      BY <1>1, <1>3, <1>5, <2>5, <3>1 DEF Covered
    <3>3. QED
      BY <3>2 DEF Stored, StoredIn
  <2>6. QED
    BY <2>3, <2>4, <2>5
<1>6. MarkedIsComplete'
  BY <1>5 DEF MarkedIsComplete
<1>7. QED
  BY <1>4, <1>6 DEF Complete

\* No request moves and no marker is written.
LEMMA AroundComplete ==
    ASSUME StoreInv, StoreInv', RequestsOK, Complete, Evolves({}),
           UNCHANGED <<req, consumed, wanted>>
    PROVE  Complete'
<1>1. Lasting /\ withdrawn \subseteq withdrawn'
  BY DEF Evolves
<1>2. \A s \in Requests :
          Covered(req'[s], issues', nextIssue', docLinks', ruleLinks', withdrawn')
  BY <1>1, RequestCovered
<1>3. MarkedIsComplete'
  BY <1>1, MarkedStays DEF Complete, MarkedIsComplete
<1>4. QED
  BY <1>2, <1>3 DEF Complete

\* The other operations write no marker.
LEMMA OthersQuiet ==
    ASSUME NEW r \in Requests,
           \/ AnalyzeIssues(r) \/ JobStatus(r) \/ ListIssues(r) \/ GetIssue(r)
           \/ CreateIssue(r) \/ PatchIssue(r) \/ DeleteIssue(r)
    PROVE  req[r].op # "Consume" /\ UNCHANGED <<consumed, wanted>>
<1>1. CASE AnalyzeIssues(r)
  <2>1. req[r].op = "Analyze"
    BY <1>1, Zenon DEF AnalyzeIssues, PrepareRequest, EnqueueHttpJob, PutProvider, At
  <2>2. \/ UNCHANGED <<analysis, history>> \/ EnqueueHttpJob(r) \/ PutProvider(r)
    BY <1>1, Zenon DEF AnalyzeIssues, assertProjectAccess, SelectDocs, SelectRules, PrepareRequest
  <2>3. UNCHANGED <<consumed, wanted>>
    BY <2>2 DEF EnqueueHttpJob, PutProvider, analysis, history
  <2>4. QED
    BY <2>1, <2>3
<1>2. CASE JobStatus(r)
  BY <1>2 DEF JobStatus, assertProjectAccess, At, analysis, history
<1>3. ASSUME NEW op \in {"List", "Get", "Patch"}, ReadIssues(r, op)
      PROVE  req[r].op # "Consume" /\ UNCHANGED <<consumed, wanted>>
  BY <1>3 DEF ReadIssues, At, analysis, history
<1>4. ASSUME NEW op \in {"Get", "Patch", "Delete"}, NEW then, SelectIssue(r, op, then)
      PROVE  req[r].op # "Consume" /\ UNCHANGED <<consumed, wanted>>
  BY <1>4 DEF SelectIssue, At, analysis, history
<1>5. CASE ListIssues(r)
  BY <1>3, <1>5 DEF ListIssues, At, analysis, history
<1>6. CASE GetIssue(r)
  BY <1>3, <1>4, <1>6 DEF GetIssue
<1>7. CASE CreateIssue(r)
  BY <1>7 DEF CreateIssue, At, analysis, history
<1>8. CASE PatchIssue(r)
  <2>1. \/ SelectIssue(r, "Patch", "update") \/ ReadIssues(r, "Patch")
        \/ req[r].op = "Patch" /\ UNCHANGED <<analysis, wanted>>
    BY <1>8, Zenon DEF PatchIssue, At
  <2>2. QED
    BY <1>3, <1>4, <2>1 DEF analysis
<1>9. CASE DeleteIssue(r)
  <2>1. \/ SelectIssue(r, "Delete", "delete")
        \/ req[r].op = "Delete" /\ UNCHANGED <<analysis, wanted>>
    BY <1>9, Zenon DEF DeleteIssue, At
  <2>2. QED
    BY <1>4, <2>1 DEF analysis
<1>10. QED
  BY <1>1, <1>2, <1>5, <1>6, <1>7, <1>8, <1>9, Zenon

LEMMA ConsumeComplete ==
    ASSUME StoreInv, RequestsOK, Complete, NEW r \in Requests, ConsumeIssues(r)
    PROVE  Complete'
<1>1. Step(r)
  BY ConsumeStep
<1>2. ASSUME req[r].pc \in {"access", "job", "marker", "result", "format", "parse",
                          "docs", "rules"},
             UNCHANGED <<tables, analysis, history>>
      PROVE  Complete'
  BY <1>1, <1>2, NotMarking, QuietStep DEF Step, analysis, history
<1>3. CASE \/ At(r, "Consume", "access") /\ assertProjectAccess(r, 500, "job")
           \/ At(r, "Consume", "docs") /\ SelectDocs(r, "rules")
           \/ At(r, "Consume", "rules") /\ SelectRules(r, "clear")
  BY <1>2, <1>3 DEF At, assertProjectAccess, SelectDocs, SelectRules
<1>4. CASE ReadResult(r)
  BY <1>2, <1>4 DEF ReadResult, At
<1>5. CASE ClearIssues(r)
  BY <1>5, ClearComplete
<1>6. CASE StoreFinding(r)
  <2>1. At(r, "Consume", "insert") \/ At(r, "Consume", "linkDocs") \/ At(r, "Consume", "linkRules")
    BY <1>6 DEF StoreFinding
  <2>2. QED
    BY <1>6, <2>1, InsertComplete, LinkDocsComplete, LinkRulesComplete
<1>7. CASE MarkConsumed(r)
  BY <1>1, <1>7, SkippedComplete, MarkComplete DEF MarkConsumed
<1>8. QED
  BY <1>3, <1>4, <1>5, <1>6, <1>7 DEF ConsumeIssues

\* A request comes in or takes a step.
LEMMA HandleComplete ==
    ASSUME StoreInv, RequestsOK, Complete, NEW r \in Requests, Step(r),
           Receive(r) \/ Handle(r)
    PROVE  Complete'
<1>1. CASE Receive(r)
  <2>1. UNCHANGED <<consumed, wanted>> /\ req[r].pc = "idle"
    BY <1>1 DEF Receive, analysis, history
  <2>2. QED
    BY <2>1, NotMarking, QuietStep DEF Step
<1>2. CASE ConsumeIssues(r)
  BY <1>2, ConsumeComplete
<1>3. CASE \/ AnalyzeIssues(r) \/ JobStatus(r) \/ ListIssues(r) \/ GetIssue(r)
           \/ CreateIssue(r) \/ PatchIssue(r) \/ DeleteIssue(r)
  <2>1. req[r].op # "Consume" /\ UNCHANGED <<consumed, wanted>>
    BY <1>3, OthersQuiet
  <2>2. QED
    BY <2>1, NotMarking, QuietStep DEF Step
<1>4. QED
  BY <1>1, <1>2, <1>3 DEF Handle

\* A request fails or is stopped; the skipped findings may go unfiled.
LEMMA FailComplete ==
    ASSUME StoreInv, RequestsOK, Complete, NEW r \in Requests, Step(r),
           CallThrows(r) \/ Stop(r)
    PROVE  Complete'
<1>1. UNCHANGED <<consumed, wanted>>
  BY DEF CallThrows, Stop, analysis, history
<1>2. \/ At(r, "Consume", "skipped") /\ Goto(r, "mark")
      \/ Answer(r, 200, {}) \/ Answer(r, 202, {}) \/ Answer(r, 500, {}) \/ Stop(r)
  BY DEF CallThrows
<1>3. CASE At(r, "Consume", "skipped") /\ Goto(r, "mark")
  BY <1>1, <1>3, SkippedComplete
<1>4. QED
  BY <1>1, <1>2, <1>3, NotMarking, QuietStep

LEMMA InitIssues == Init => IssuesInv
<1> SUFFICES ASSUME Init PROVE IssuesInv
  OBVIOUS
<1>1. TablesOK
  <2>1. \A i \in Ids : issues[i] = NoIssue
    BY DEF Init
  <2>2. 1 \in 1..MaxIssue + 1
    BY IssuesAssumption
  <2>3. QED
    BY <2>1, <2>2, RowIsNotNoIssue DEF Init, TablesOK, Exists
<1>2. JobsOK
  <2>1. 1 \in 1..MaxJob + 1 /\ 1..1 - 1 = {}
    BY IssuesAssumption
  <2>2. QED
    BY <2>1 DEF Init, JobsOK
<1>3. RowsOnce
  BY RowIsNotNoIssue DEF Init, RowsOnce
<1>4. RequestsOK
  <2>1. DOMAIN Idle = Fields /\ Idle.op = "none" /\ Idle.budget = NoBudget
    BY DEF Idle, Fields
  <2>2. Base(Idle, jobs, nextJob) /\ ~Stores(Idle)
    BY <2>1 DEF Base, Stores
  <2>3. Good(Idle, issues, jobs, nextJob, contended)
    BY <2>1, <2>2, NoBudgetFits DEF Good, Ahead
  <2>4. DOMAIN req = Requests /\ \A r \in Requests : req[r] = Idle
    BY DEF Init
  <2>5. QED
    BY <2>2, <2>3, <2>4 DEF RequestsOK, Apart
<1>5. Complete
  BY DEF Init, Idle, Complete, Covered, Marking, MarkedIsComplete
<1>6. changes \in 0..MaxChanges /\ faults \in 0..MaxFaults
  BY IssuesAssumption DEF Init
<1>7. QED
  BY <1>1, <1>2, <1>3, <1>4, <1>5, <1>6 DEF IssuesInv, StoreInv

LEMMA NextIssues == IssuesInv /\ [Next]_vars => IssuesInv'
<1> SUFFICES ASSUME IssuesInv, [Next]_vars PROVE IssuesInv'
  OBVIOUS
<1>1. /\ StoreInv /\ RequestsOK /\ Complete
      /\ changes \in 0..MaxChanges /\ faults \in 0..MaxFaults
  BY DEF IssuesInv
<1>2. ASSUME NEW r \in Requests, Receive(r) \/ Handle(r), UNCHANGED <<changes, faults>>
      PROVE  IssuesInv'
  <2>1. Step(r)
    BY <1>1, <1>2, ReceiveStep, AnalyzeStep, JobStatusStep, ConsumeStep, ListStep,
       SelectIssueStep, ReadIssuesStep, CreateStep, PatchStep, DeleteStep
       DEF Handle, GetIssue
  <2>2. StoreInv' /\ RequestsOK' /\ Complete'
    BY <1>1, <1>2, <2>1, StepKeeps, HandleComplete
  <2>3. QED
    BY <1>1, <1>2, <2>2 DEF IssuesInv
<1>3. ASSUME NEW r \in Requests, CallThrows(r) \/ Stop(r)
      PROVE  IssuesInv'
  <2>1. Step(r)
    BY <1>1, <1>3, CallThrowsStep, StopStep
  <2>2. changes' = changes /\ faults' = faults + 1 /\ faults < MaxFaults
    BY <1>3 DEF CallThrows, Stop
  <2>3. faults' \in 0..MaxFaults
    BY <1>1, <2>2, IssuesAssumption
  <2>4. StoreInv' /\ RequestsOK' /\ Complete'
    BY <1>1, <1>3, <2>1, StepKeeps, FailComplete
  <2>5. QED
    BY <1>1, <2>2, <2>3, <2>4 DEF IssuesInv
<1>4. ASSUME NEW j \in Jobs, RunJob(j)
      PROVE  IssuesInv'
  <2>1. StoreInv' /\ RequestsOK' /\ Evolves({})
    BY <1>1, <1>4, RunJobStep
  <2>2. UNCHANGED <<req, consumed, wanted, changes, faults>>
    BY <1>4 DEF RunJob, history
  <2>3. QED
    BY <1>1, <2>1, <2>2, AroundComplete DEF IssuesInv
<1>5. CASE Change
  <2>1. changes' \in 0..MaxChanges /\ faults' = faults
    BY <1>1, <1>5, IssuesAssumption DEF Change
  <2>2. StoreInv' /\ RequestsOK' /\ Evolves({})
    BY <1>1, <1>5, ChangeStep
  <2>3. UNCHANGED <<req, consumed, wanted>>
    BY <1>5 DEF Change, analysis
  <2>4. QED
    BY <1>1, <2>1, <2>2, <2>3, AroundComplete DEF IssuesInv
<1>6. CASE UNCHANGED vars
  <2>1. UNCHANGED <<tables, analysis, history>> /\ UNCHANGED req
    BY <1>6 DEF vars, tables, analysis, history
  <2>2. StoreInv' /\ RequestsOK' /\ Evolves({})
    BY <1>1, <2>1, NoWrite, RequestsKept
  <2>3. UNCHANGED <<req, consumed, wanted, changes, faults>>
    BY <1>6 DEF vars
  <2>4. QED
    BY <1>1, <2>2, <2>3, AroundComplete DEF IssuesInv
<1>7. QED
  BY <1>2, <1>3, <1>4, <1>5, <1>6 DEF Next

-----------------------------------------------------------------------------
(* The theorems.                                                           *)

\* The rows and jobs are well formed and what each request holds agrees with
\* them: the finding a request is at is the first of its job that has no row yet,
\* unless the job is contended, and those before it are stored with their links,
\* unless the job is withdrawn (consume.post.ts, analyze.post.ts, issues.ts).
THEOREM IssuesInvariant == Spec => []IssuesInv
BY InitIssues, NextIssues, PTL DEF Spec

\* The rows, jobs and markers are well formed; every link joins an issue with a
\* document or a rule that is there, also when they are deleted while a request
\* links them, and nothing is left of a deleted project.
THEOREM IssuesTypeOK == Spec => []TypeOK
<1>1. IssuesInv => TypeOK
  BY DEF IssuesInv, StoreInv, TablesOK, JobsOK, TypeOK
<1>2. QED
  BY <1>1, IssuesInvariant, PTL

\* A marked job has, for each finding that a request which marked it had selected,
\* a row with documents and rules; unless rows or links of the job were taken away
\* while it was being stored or since (consume.post.ts stores each finding with its
\* links in turn and writes the marker last).
THEOREM MarkedJobsAreComplete == Spec => []MarkedIsComplete
<1>1. IssuesInv => MarkedIsComplete
  BY DEF IssuesInv, Complete
<1>2. QED
  BY <1>1, IssuesInvariant, PTL

\* However often consuming a job failed, was stopped or was repeated, each of its
\* findings has at most one row, unless two requests stored it at a time or it
\* was added to what was there.
THEOREM FindingsAreStoredOnce == Spec => []NoDuplicates
<1>1. ASSUME IssuesInv, NEW j \in Jobs \ contended, NEW k \in 1..Len(Findings)
      PROVE  Cardinality({i \in Ids : issues[i].job = j /\ issues[i].finding = k}) <= 1
  <2> DEFINE T == {i \in Ids : issues[i].job = j /\ issues[i].finding = k}
  <2>1. \A a, b \in T : a = b
    BY <1>1 DEF IssuesInv, StoreInv, RowsOnce
  <2> HIDE DEF T
  <2>2. Cardinality(T) <= 1
    <3>1. CASE T = {}
      BY <3>1, FS_EmptySet
    <3>2. CASE T # {}
      <4>1. PICK a \in T : TRUE
        BY <3>2
      <4>2. T = {a}
        BY <2>1, <4>1
      <4>3. Cardinality({a}) = 1
        BY FS_Singleton
      <4>4. QED
        BY <4>2, <4>3
    <3>3. QED
      BY <3>1, <3>2
  <2>3. QED
    BY <2>2 DEF T
<1>2. IssuesInv => NoDuplicates
  BY <1>1 DEF NoDuplicates
<1>3. QED
  BY <1>2, IssuesInvariant, PTL

\* What a provider is asked for fits its context window, with the slack where the
\* window is larger than it (analyze.post.ts).
THEOREM BudgetsFit == Spec => []BudgetFits
<1>1. IssuesInv => \A r \in Requests : Fits(req[r].budget)
  BY DEF IssuesInv, RequestsOK, Good
<1>2. IssuesInv => BudgetFits
  BY <1>1 DEF BudgetFits, Fits
<1>3. QED
  BY <1>2, IssuesInvariant, PTL

\* An answer is read in the format of the provider that gave it, also when the
\* marker with the provider is missing and the url has to tell.
THEOREM AnswersAreReadAsWritten == Spec => []ReadAsWritten
<1>1. IssuesInv => \A r \in Requests : Base(req[r], jobs, nextJob)
  BY DEF IssuesInv, RequestsOK, Good
<1>2. IssuesInv => ReadAsWritten
  BY <1>1 DEF ReadAsWritten, At, Base
<1>3. QED
  BY <1>2, IssuesInvariant, PTL
==============================================================================
