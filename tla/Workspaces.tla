----------------------------- MODULE Workspaces -----------------------------
(***************************************************************************)
(* The document server's workspaces, projects, rules and rule sets: the    *)
(* tables of database/workspaces/schema.ts and the request handlers that   *)
(* read and write them.                                                    *)
(*                                                                         *)
(* A handler awaits one D1 statement at a time, so one action is one       *)
(* statement with the code up to the next one; the statements of the       *)
(* requests in flight interleave.  A statement is atomic and enforces the  *)
(* foreign keys, the cascades and the unique indexes of the schema.  Any   *)
(* call may throw, and a worker may be stopped between two statements.     *)
(*                                                                         *)
(* A request is one that passed authentication and validation: what those  *)
(* refuse touches no table.  Names, descriptions and time stamps are left  *)
(* out; a rule keeps its code, which a unique index constrains.            *)
(***************************************************************************)
EXTENDS Integers, FiniteSets

CONSTANTS
    Users,       \* the normalized e-mail addresses
    Codes,       \* the codes of rules
    Requests,    \* the requests that may be in flight
    Operations,  \* [Requests -> a set of operations]: what a request may be
    MaxId,       \* bound: the largest row id
    MaxFaults,   \* bound: calls that throw, and workers stopped
    NoUser, NoCode,
    Seed         \* the tables at the start

Ids == 1..MaxId
NoRow == [owner |-> NoUser, personal |-> FALSE, all |-> FALSE]
WorkspaceRow == [owner : Users, personal : BOOLEAN, all : BOOLEAN]

\* The tables hold what the foreign keys and the unique index allow.
Consistent(d) ==
    /\ d.workspaces \in [Ids -> WorkspaceRow \cup {NoRow}]
    /\ d.projects \in [Ids -> Ids \cup {0}]
    /\ d.rules \in [Ids -> Codes \cup {NoCode}]
    /\ d.ruleSets \in SUBSET Ids
    /\ d.next \in [{"ws", "project", "rule", "set"} -> 1..MaxId + 1]
    /\ \A i \in Ids :
          /\ d.workspaces[i] # NoRow => i < d.next.ws
          /\ d.projects[i] # 0 => /\ i < d.next.project
                                  /\ d.workspaces[d.projects[i]] # NoRow
          /\ d.rules[i] # NoCode => i < d.next.rule
          /\ i \in d.ruleSets => i < d.next.set
    /\ \A i, j \in Ids : d.rules[i] = d.rules[j] /\ d.rules[i] # NoCode => i = j
    /\ d.wsRules \subseteq
          {i \in Ids : d.workspaces[i] # NoRow} \X {i \in Ids : d.rules[i] # NoCode}
    /\ d.projRules \subseteq
          {i \in Ids : d.projects[i] # 0} \X {i \in Ids : d.rules[i] # NoCode}
    /\ d.projSets \subseteq {i \in Ids : d.projects[i] # 0} \X d.ruleSets
    /\ d.setRules \subseteq d.ruleSets \X {i \in Ids : d.rules[i] # NoCode}

ASSUME WorkspacesAssumption ==
    /\ NoUser \notin Users /\ NoCode \notin Codes
    /\ MaxId \in Nat \ {0} /\ MaxFaults \in Nat
    /\ Consistent(Seed)

VARIABLES
    workspaces,  \* workspaces: a row or NoRow for each id
    projects,    \* projects: the workspace_id of each id, 0 without a row
    rules,       \* rules: the code of each id, NoCode without a row
    ruleSets,    \* rule_sets: the ids present
    wsRules,     \* workspaces_rel_rules
    projRules,   \* projects_rel_rules
    projSets,    \* projects_rel_rule_sets
    setRules,    \* rule_set_rel_rules
    next,        \* sqlite_sequence: the next id of each table
    req,         \* the requests: where each is and its local variables
    attached,    \* history: how rules stayed attached while a request read
    faults

tables == <<workspaces, projects, rules, ruleSets,
            wsRules, projRules, projSets, setRules, next>>
vars == <<workspaces, projects, rules, ruleSets,
          wsRules, projRules, projSets, setRules, next, req, attached, faults>>

Statuses == {0, 200, 201, 400, 403, 404, 409, 500}

\* a, b, code and all come from the path and the body; ws, read and sets are
\* what was selected, new the id inserted; ans is the status of the answer
\* (0: none) and got the ids it lists; dirty marks a request that could not
\* undo what it did.
Idle == [op |-> "none", u |-> NoUser, a |-> 0, b |-> 0, code |-> NoCode,
         all |-> FALSE, pc |-> "idle", ws |-> 0, new |-> 0,
         read |-> {}, sets |-> {}, got |-> {}, dirty |-> FALSE, ans |-> 0]

Init ==
    /\ workspaces = Seed.workspaces /\ projects = Seed.projects
    /\ rules = Seed.rules /\ ruleSets = Seed.ruleSets
    /\ wsRules = Seed.wsRules /\ projRules = Seed.projRules
    /\ projSets = Seed.projSets /\ setRules = Seed.setRules
    /\ next = Seed.next
    /\ req = [r \in Requests |-> Idle]
    /\ attached = [r \in Requests |-> {}]
    /\ faults = 0

-----------------------------------------------------------------------------
(* Moves of a request.                                                     *)

At(r, op, l) == req[r].op = op /\ req[r].pc = l
Goto(r, l) == req' = [req EXCEPT ![r].pc = l]

\* The answer is sent; got is what it lists.
Answer(r, status, got) ==
    req' = [req EXCEPT ![r] = [Idle EXCEPT !.op = req[r].op, !.new = req[r].new,
                                           !.pc = "done", !.ans = status, !.got = got]]

(* Statements.  An insert takes the next id of an AUTOINCREMENT column: an *)
(* id is never used twice.                                                 *)

InsertWorkspace(row) ==
    /\ next.ws <= MaxId
    /\ workspaces' = [workspaces EXCEPT ![next.ws] = row]
    /\ next' = [next EXCEPT !.ws = @ + 1]
    /\ UNCHANGED <<projects, rules, ruleSets,
                   wsRules, projRules, projSets, setRules>>

InsertProject(w) ==
    /\ next.project <= MaxId
    /\ projects' = [projects EXCEPT ![next.project] = w]
    /\ next' = [next EXCEPT !.project = @ + 1]
    /\ UNCHANGED <<workspaces, rules, ruleSets,
                   wsRules, projRules, projSets, setRules>>

\* ON DELETE cascade takes the projects and the links with the workspace.
DeleteWorkspaceRow(w) ==
    LET gone == {p \in Ids : projects[p] = w}
    IN  /\ workspaces' = [workspaces EXCEPT ![w] = NoRow]
        /\ projects' = [p \in Ids |-> IF p \in gone THEN 0 ELSE projects[p]]
        /\ wsRules' = {l \in wsRules : l[1] # w}
        /\ projRules' = {l \in projRules : l[1] \notin gone}
        /\ projSets' = {l \in projSets : l[1] \notin gone}
        /\ UNCHANGED <<rules, ruleSets, setRules, next>>

DeleteProjectRow_mutant_nocascade(p) ==
    /\ projects' = [projects EXCEPT ![p] = 0]
    /\ projRules' = {l \in projRules : l[1] # p}
    /\ UNCHANGED <<workspaces, rules, ruleSets, wsRules, projSets, setRules, next>>

DeleteProjectRow(p) ==
    /\ projects' = [projects EXCEPT ![p] = 0]
    /\ projRules' = {l \in projRules : l[1] # p}
    /\ projSets' = {l \in projSets : l[1] # p}
    /\ UNCHANGED <<workspaces, rules, ruleSets, wsRules, setRules, next>>

DeleteRuleRow(x) ==
    /\ rules' = [rules EXCEPT ![x] = NoCode]
    /\ wsRules' = {l \in wsRules : l[2] # x}
    /\ projRules' = {l \in projRules : l[2] # x}
    /\ setRules' = {l \in setRules : l[2] # x}
    /\ UNCHANGED <<workspaces, projects, ruleSets, projSets, next>>

DeleteRuleSetRow(s) ==
    /\ ruleSets' = ruleSets \ {s}
    /\ setRules' = {l \in setRules : l[1] # s}
    /\ projSets' = {l \in projSets : l[2] # s}
    /\ UNCHANGED <<workspaces, projects, rules, wsRules, projRules, next>>

IsRule(x) == x \in Ids /\ rules[x] # NoCode
IsProject(p) == p \in Ids /\ projects[p] # 0

\* UNIQUE(code) of an insert or update: no other row has the code.
CodeFree(x, code) == \A y \in Ids : rules[y] = code => y = x

-----------------------------------------------------------------------------
(* Access.                                                                 *)

canAccessWorkspace_mutant_any(w, u) == w \in Ids /\ workspaces[w] # NoRow

canAccessWorkspace(w, u) ==
    w \in Ids /\ workspaces[w] # NoRow /\ workspaces[w].owner = u

getAccessibleWorkspaceIds(u) == {w \in Ids : workspaces[w].owner = u}

assertWorkspaceAccess(r, w, then) ==
    /\ IF canAccessWorkspace(w, req[r].u)
       THEN Goto(r, then)
       ELSE Answer(r, 403, {})
    /\ UNCHANGED tables

\* The project's workspace is read first, the workspace's owner next.
assertProjectAccess(r, op, then) ==
    LET rq == req[r]
    IN  /\ UNCHANGED tables
        /\ \/ /\ At(r, op, "access")
              /\ IF IsProject(rq.a)
                 THEN req' = [req EXCEPT ![r].pc = "owner", ![r].ws = projects[rq.a]]
                 ELSE Answer(r, 403, {})
           \/ /\ At(r, op, "owner")
              /\ IF canAccessWorkspace(rq.ws, rq.u)
                 THEN Goto(r, then)
                 ELSE Answer(r, 403, {})

\* The guard of the global tables: the user has at least one workspace.
RequireAnyWorkspace(r, then) ==
    /\ IF getAccessibleWorkspaceIds(req[r].u) # {}
       THEN Goto(r, then)
       ELSE Answer(r, 403, {})
    /\ UNCHANGED tables

\* A row selected by its id; without one the handler answers 404.
Exists(r, present, then) ==
    /\ IF present THEN Goto(r, then) ELSE Answer(r, 404, {})
    /\ UNCHANGED tables

\* An insert into a link table: 500 when a foreign key fails, 409 when the
\* unique index does.
InsertLink(r, link, linked, present) ==
    IF present /\ link \notin linked
    THEN Answer(r, 201, {})
    ELSE Answer(r, IF present THEN 409 ELSE 500, {})

-----------------------------------------------------------------------------
(* The personal workspace.                                                 *)

\* ensurePersonalWorkspace, before the handler proper at `then`.
ensurePersonalWorkspace(r, then) ==
    LET rq == req[r]
    IN  \/ /\ rq.pc = "ensure"
           /\ IF \E w \in Ids : workspaces[w].owner = rq.u /\ workspaces[w].personal
              THEN Goto(r, then)
              ELSE Goto(r, "createPersonal")
           /\ UNCHANGED tables
        \/ /\ rq.pc = "createPersonal"
           /\ InsertWorkspace([owner |-> rq.u, personal |-> TRUE, all |-> TRUE])
           /\ req' = [req EXCEPT ![r].pc = "defaultProject", ![r].new = next.ws]
        \/ /\ rq.pc = "defaultProject"
           /\ IF workspaces[rq.new] # NoRow
              THEN InsertProject(rq.new)
              ELSE UNCHANGED tables
           /\ req' = [req EXCEPT ![r].pc = then, ![r].new = 0]

\* Login, and the middleware of the document routes.
Login(r) ==
    /\ req[r].op = "Login"
    /\ \/ ensurePersonalWorkspace(r, "in")
       \/ /\ req[r].pc = "in"
          /\ Answer(r, 200, {})
          /\ UNCHANGED tables

-----------------------------------------------------------------------------
(* Workspaces.                                                             *)

\* The ids are selected first; no id, no second query.
ListWorkspaces(r) ==
    LET rq == req[r]
    IN  /\ rq.op = "ListWorkspaces"
        /\ \/ ensurePersonalWorkspace(r, "ids")
           \/ /\ rq.pc = "ids"
              /\ IF getAccessibleWorkspaceIds(rq.u) = {}
                 THEN Answer(r, 200, {})
                 ELSE Goto(r, "rows")
              /\ UNCHANGED tables
           \/ /\ rq.pc = "rows"
              /\ Answer(r, 200, getAccessibleWorkspaceIds(rq.u))
              /\ UNCHANGED tables

CreateWorkspace(r) ==
    LET rq == req[r]
    IN  /\ rq.op = "CreateWorkspace"
        /\ \/ ensurePersonalWorkspace(r, "insert")
           \/ /\ rq.pc = "insert"
              /\ InsertWorkspace([owner |-> rq.u, personal |-> FALSE, all |-> rq.all])
              /\ Answer(r, 201, {next.ws})

GetWorkspace(r) ==
    LET rq == req[r]
    IN  \/ At(r, "GetWorkspace", "access") /\ assertWorkspaceAccess(r, rq.a, "select")
        \/ /\ At(r, "GetWorkspace", "select")
           /\ IF workspaces[rq.a] = NoRow THEN Answer(r, 404, {}) ELSE Answer(r, 200, {rq.a})
           /\ UNCHANGED tables

PatchWorkspace(r) ==
    LET rq == req[r]
    IN  \/ At(r, "PatchWorkspace", "access") /\ assertWorkspaceAccess(r, rq.a, "update")
        \/ /\ At(r, "PatchWorkspace", "update")
           /\ IF workspaces[rq.a] = NoRow
              THEN Answer(r, 404, {}) /\ UNCHANGED tables
              ELSE /\ workspaces' = [workspaces EXCEPT ![rq.a].all = rq.all]
                   /\ Answer(r, 200, {rq.a})
                   /\ UNCHANGED <<projects, rules, ruleSets, wsRules, projRules,
                                  projSets, setRules, next>>

DeleteWorkspace_mutant_personal(r) ==
    LET rq == req[r]
    IN  \/ At(r, "DeleteWorkspace", "access") /\ assertWorkspaceAccess(r, rq.a, "delete")
        \/ /\ At(r, "DeleteWorkspace", "delete")
           /\ DeleteWorkspaceRow(rq.a)
           /\ Answer(r, 200, {})

\* The owner is compared once more, and a personal workspace is kept.
DeleteWorkspace(r) ==
    LET rq == req[r]
    IN  \/ At(r, "DeleteWorkspace", "access") /\ assertWorkspaceAccess(r, rq.a, "select")
        \/ /\ At(r, "DeleteWorkspace", "select")
           /\ IF workspaces[rq.a] = NoRow THEN Answer(r, 404, {})
              ELSE IF workspaces[rq.a].owner # rq.u THEN Answer(r, 403, {})
              ELSE IF workspaces[rq.a].personal THEN Answer(r, 400, {})
              ELSE Goto(r, "delete")
           /\ UNCHANGED tables
        \/ /\ At(r, "DeleteWorkspace", "delete")
           /\ DeleteWorkspaceRow(rq.a)
           /\ Answer(r, 200, {})

RollbackClone_mutant_nodelete(r) == Answer(r, 500, {}) /\ UNCHANGED tables

\* The handler's catch block, once createdWorkspaceId is set.
RollbackClone(r) ==
    /\ DeleteWorkspaceRow(req[r].new)
    /\ Answer(r, 500, {})

\* The copy is inserted before the rules of the source are read; all their
\* links go in with one statement.
CloneWorkspace(r) ==
    LET rq == req[r]
    IN  /\ rq.op = "CloneWorkspace"
        /\ \/ rq.pc = "access" /\ assertWorkspaceAccess(r, rq.a, "select")
           \/ /\ rq.pc = "select"
              /\ IF workspaces[rq.a] = NoRow
                 THEN Answer(r, 404, {})
                 ELSE req' = [req EXCEPT ![r].pc = "insert", ![r].all = workspaces[rq.a].all]
              /\ UNCHANGED tables
           \/ /\ rq.pc = "insert"
              /\ InsertWorkspace([owner |-> rq.u, personal |-> FALSE, all |-> rq.all])
              /\ req' = [req EXCEPT ![r].pc = "rules", ![r].new = next.ws]
           \/ /\ rq.pc = "rules"
              /\ LET found == {l[2] : l \in {k \in wsRules : k[1] = rq.a}}
                 IN  IF found = {}
                     THEN Answer(r, 201, {rq.new})
                     ELSE req' = [req EXCEPT ![r].pc = "links", ![r].read = found]
              /\ UNCHANGED tables
           \/ /\ rq.pc = "links"
              /\ IF /\ workspaces[rq.new] # NoRow
                    /\ \A x \in rq.read : IsRule(x) /\ <<rq.new, x>> \notin wsRules
                 THEN /\ wsRules' = wsRules \cup ({rq.new} \X rq.read)
                      /\ Answer(r, 201, {rq.new})
                      /\ UNCHANGED <<workspaces, projects, rules, ruleSets,
                                     projRules, projSets, setRules, next>>
                 ELSE Goto(r, "cleanup") /\ UNCHANGED tables
           \/ rq.pc = "cleanup" /\ RollbackClone(r)

ListWorkspaceRules(r) ==
    LET rq == req[r]
    IN  \/ At(r, "ListWorkspaceRules", "access") /\ assertWorkspaceAccess(r, rq.a, "select")
        \/ /\ At(r, "ListWorkspaceRules", "select")
           /\ Answer(r, 200, {l[2] : l \in {k \in wsRules : k[1] = rq.a}})
           /\ UNCHANGED tables

LinkWorkspaceRule(r) ==
    LET rq == req[r]
    IN  \/ At(r, "LinkWorkspaceRule", "access") /\ assertWorkspaceAccess(r, rq.a, "rule")
        \/ At(r, "LinkWorkspaceRule", "rule") /\ Exists(r, IsRule(rq.b), "insert")
        \/ /\ At(r, "LinkWorkspaceRule", "insert")
           /\ LET present == workspaces[rq.a] # NoRow /\ IsRule(rq.b)
              IN  /\ InsertLink(r, <<rq.a, rq.b>>, wsRules, present)
                  /\ wsRules' = IF present THEN wsRules \cup {<<rq.a, rq.b>>} ELSE wsRules
           /\ UNCHANGED <<workspaces, projects, rules, ruleSets,
                          projRules, projSets, setRules, next>>

UnlinkWorkspaceRule(r) ==
    LET rq == req[r]
    IN  \/ At(r, "UnlinkWorkspaceRule", "access") /\ assertWorkspaceAccess(r, rq.a, "delete")
        \/ /\ At(r, "UnlinkWorkspaceRule", "delete")
           /\ wsRules' = wsRules \ {<<rq.a, rq.b>>}
           /\ Answer(r, 200, {})
           /\ UNCHANGED <<workspaces, projects, rules, ruleSets,
                          projRules, projSets, setRules, next>>

-----------------------------------------------------------------------------
(* Projects.                                                               *)

\* With a workspace_id (a # 0) its owner is checked; without one the ids of
\* the user's workspaces are selected first.
ListProjects(r) ==
    LET rq == req[r]
        In(ws) == {p \in Ids : projects[p] \in ws}
    IN  \/ /\ At(r, "ListProjects", "access")
           /\ rq.a # 0
           /\ IF canAccessWorkspace(rq.a, rq.u)
              THEN req' = [req EXCEPT ![r].pc = "select", ![r].read = {rq.a}]
              ELSE Answer(r, 403, {})
           /\ UNCHANGED tables
        \/ /\ At(r, "ListProjects", "access")
           /\ rq.a = 0
           /\ LET ids == getAccessibleWorkspaceIds(rq.u)
              IN  IF ids = {} THEN Answer(r, 200, {})
                  ELSE req' = [req EXCEPT ![r].pc = "select", ![r].read = ids]
           /\ UNCHANGED tables
        \/ /\ At(r, "ListProjects", "select")
           /\ Answer(r, 200, In(rq.read))
           /\ UNCHANGED tables

\* The project starts with the rules of its workspace.  Nothing is undone
\* when a later statement fails.
CreateProject(r) ==
    LET rq == req[r]
    IN  /\ rq.op = "CreateProject"
        /\ \/ rq.pc = "access" /\ assertWorkspaceAccess(r, rq.a, "insert")
           \/ /\ rq.pc = "insert"
              /\ IF workspaces[rq.a] = NoRow
                 THEN Answer(r, 500, {}) /\ UNCHANGED tables
                 ELSE /\ InsertProject(rq.a)
                      /\ req' = [req EXCEPT ![r].pc = "rules", ![r].new = next.project]
           \/ /\ rq.pc = "rules"
              /\ LET found == {l[2] : l \in {k \in wsRules : k[1] = rq.a}}
                 IN  IF found = {}
                     THEN Goto(r, "count")
                     ELSE req' = [req EXCEPT ![r].pc = "links", ![r].read = found]
              /\ UNCHANGED tables
           \/ /\ rq.pc = "links"
              /\ IF /\ IsProject(rq.new)
                    /\ \A x \in rq.read : IsRule(x) /\ <<rq.new, x>> \notin projRules
                 THEN /\ projRules' = projRules \cup ({rq.new} \X rq.read)
                      /\ Goto(r, "count")
                      /\ UNCHANGED <<workspaces, projects, rules, ruleSets,
                                     wsRules, projSets, setRules, next>>
                 ELSE Answer(r, 500, {}) /\ UNCHANGED tables
           \/ /\ rq.pc = "count"
              /\ Answer(r, 201, {rq.new})
              /\ UNCHANGED tables

GetProject(r) ==
    LET rq == req[r]
    IN  \/ assertProjectAccess(r, "GetProject", "select")
        \/ /\ At(r, "GetProject", "select")
           /\ IF IsProject(rq.a) THEN Answer(r, 200, {rq.a}) ELSE Answer(r, 404, {})
           /\ UNCHANGED tables

\* The name and the description are not kept; the row is selected again for
\* the answer.
PatchProject(r) ==
    LET rq == req[r]
    IN  \/ assertProjectAccess(r, "PatchProject", "update")
        \/ At(r, "PatchProject", "update") /\ Exists(r, IsProject(rq.a), "select")
        \/ /\ At(r, "PatchProject", "select")
           /\ IF IsProject(rq.a) THEN Answer(r, 200, {rq.a}) ELSE Answer(r, 404, {})
           /\ UNCHANGED tables

DeleteProject(r) ==
    LET rq == req[r]
    IN  \/ assertProjectAccess(r, "DeleteProject", "select")
        \/ At(r, "DeleteProject", "select") /\ Exists(r, IsProject(rq.a), "delete")
        \/ /\ At(r, "DeleteProject", "delete")
           /\ DeleteProjectRow(rq.a)
           /\ Answer(r, 200, {})

ListProjectRules(r) ==
    LET rq == req[r]
    IN  \/ assertProjectAccess(r, "ListProjectRules", "select")
        \/ /\ At(r, "ListProjectRules", "select")
           /\ Answer(r, 200, {l[2] : l \in {k \in projRules : k[1] = rq.a}})
           /\ UNCHANGED tables

LinkProjectRule(r) ==
    LET rq == req[r]
    IN  \/ assertProjectAccess(r, "LinkProjectRule", "project")
        \/ At(r, "LinkProjectRule", "project") /\ Exists(r, IsProject(rq.a), "rule")
        \/ At(r, "LinkProjectRule", "rule") /\ Exists(r, IsRule(rq.b), "insert")
        \/ /\ At(r, "LinkProjectRule", "insert")
           /\ LET present == IsProject(rq.a) /\ IsRule(rq.b)
              IN  /\ InsertLink(r, <<rq.a, rq.b>>, projRules, present)
                  /\ projRules' = IF present THEN projRules \cup {<<rq.a, rq.b>>} ELSE projRules
           /\ UNCHANGED <<workspaces, projects, rules, ruleSets,
                          wsRules, projSets, setRules, next>>

UnlinkProjectRule(r) ==
    LET rq == req[r]
    IN  \/ assertProjectAccess(r, "UnlinkProjectRule", "delete")
        \/ /\ At(r, "UnlinkProjectRule", "delete")
           /\ projRules' = projRules \ {<<rq.a, rq.b>>}
           /\ Answer(r, 200, {})
           /\ UNCHANGED <<workspaces, projects, rules, ruleSets,
                          wsRules, projSets, setRules, next>>

ListProjectRuleSets(r) ==
    LET rq == req[r]
    IN  \/ assertProjectAccess(r, "ListProjectRuleSets", "select")
        \/ /\ At(r, "ListProjectRuleSets", "select")
           /\ Answer(r, 200, {l[2] : l \in {k \in projSets : k[1] = rq.a}})
           /\ UNCHANGED tables

LinkProjectRuleSet(r) ==
    LET rq == req[r]
    IN  \/ assertProjectAccess(r, "LinkProjectRuleSet", "project")
        \/ At(r, "LinkProjectRuleSet", "project") /\ Exists(r, IsProject(rq.a), "set")
        \/ At(r, "LinkProjectRuleSet", "set") /\ Exists(r, rq.b \in ruleSets, "insert")
        \/ /\ At(r, "LinkProjectRuleSet", "insert")
           /\ LET present == IsProject(rq.a) /\ rq.b \in ruleSets
              IN  /\ InsertLink(r, <<rq.a, rq.b>>, projSets, present)
                  /\ projSets' = IF present THEN projSets \cup {<<rq.a, rq.b>>} ELSE projSets
           /\ UNCHANGED <<workspaces, projects, rules, ruleSets,
                          wsRules, projRules, setRules, next>>

UnlinkProjectRuleSet(r) ==
    LET rq == req[r]
    IN  \/ assertProjectAccess(r, "UnlinkProjectRuleSet", "delete")
        \/ /\ At(r, "UnlinkProjectRuleSet", "delete")
           /\ projSets' = projSets \ {<<rq.a, rq.b>>}
           /\ Answer(r, 200, {})
           /\ UNCHANGED <<workspaces, projects, rules, ruleSets,
                          wsRules, projRules, setRules, next>>

getEffectiveRulesForProject_mutant_either(r) ==
    LET rq == req[r]
        direct == {l[2] : l \in {k \in projRules : k[1] = rq.a}}
    IN  /\ UNCHANGED tables
        /\ \/ /\ rq.pc = "direct"
              /\ IF direct # {}
                 THEN Answer(r, 200, direct)
                 ELSE Goto(r, "sets")
           \/ /\ rq.pc = "sets"
              /\ req' = [req EXCEPT ![r].pc = "setRules",
                             ![r].sets = {l[2] : l \in {k \in projSets : k[1] = rq.a}}]
           \/ /\ rq.pc = "setRules"
              /\ Answer(r, 200, {l[2] : l \in {k \in setRules : k[1] \in rq.sets}})

\* Three queries: the rules linked directly, the ids of the rule sets linked,
\* the rules of those sets.
getEffectiveRulesForProject(r) ==
    LET rq == req[r]
        sets == {l[2] : l \in {k \in projSets : k[1] = rq.a}}
    IN  /\ UNCHANGED tables
        /\ \/ /\ rq.pc = "direct"
              /\ req' = [req EXCEPT ![r].pc = "sets",
                             ![r].read = {l[2] : l \in {k \in projRules : k[1] = rq.a}}]
           \/ /\ rq.pc = "sets"
              /\ IF sets = {}
                 THEN Answer(r, 200, rq.read)
                 ELSE req' = [req EXCEPT ![r].pc = "setRules", ![r].sets = sets]
           \/ /\ rq.pc = "setRules"
              /\ Answer(r, 200, rq.read \cup
                                {l[2] : l \in {k \in setRules : k[1] \in rq.sets}})

EffectiveRules(r) ==
    \/ assertProjectAccess(r, "EffectiveRules", "direct")
    \/ req[r].op = "EffectiveRules" /\ getEffectiveRulesForProject(r)

-----------------------------------------------------------------------------
(* Rules and rule sets, which are global.                                  *)

\* The workspace of the query (a # 0) is checked, then any workspace will do.
ListRules(r) ==
    LET rq == req[r]
    IN  \/ /\ At(r, "ListRules", "access")
           /\ IF rq.a # 0 /\ ~canAccessWorkspace(rq.a, rq.u)
              THEN Answer(r, 403, {})
              ELSE Goto(r, "any")
           /\ UNCHANGED tables
        \/ /\ At(r, "ListRules", "any")
           /\ IF getAccessibleWorkspaceIds(rq.u) = {}
              THEN Answer(r, 200, {})
              ELSE Goto(r, "select")
           /\ UNCHANGED tables
        \/ /\ At(r, "ListRules", "select")
           /\ Answer(r, 200, {x \in Ids : IsRule(x)})
           /\ UNCHANGED tables

GetRule(r) ==
    LET rq == req[r]
    IN  \/ At(r, "GetRule", "access") /\ Exists(r, IsRule(rq.a), "any")
        \/ /\ At(r, "GetRule", "any")
           /\ IF getAccessibleWorkspaceIds(rq.u) = {}
              THEN Answer(r, 403, {})
              ELSE Answer(r, 200, {rq.a})
           /\ UNCHANGED tables

CreateRule(r) ==
    LET rq == req[r]
    IN  \/ At(r, "CreateRule", "access") /\ RequireAnyWorkspace(r, "insert")
        \/ /\ At(r, "CreateRule", "insert")
           /\ next.rule <= MaxId
           /\ IF CodeFree(0, rq.code)
              THEN /\ rules' = [rules EXCEPT ![next.rule] = rq.code]
                   /\ next' = [next EXCEPT !.rule = @ + 1]
                   /\ Answer(r, 201, {next.rule})
              ELSE Answer(r, 500, {}) /\ UNCHANGED <<rules, next>>
           /\ UNCHANGED <<workspaces, projects, ruleSets,
                          wsRules, projRules, projSets, setRules>>

\* A rule deleted since it was selected is answered 200 without a row.
PatchRule(r) ==
    LET rq == req[r]
    IN  \/ At(r, "PatchRule", "access") /\ Exists(r, IsRule(rq.a), "any")
        \/ At(r, "PatchRule", "any") /\ RequireAnyWorkspace(r, "update")
        \/ /\ At(r, "PatchRule", "update")
           /\ IF ~IsRule(rq.a)
              THEN Answer(r, 200, {}) /\ UNCHANGED rules
              ELSE IF CodeFree(rq.a, rq.code)
                   THEN /\ rules' = [rules EXCEPT ![rq.a] = rq.code]
                        /\ Answer(r, 200, {rq.a})
                   ELSE Answer(r, 500, {}) /\ UNCHANGED rules
           /\ UNCHANGED <<workspaces, projects, ruleSets,
                          wsRules, projRules, projSets, setRules, next>>

DeleteRule(r) ==
    LET rq == req[r]
    IN  \/ At(r, "DeleteRule", "access") /\ Exists(r, IsRule(rq.a), "any")
        \/ At(r, "DeleteRule", "any") /\ RequireAnyWorkspace(r, "delete")
        \/ /\ At(r, "DeleteRule", "delete")
           /\ DeleteRuleRow(rq.a)
           /\ Answer(r, 200, {})

ListRuleSets(r) ==
    LET rq == req[r]
    IN  \/ /\ At(r, "ListRuleSets", "access")
           /\ IF getAccessibleWorkspaceIds(rq.u) = {}
              THEN Answer(r, 200, {})
              ELSE Goto(r, "select")
           /\ UNCHANGED tables
        \/ /\ At(r, "ListRuleSets", "select")
           /\ Answer(r, 200, ruleSets)
           /\ UNCHANGED tables

GetRuleSet(r) ==
    LET rq == req[r]
    IN  \/ At(r, "GetRuleSet", "access") /\ Exists(r, rq.a \in ruleSets, "any")
        \/ /\ At(r, "GetRuleSet", "any")
           /\ IF getAccessibleWorkspaceIds(rq.u) = {}
              THEN Answer(r, 403, {})
              ELSE Answer(r, 200, {rq.a})
           /\ UNCHANGED tables

CreateRuleSet(r) ==
    \/ At(r, "CreateRuleSet", "access") /\ RequireAnyWorkspace(r, "insert")
    \/ /\ At(r, "CreateRuleSet", "insert")
       /\ next.set <= MaxId
       /\ ruleSets' = ruleSets \cup {next.set}
       /\ next' = [next EXCEPT !.set = @ + 1]
       /\ Answer(r, 201, {next.set})
       /\ UNCHANGED <<workspaces, projects, rules,
                      wsRules, projRules, projSets, setRules>>

\* The columns are not kept; the answer is 200 whether or not a row is left.
PatchRuleSet(r) ==
    LET rq == req[r]
    IN  \/ At(r, "PatchRuleSet", "access") /\ Exists(r, rq.a \in ruleSets, "any")
        \/ At(r, "PatchRuleSet", "any") /\ RequireAnyWorkspace(r, "update")
        \/ /\ At(r, "PatchRuleSet", "update")
           /\ Answer(r, 200, {rq.a} \cap ruleSets)
           /\ UNCHANGED tables

DeleteRuleSet(r) ==
    LET rq == req[r]
    IN  \/ At(r, "DeleteRuleSet", "access") /\ Exists(r, rq.a \in ruleSets, "any")
        \/ At(r, "DeleteRuleSet", "any") /\ RequireAnyWorkspace(r, "delete")
        \/ /\ At(r, "DeleteRuleSet", "delete")
           /\ DeleteRuleSetRow(rq.a)
           /\ Answer(r, 200, {})

ListRuleSetRules(r) ==
    LET rq == req[r]
    IN  \/ At(r, "ListRuleSetRules", "access") /\ Exists(r, rq.a \in ruleSets, "any")
        \/ At(r, "ListRuleSetRules", "any") /\ RequireAnyWorkspace(r, "select")
        \/ /\ At(r, "ListRuleSetRules", "select")
           /\ Answer(r, 200, {l[2] : l \in {k \in setRules : k[1] = rq.a}})
           /\ UNCHANGED tables

LinkRuleSetRule(r) ==
    LET rq == req[r]
    IN  \/ At(r, "LinkRuleSetRule", "access") /\ Exists(r, rq.a \in ruleSets, "any")
        \/ At(r, "LinkRuleSetRule", "any") /\ RequireAnyWorkspace(r, "rule")
        \/ At(r, "LinkRuleSetRule", "rule") /\ Exists(r, IsRule(rq.b), "insert")
        \/ /\ At(r, "LinkRuleSetRule", "insert")
           /\ LET present == rq.a \in ruleSets /\ IsRule(rq.b)
              IN  /\ InsertLink(r, <<rq.a, rq.b>>, setRules, present)
                  /\ setRules' = IF present THEN setRules \cup {<<rq.a, rq.b>>} ELSE setRules
           /\ UNCHANGED <<workspaces, projects, rules, ruleSets,
                          wsRules, projRules, projSets, next>>

UnlinkRuleSetRule(r) ==
    LET rq == req[r]
    IN  \/ At(r, "UnlinkRuleSetRule", "access") /\ Exists(r, rq.a \in ruleSets, "any")
        \/ At(r, "UnlinkRuleSetRule", "any") /\ RequireAnyWorkspace(r, "delete")
        \/ /\ At(r, "UnlinkRuleSetRule", "delete")
           /\ setRules' = setRules \ {<<rq.a, rq.b>>}
           /\ Answer(r, 200, {})
           /\ UNCHANGED <<workspaces, projects, rules, ruleSets,
                          wsRules, projRules, projSets, next>>

-----------------------------------------------------------------------------
(* Requests arrive, calls throw, workers stop.                             *)

\* The first statement of the operations that do not start by an access check.
FirstStep(op) ==
    IF op \in {"Login", "ListWorkspaces", "CreateWorkspace"} THEN "ensure" ELSE "access"

OnWorkspace == {"GetWorkspace", "PatchWorkspace", "DeleteWorkspace", "CloneWorkspace",
                "ListWorkspaceRules", "LinkWorkspaceRule", "UnlinkWorkspaceRule",
                "CreateProject", "ListProjects", "ListRules"}
OnProject == {"GetProject", "PatchProject", "DeleteProject", "ListProjectRules",
              "LinkProjectRule", "UnlinkProjectRule", "ListProjectRuleSets",
              "LinkProjectRuleSet", "UnlinkProjectRuleSet", "EffectiveRules"}
OnRule == {"GetRule", "PatchRule", "DeleteRule"}
OnRuleSet == {"GetRuleSet", "PatchRuleSet", "DeleteRuleSet", "ListRuleSetRules",
              "LinkRuleSetRule", "UnlinkRuleSetRule"}
WithRule == {"LinkWorkspaceRule", "UnlinkWorkspaceRule", "LinkProjectRule",
             "UnlinkProjectRule", "LinkRuleSetRule", "UnlinkRuleSetRule"}
WithRuleSet == {"LinkProjectRuleSet", "UnlinkProjectRuleSet"}
Optional == {"ListProjects", "ListRules"}

\* The ids a request may name: any id given out so far.
Targets(op) ==
    CASE op \in OnWorkspace -> (1..next.ws - 1) \cup (IF op \in Optional THEN {0} ELSE {})
      [] op \in OnProject   -> 1..next.project - 1
      [] op \in OnRule      -> 1..next.rule - 1
      [] op \in OnRuleSet   -> 1..next.set - 1
      [] OTHER              -> {0}
Seconds(op) ==
    CASE op \in WithRule    -> 1..next.rule - 1
      [] op \in WithRuleSet -> 1..next.set - 1
      [] OTHER              -> {0}

Receive(r) ==
    /\ req[r].pc = "idle"
    /\ \E op \in Operations[r], u \in Users :
       \E a \in Targets(op), b \in Seconds(op) :
       \E code \in IF op \in {"CreateRule", "PatchRule"} THEN Codes ELSE {NoCode},
          all \in IF op \in {"CreateWorkspace", "PatchWorkspace"} THEN BOOLEAN ELSE {FALSE} :
          req' = [req EXCEPT ![r] = [Idle EXCEPT !.op = op, !.u = u, !.a = a, !.b = b,
                                                 !.code = code, !.all = all,
                                                 !.pc = FirstStep(op)]]
    /\ UNCHANGED tables

InFlight(r) == req[r].pc \notin {"idle", "done", "in"}

\* A call throws and its statement is not applied.  The middleware and the
\* login go on without the personal workspace; a clone undoes its insert,
\* unless that fails too; every other handler answers 500.
CallThrows(r) ==
    LET rq == req[r]
    IN  /\ InFlight(r) /\ faults < MaxFaults
        /\ faults' = faults + 1
        /\ IF rq.pc \in {"ensure", "createPersonal", "defaultProject"}
           THEN req' = [req EXCEPT ![r].new = 0,
                           ![r].pc = CASE rq.op = "Login"          -> "in"
                                       [] rq.op = "ListWorkspaces" -> "ids"
                                       [] OTHER                    -> "insert"]
           ELSE IF rq.op = "CloneWorkspace" /\ rq.new # 0 /\ rq.pc # "cleanup"
           THEN Goto(r, "cleanup")
           ELSE req' = [req EXCEPT ![r] = [Idle EXCEPT !.op = rq.op,
                                               !.new = rq.new, !.pc = "done", !.ans = 500,
                                               !.dirty = (rq.pc = "cleanup")]]
        /\ UNCHANGED tables

\* The worker is stopped between two statements.
Stop(r) ==
    /\ InFlight(r) /\ faults < MaxFaults
    /\ faults' = faults + 1
    /\ req' = [req EXCEPT ![r] = [Idle EXCEPT !.pc = "done", !.dirty = TRUE]]
    /\ UNCHANGED tables

Handle(r) ==
    \/ Login(r)
    \/ ListWorkspaces(r) \/ CreateWorkspace(r) \/ GetWorkspace(r)
    \/ PatchWorkspace(r) \/ DeleteWorkspace(r) \/ CloneWorkspace(r)
    \/ ListWorkspaceRules(r) \/ LinkWorkspaceRule(r) \/ UnlinkWorkspaceRule(r)
    \/ ListProjects(r) \/ CreateProject(r) \/ GetProject(r)
    \/ PatchProject(r) \/ DeleteProject(r)
    \/ ListProjectRules(r) \/ LinkProjectRule(r) \/ UnlinkProjectRule(r)
    \/ ListProjectRuleSets(r) \/ LinkProjectRuleSet(r) \/ UnlinkProjectRuleSet(r)
    \/ EffectiveRules(r)
    \/ ListRules(r) \/ GetRule(r) \/ CreateRule(r) \/ PatchRule(r) \/ DeleteRule(r)
    \/ ListRuleSets(r) \/ GetRuleSet(r) \/ CreateRuleSet(r)
    \/ PatchRuleSet(r) \/ DeleteRuleSet(r)
    \/ ListRuleSetRules(r) \/ LinkRuleSetRule(r) \/ UnlinkRuleSetRule(r)

\* How the rules of a project are attached: <<rule, 0>> directly, <<rule, set>>
\* by a rule set.
Paths(p) ==
    {<<l[2], 0>> : l \in {k \in projRules : k[1] = p}} \cup
    {<<l[2], l[1]>> : l \in {k \in setRules : <<p, k[1]>> \in projSets}}

\* History: the paths that were there at every instant since the request was
\* about to read the effective rules.
Watch ==
    attached' = [r \in Requests |->
        IF req'[r].op # "EffectiveRules" THEN {}
        ELSE IF req'[r].pc = "direct" /\ req[r].pc # "direct" THEN Paths(req[r].a)'
        ELSE IF req'[r].pc \in {"direct", "sets", "setRules"}
        THEN attached[r] \cap Paths(req[r].a)'
        ELSE {}]

Next ==
    /\ \E r \in Requests :
          \/ Receive(r) /\ UNCHANGED faults
          \/ Handle(r) /\ UNCHANGED faults
          \/ CallThrows(r)
          \/ Stop(r)
    /\ Watch

Spec == Init /\ [][Next]_vars

-----------------------------------------------------------------------------
(* Properties.                                                             *)

\* The requests are well formed and the tables hold what the schema's foreign
\* keys and unique index promise: every project is in a workspace, every link
\* joins two rows, no two rules share a code, and no row has an id that is yet
\* to be given out.
TypeOK ==
    /\ Consistent([workspaces |-> workspaces, projects |-> projects, rules |-> rules,
                   ruleSets |-> ruleSets, wsRules |-> wsRules, projRules |-> projRules,
                   projSets |-> projSets, setRules |-> setRules, next |-> next])
    /\ \A r \in Requests :
          /\ req[r].u \in Users \cup {NoUser}
          /\ req[r].ans \in Statuses
          /\ req[r].new \in Ids \cup {0}
    /\ faults \in 0..MaxFaults

\* The project and workspace a link or project row is under.
ProjectsOf(w) == {p \in Ids : projects[p] = w}

\* What is under workspace w, apart from the links that go with a rule or a
\* rule set that is deleted.
Under(w) ==
    <<workspaces[w], ProjectsOf(w),
      {l \in wsRules : l[1] = w},
      {l \in projRules : l[1] \in ProjectsOf(w)},
      {l \in projSets : l[1] \in ProjectsOf(w)}>>

\* Only the owner's requests change a workspace, its projects and their links:
\* another user's rows are only ever touched by the deletion of a global rule
\* or rule set.
OwnerWrites ==
    \A w \in Ids :
        (/\ workspaces[w] # NoRow
         /\ Under(w) # Under(w)'
         /\ rules' = rules /\ ruleSets' = ruleSets)
        => \E r \in Requests : req'[r] # req[r] /\ req[r].u = workspaces[w].owner

\* What a request is answered about workspaces and projects is under workspaces
\* its user owns at that instant.
OwnerReads ==
    \A r \in Requests :
        (req[r].pc # "done" /\ req'[r].ans \in {200, 201}) =>
           LET u == req[r].u
               Mine(w) == workspaces[w] # NoRow => workspaces[w].owner = u
           IN  /\ req[r].op \in {"ListWorkspaces", "GetWorkspace", "PatchWorkspace"} =>
                     \A w \in req'[r].got : Mine(w)
               /\ req[r].op \in {"ListProjects", "GetProject", "PatchProject"} =>
                     \A p \in req'[r].got : projects[p] # 0 /\ Mine(projects[p])
               /\ (req[r].op \in OnProject /\ projects[req[r].a] # 0) =>
                     Mine(projects[req[r].a])
               /\ (req[r].op \in OnWorkspace /\ req[r].a # 0) => Mine(req[r].a)

\* A workspace is read and written by its owner only, although every access
\* check is statements away from the read or the write it allows.
OwnerOnly == [][OwnerWrites /\ OwnerReads]_vars

\* A user who has a personal workspace always has one: nothing deletes it, in
\* particular not the rollback of a clone and not a delete whose check is stale.
PersonalKept ==
    [][\A u \in Users :
          (\E w \in Ids : workspaces[w].owner = u /\ workspaces[w].personal) =>
          (\E w \in Ids : workspaces[w].owner = u /\ workspaces[w].personal)']_vars

\* A clone that is answered with an error has left no workspace behind, unless
\* the worker was stopped or the rollback failed as well.
FailedCloneLeavesNothing ==
    \A r \in Requests :
        (/\ req[r].op = "CloneWorkspace" /\ req[r].pc = "done"
         /\ req[r].new # 0 /\ req[r].ans # 201 /\ ~req[r].dirty)
        => workspaces[req[r].new] = NoRow

\* The effective rules are read with three queries, between which links come
\* and go: a rule that stayed attached in one and the same way throughout is in
\* the answer.
EffectiveComplete ==
    [][\A r \in Requests :
          (req[r].op = "EffectiveRules" /\ req[r].pc # "done" /\ req'[r].ans = 200) =>
             {x[1] : x \in attached[r]} \subseteq req'[r].got]_vars
=============================================================================
