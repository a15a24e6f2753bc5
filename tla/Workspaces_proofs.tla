------------------------- MODULE Workspaces_proofs --------------------------
(***************************************************************************)
(* Proofs about Workspaces, for any users, rules and requests in flight:   *)
(* the tables keep what the schema promises, only the owner of a workspace *)
(* reads and writes what is under it, a personal workspace stays, and a    *)
(* clone that fails leaves nothing.                                        *)
(***************************************************************************)
EXTENDS Workspaces, TLAPS

-----------------------------------------------------------------------------
(* The inductive invariant.                                                *)

\* The tables are Consistent, table by table.
Rows ==
    /\ workspaces \in [Ids -> WorkspaceRow \cup {NoRow}]
    /\ projects \in [Ids -> Ids \cup {0}]
    /\ rules \in [Ids -> Codes \cup {NoCode}]
    /\ ruleSets \subseteq Ids
    /\ next \in [{"ws", "project", "rule", "set"} -> 1 .. MaxId + 1]

Given ==
    \A i \in Ids :
       /\ workspaces[i] # NoRow => i < next.ws
       /\ projects[i] # 0 => i < next.project /\ workspaces[projects[i]] # NoRow
       /\ rules[i] # NoCode => i < next.rule
       /\ i \in ruleSets => i < next.set

UniqueCodes ==
    \A i, j \in Ids : rules[i] = rules[j] /\ rules[i] # NoCode => i = j

Linked ==
    /\ wsRules \subseteq
          {i \in Ids : workspaces[i] # NoRow} \X {i \in Ids : rules[i] # NoCode}
    /\ projRules \subseteq
          {i \in Ids : projects[i] # 0} \X {i \in Ids : rules[i] # NoCode}
    /\ projSets \subseteq {i \in Ids : projects[i] # 0} \X ruleSets
    /\ setRules \subseteq ruleSets \X {i \in Ids : rules[i] # NoCode}

TablesOK == Rows /\ Given /\ UniqueCodes /\ Linked

Fields == {"op", "u", "a", "b", "code", "all", "pc", "ws", "new", "read",
           "sets", "got", "dirty", "ans"}
Ensuring == {"Login", "ListWorkspaces", "CreateWorkspace"}

\* What a request was sent with; N is the next id of each table.
Base(q, N) ==
    /\ DOMAIN q = Fields
    /\ q.u \in Users \cup {NoUser} /\ q.ans \in Statuses /\ q.new \in Ids \cup {0}
    /\ q.all \in BOOLEAN /\ q.dirty \in BOOLEAN
    /\ q.pc # "done" => q.ans = 0
    /\ q.pc \notin {"idle", "done"} =>
          /\ q.u \in Users
          /\ q.op \in OnWorkspace =>
                q.a \in 1 .. N.ws - 1 \/ (q.op \in Optional /\ q.a = 0)
          /\ q.op \in OnProject => q.a \in 1 .. N.project - 1
          /\ q.op \in {"CreateRule", "PatchRule"} => q.code \in Codes

\* Workspace w is u's, or gone.
OwnedBy(w, u, W) == w \in Ids /\ (W[w] = NoRow \/ W[w].owner = u)

\* A clone knows the copy it made: its own, never a personal one, and gone
\* once it has answered with an error.
Cloning(q, W, N) ==
    /\ q.pc \in {"access", "select", "insert", "rules", "links", "cleanup", "done"}
    /\ q.pc \in {"access", "select", "insert"} => q.new = 0
    /\ q.new # 0 => q.new \in 1 .. N.ws - 1
    /\ q.pc \in {"rules", "links", "cleanup"} =>
          /\ q.new # 0 /\ OwnedBy(q.new, q.u, W)
          /\ W[q.new] # NoRow => ~W[q.new].personal
    /\ (q.pc = "done" /\ q.new # 0 /\ q.ans # 201 /\ ~q.dirty) => W[q.new] = NoRow

\* What the checks behind request q have established still holds, although
\* other requests ran since: a row keeps its owner until it is gone, and its
\* id is not given out again.
Local(q, W, P, N) ==
    /\ (q.op \in OnWorkspace /\ q.a # 0 /\ q.pc \notin {"idle", "access", "done"}) =>
          OwnedBy(q.a, q.u, W)
    /\ q.op \in OnProject =>
          /\ q.pc = "owner" => q.ws \in Ids /\ P[q.a] \in {0, q.ws}
          /\ q.pc \notin {"idle", "access", "owner", "done"} =>
                P[q.a] = 0 \/ OwnedBy(P[q.a], q.u, W)
    /\ q.pc \in {"ensure", "createPersonal", "defaultProject"} => q.op \in Ensuring
    /\ q.pc = "defaultProject" => q.new \in 1 .. N.ws - 1 /\ OwnedBy(q.new, q.u, W)
    /\ q.op = "CloneWorkspace" => Cloning(q, W, N)
    /\ (q.op = "DeleteWorkspace" /\ q.pc = "delete" /\ W[q.a] # NoRow) => ~W[q.a].personal
    /\ (q.op = "CreateProject" /\ q.pc \in {"rules", "links", "count"}) =>
          q.new \in 1 .. N.project - 1 /\ P[q.new] \in {0, q.a}
    /\ (q.op = "ListProjects" /\ q.pc = "select") =>
          \A w \in q.read : w \in 1 .. N.ws - 1 /\ OwnedBy(w, q.u, W)

Good(q, W, P, N) == Base(q, N) /\ Local(q, W, P, N)

WorkspacesInv ==
    /\ TablesOK
    /\ DOMAIN req = Requests
    /\ \A r \in Requests : Good(req[r], workspaces, projects, next)
    /\ faults \in 0 .. MaxFaults

-----------------------------------------------------------------------------
(* What a statement does to the tables.                                    *)

\* Ids are given out once; a row keeps its owner, and a project its workspace.
Evolve ==
    /\ next'.ws >= next.ws /\ next'.project >= next.project
    /\ \A w \in Ids : w < next.ws =>
          \/ workspaces'[w] = NoRow
          \/ /\ workspaces[w] # NoRow
             /\ workspaces'[w].owner = workspaces[w].owner
             /\ workspaces'[w].personal = workspaces[w].personal
    /\ \A p \in Ids : p < next.project => projects'[p] \in {0, projects[p]}

KeepsPersonal ==
    \A w \in Ids : (workspaces[w] # NoRow /\ workspaces[w].personal) =>
        /\ workspaces'[w].owner = workspaces[w].owner
        /\ workspaces'[w].personal

\* Only what is under the workspaces of u changes.
Touches(u) ==
    \A w \in Ids :
        (/\ workspaces[w] # NoRow /\ Under(w) # Under(w)'
         /\ rules' = rules /\ ruleSets' = ruleSets) => workspaces[w].owner = u

Effect(u) == TablesOK' /\ Evolve /\ KeepsPersonal /\ Touches(u)

\* NoRow is no row, and no user's.
LEMMA NoRowFacts ==
    /\ NoRow \notin WorkspaceRow /\ NoRow.owner = NoUser /\ NoRow.personal = FALSE
    /\ \A row \in WorkspaceRow : row.owner \in Users /\ row.personal \in BOOLEAN
    /\ NoUser \notin Users
<1>1. NoRow.owner = NoUser /\ NoRow.personal = FALSE
  BY DEF NoRow
<1>2. \A row \in WorkspaceRow : row.owner \in Users /\ row.personal \in BOOLEAN
  BY DEF WorkspaceRow
<1>3. NoUser \notin Users
  BY WorkspacesAssumption
<1>4. QED
  BY <1>1, <1>2, <1>3

\* The next ids are integers, and no row has one of them.
LEMMA NextFacts ==
    ASSUME TablesOK
    PROVE  /\ next.ws \in 1 .. MaxId + 1 /\ next.project \in 1 .. MaxId + 1
           /\ next.rule \in 1 .. MaxId + 1 /\ next.set \in 1 .. MaxId + 1
           /\ MaxId \in Nat /\ Ids \subseteq Nat /\ 0 \notin Ids
BY WorkspacesAssumption DEF TablesOK, Rows, Ids

\* The links are pairs of ids.
LEMMA LinkFacts ==
    ASSUME TablesOK
    PROVE  /\ \A l \in wsRules : /\ l = <<l[1], l[2]>> /\ l[1] \in Ids /\ l[2] \in Ids
                                 /\ workspaces[l[1]] # NoRow /\ rules[l[2]] # NoCode
           /\ \A l \in projRules : /\ l = <<l[1], l[2]>> /\ l[1] \in Ids /\ l[2] \in Ids
                                   /\ projects[l[1]] # 0 /\ rules[l[2]] # NoCode
           /\ \A l \in projSets : /\ l = <<l[1], l[2]>> /\ l[1] \in Ids
                                  /\ projects[l[1]] # 0 /\ l[2] \in ruleSets
           /\ \A l \in setRules : /\ l = <<l[1], l[2]>> /\ l[1] \in ruleSets /\ l[2] \in Ids
                                  /\ rules[l[2]] # NoCode
BY DEF TablesOK, Linked

\* Nothing but the rows of workspaces, projects and their links is under w.
LEMMA UnderSame ==
    ASSUME NEW w, workspaces'[w] = workspaces[w], ProjectsOf(w)' = ProjectsOf(w),
           {l \in wsRules' : l[1] = w} = {l \in wsRules : l[1] = w},
           {l \in projRules' : l[1] \in ProjectsOf(w)} = {l \in projRules : l[1] \in ProjectsOf(w)},
           {l \in projSets' : l[1] \in ProjectsOf(w)} = {l \in projSets : l[1] \in ProjectsOf(w)}
    PROVE  Under(w)' = Under(w)
BY DEF Under

\* A statement that only reads.
LEMMA NoEffect ==
    ASSUME TablesOK, UNCHANGED tables, NEW u
    PROVE  Effect(u)
<1> USE DEF tables
<1>1. TablesOK'
  BY DEF TablesOK, Rows, Given, UniqueCodes, Linked
<1>2. Evolve
  BY NextFacts DEF Evolve
<1>3. KeepsPersonal
  BY DEF KeepsPersonal
<1>4. Touches(u)
  BY DEF Touches, Under, ProjectsOf
<1>5. QED
  BY <1>1, <1>2, <1>3, <1>4 DEF Effect

LEMMA InsertWorkspaceEffect ==
    ASSUME TablesOK, NEW row \in WorkspaceRow, InsertWorkspace(row), NEW u
    PROVE  /\ Effect(u)
           /\ next.ws \in Ids /\ workspaces'[next.ws] = row
           /\ next.ws \in 1 .. next'.ws - 1 /\ next'.ws = next.ws + 1
<1> DEFINE n == next.ws
<1>1. /\ n <= MaxId /\ workspaces' = [workspaces EXCEPT ![n] = row]
      /\ next' = [next EXCEPT !.ws = n + 1]
      /\ UNCHANGED <<projects, rules, ruleSets, wsRules, projRules, projSets, setRules>>
  BY DEF InsertWorkspace
<1>2. n \in Ids /\ n \in Nat /\ Ids \subseteq Nat
  BY <1>1, NextFacts DEF Ids
<1>3. workspaces[n] = NoRow /\ row # NoRow
  BY <1>2, NoRowFacts DEF TablesOK, Given
<1>4. /\ \A w \in Ids : workspaces'[w] = IF w = n THEN row ELSE workspaces[w]
      /\ workspaces' \in [Ids -> WorkspaceRow \cup {NoRow}]
  BY <1>1, <1>2 DEF TablesOK, Rows
<1>5. /\ next'.ws = n + 1 /\ next'.project = next.project
      /\ next'.rule = next.rule /\ next'.set = next.set
      /\ next' \in [{"ws", "project", "rule", "set"} -> 1 .. MaxId + 1]
  <2>1. n + 1 \in 1 .. MaxId + 1
    BY <1>1, <1>2, NextFacts
  <2> HIDE DEF n
  <2>2. QED
    BY <1>1, <2>1 DEF TablesOK, Rows
<1> HIDE DEF n
<1>6. \A w \in Ids : workspaces[w] # NoRow => w # n /\ workspaces'[w] = workspaces[w]
  BY <1>3, <1>4
<1>7. TablesOK'
  <2>1. Rows' /\ UniqueCodes'
    BY <1>1, <1>4, <1>5 DEF TablesOK, Rows, UniqueCodes
  <2>2. Given'
    <3>1. \A i \in Ids : i < n => i < n + 1
      BY <1>2
    <3>2. \A i \in Ids : workspaces'[i] # NoRow => i < next'.ws
      BY <1>2, <1>4, <1>5, <3>1 DEF TablesOK, Given, n
    <3>3. \A i \in Ids : projects[i] # 0 => projects[i] \in Ids
      BY DEF TablesOK, Rows
    <3>4. QED
      BY <1>1, <1>5, <1>6, <3>2, <3>3 DEF TablesOK, Given
  <2>3. Linked'
    <3>1. {i \in Ids : workspaces[i] # NoRow} \subseteq {i \in Ids : workspaces'[i] # NoRow}
      BY <1>6
    <3>2. QED
      BY <1>1, <3>1 DEF TablesOK, Linked
  <2>4. QED
    BY <2>1, <2>2, <2>3 DEF TablesOK
<1>8. Evolve
  <2>1. \A w \in Ids : w < next.ws => workspaces'[w] = workspaces[w]
    BY <1>2, <1>4 DEF n
  <2>2. next'.ws >= next.ws /\ next'.project >= next.project
    BY <1>2, <1>5, NextFacts DEF n
  <2>3. QED
    BY <1>1, <2>1, <2>2 DEF Evolve
<1>9. KeepsPersonal
  BY <1>6 DEF KeepsPersonal
<1>10. Touches(u)
  BY <1>1, <1>6 DEF Touches, Under, ProjectsOf
<1>11. n \in Ids /\ workspaces'[n] = row /\ n \in 1 .. next'.ws - 1
  <2>1. n \in Ids /\ workspaces'[n] = row
    BY <1>2, <1>4
  <2>2. 1 <= n
    BY NextFacts DEF n
  <2>3. n \in 1 .. (n + 1) - 1
    BY <1>2, <2>2
  <2>4. QED
    BY <1>5, <2>1, <2>3
<1>12. Effect(u)
  BY <1>7, <1>8, <1>9, <1>10 DEF Effect
<1>13. QED
  BY <1>5, <1>11, <1>12 DEF n

LEMMA InsertProjectEffect ==
    ASSUME TablesOK, NEW w \in Ids, InsertProject(w),
           workspaces[w] # NoRow, NEW u, workspaces[w].owner = u
    PROVE  /\ Effect(u)
           /\ next.project \in Ids /\ projects'[next.project] = w
           /\ next.project \in 1 .. next'.project - 1
<1> DEFINE n == next.project
<1>1. /\ n <= MaxId /\ projects' = [projects EXCEPT ![n] = w]
      /\ next' = [next EXCEPT !.project = n + 1]
      /\ UNCHANGED <<workspaces, rules, ruleSets, wsRules, projRules, projSets, setRules>>
  BY DEF InsertProject
<1>2. n \in Ids /\ n \in Nat /\ Ids \subseteq Nat /\ w # 0
  BY <1>1, NextFacts DEF Ids
<1>3. projects[n] = 0
  BY <1>2 DEF TablesOK, Given
<1>4. /\ \A p \in Ids : projects'[p] = IF p = n THEN w ELSE projects[p]
      /\ projects' \in [Ids -> Ids \cup {0}]
  BY <1>1, <1>2 DEF TablesOK, Rows
<1>5. /\ next'.project = n + 1 /\ next'.ws = next.ws
      /\ next'.rule = next.rule /\ next'.set = next.set
      /\ next' \in [{"ws", "project", "rule", "set"} -> 1 .. MaxId + 1]
  <2>1. n + 1 \in 1 .. MaxId + 1
    BY <1>1, <1>2, NextFacts
  <2> HIDE DEF n
  <2>2. QED
    BY <1>1, <2>1 DEF TablesOK, Rows
<1> HIDE DEF n
<1>6. \A p \in Ids : projects[p] # 0 => p # n /\ projects'[p] = projects[p]
  BY <1>3, <1>4
<1>7. TablesOK'
  <2>1. Rows' /\ UniqueCodes'
    BY <1>1, <1>4, <1>5 DEF TablesOK, Rows, UniqueCodes
  <2>2. Given'
    <3>1. \A i \in Ids : i < n => i < n + 1
      BY <1>2
    <3>2. \A i \in Ids : projects'[i] # 0 => i < next'.project /\ workspaces[projects'[i]] # NoRow
      BY <1>2, <1>4, <1>5, <3>1 DEF TablesOK, Given, n
    <3>3. QED
      BY <1>1, <1>5, <3>2 DEF TablesOK, Given
  <2>3. Linked'
    <3>1. {i \in Ids : projects[i] # 0} \subseteq {i \in Ids : projects'[i] # 0}
      BY <1>6
    <3>2. QED
      BY <1>1, <3>1 DEF TablesOK, Linked
  <2>4. QED
    BY <2>1, <2>2, <2>3 DEF TablesOK
<1>8. Evolve
  <2>1. \A p \in Ids : p < next.project => projects'[p] = projects[p]
    BY <1>2, <1>4 DEF n
  <2>2. next'.ws >= next.ws /\ next'.project >= next.project
    BY <1>2, <1>5, NextFacts DEF n
  <2>3. QED
    BY <1>1, <2>1, <2>2 DEF Evolve
<1>9. KeepsPersonal
  BY <1>1 DEF KeepsPersonal
<1>10. Touches(u)
  <2>1. ASSUME NEW x \in Ids, x # w
        PROVE  Under(x)' = Under(x)
    <3>1. ProjectsOf(x)' = ProjectsOf(x)
      BY <1>2, <1>3, <1>4, <2>1, NextFacts DEF ProjectsOf
    <3>2. QED
      BY <1>1, <3>1, UnderSame
  <2>2. QED
    BY <2>1 DEF Touches
<1>11. n \in Ids /\ projects'[n] = w /\ n \in 1 .. next'.project - 1
  <2>1. n \in Ids /\ projects'[n] = w
    BY <1>2, <1>4
  <2>2. 1 <= n
    BY NextFacts DEF n
  <2>3. n \in 1 .. (n + 1) - 1
    BY <1>2, <2>2
  <2>4. QED
    BY <1>5, <2>1, <2>3
<1>12. Effect(u)
  BY <1>7, <1>8, <1>9, <1>10 DEF Effect
<1>13. QED
  BY <1>11, <1>12 DEF n

\* A statement that changes links only.
LEMMA LinksEffect ==
    ASSUME TablesOK, UNCHANGED <<workspaces, projects, rules, ruleSets, next>>,
           Linked', NEW u, Touches(u)
    PROVE  Effect(u)
<1>1. TablesOK'
  BY DEF TablesOK, Rows, Given, UniqueCodes
<1>2. Evolve
  BY NextFacts DEF Evolve
<1>3. KeepsPersonal
  BY DEF KeepsPersonal
<1>4. QED
  BY <1>1, <1>2, <1>3 DEF Effect

\* Links of workspace w that are added or taken away.
LEMMA WsRulesEffect ==
    ASSUME TablesOK,
           UNCHANGED <<workspaces, projects, rules, ruleSets,
                       projRules, projSets, setRules, next>>,
           NEW w \in Ids, NEW u, OwnedBy(w, u, workspaces),
           \A l \in wsRules' : l \in wsRules \/
              (/\ l = <<l[1], l[2]>> /\ l[1] = w /\ workspaces[w] # NoRow
               /\ l[2] \in Ids /\ rules[l[2]] # NoCode),
           \A l \in wsRules : l[1] # w => l \in wsRules'
    PROVE  Effect(u)
<1>1. Linked'
  <2>1. \A l \in wsRules' :
            l \in {i \in Ids : workspaces[i] # NoRow} \X {i \in Ids : rules[i] # NoCode}
    BY DEF TablesOK, Linked
  <2>2. QED
    BY <2>1 DEF TablesOK, Linked
<1>2. \A x \in Ids : x # w => Under(x)' = Under(x)
  <2>1. SUFFICES ASSUME NEW x \in Ids, x # w
                 PROVE  {l \in wsRules' : l[1] = x} = {l \in wsRules : l[1] = x}
    BY DEF Under, ProjectsOf
  <2>2. QED
    BY <2>1
<1>3. Touches(u)
  BY <1>2 DEF Touches, OwnedBy
<1>4. QED
  BY <1>1, <1>3, LinksEffect

\* Rules of project p that are linked or unlinked.
LEMMA ProjRulesEffect ==
    ASSUME TablesOK,
           UNCHANGED <<workspaces, projects, rules, ruleSets,
                       wsRules, projSets, setRules, next>>,
           NEW p, NEW u,
           p \in Ids => projects[p] = 0 \/ OwnedBy(projects[p], u, workspaces),
           \A l \in projRules' : l \in projRules \/
              (/\ l = <<l[1], l[2]>> /\ l[1] = p /\ p \in Ids /\ projects[p] # 0
               /\ l[2] \in Ids /\ rules[l[2]] # NoCode),
           \A l \in projRules : l[1] # p => l \in projRules'
    PROVE  Effect(u)
<1>1. Linked'
  <2>1. \A l \in projRules' :
            l \in {i \in Ids : projects[i] # 0} \X {i \in Ids : rules[i] # NoCode}
    BY DEF TablesOK, Linked
  <2>2. QED
    BY <2>1 DEF TablesOK, Linked
<1>2. \A x \in Ids : (p \in Ids => projects[p] # x) => Under(x)' = Under(x)
  <2>1. SUFFICES ASSUME NEW x \in Ids, p \in Ids => projects[p] # x
                 PROVE  {l \in projRules' : l[1] \in ProjectsOf(x)}
                           = {l \in projRules : l[1] \in ProjectsOf(x)}
    BY DEF Under, ProjectsOf
  <2>2. p \notin ProjectsOf(x)
    BY <2>1 DEF ProjectsOf
  <2>3. QED
    BY <2>2
<1>3. Touches(u)
  <2>1. SUFFICES ASSUME NEW x \in Ids, workspaces[x] # NoRow, Under(x)' # Under(x)
                 PROVE  workspaces[x].owner = u
    BY DEF Touches
  <2>2. p \in Ids /\ projects[p] = x
    BY <1>2, <2>1
  <2>3. QED
    BY <2>1, <2>2, NextFacts DEF OwnedBy
<1>4. QED
  BY <1>1, <1>3, LinksEffect

\* Rule sets of project p that are linked or unlinked.
LEMMA ProjSetsEffect ==
    ASSUME TablesOK,
           UNCHANGED <<workspaces, projects, rules, ruleSets,
                       wsRules, projRules, setRules, next>>,
           NEW p, NEW u,
           p \in Ids => projects[p] = 0 \/ OwnedBy(projects[p], u, workspaces),
           \A l \in projSets' : l \in projSets \/
              (/\ l = <<l[1], l[2]>> /\ l[1] = p /\ p \in Ids /\ projects[p] # 0
               /\ l[2] \in ruleSets),
           \A l \in projSets : l[1] # p => l \in projSets'
    PROVE  Effect(u)
<1>1. Linked'
  <2>1. \A l \in projSets' : l \in {i \in Ids : projects[i] # 0} \X ruleSets
    BY DEF TablesOK, Linked
  <2>2. QED
    BY <2>1 DEF TablesOK, Linked
<1>2. \A x \in Ids : (p \in Ids => projects[p] # x) => Under(x)' = Under(x)
  <2>1. SUFFICES ASSUME NEW x \in Ids, p \in Ids => projects[p] # x
                 PROVE  {l \in projSets' : l[1] \in ProjectsOf(x)}
                           = {l \in projSets : l[1] \in ProjectsOf(x)}
    BY DEF Under, ProjectsOf
  <2>2. p \notin ProjectsOf(x)
    BY <2>1 DEF ProjectsOf
  <2>3. QED
    BY <2>2
<1>3. Touches(u)
  <2>1. SUFFICES ASSUME NEW x \in Ids, workspaces[x] # NoRow, Under(x)' # Under(x)
                 PROVE  workspaces[x].owner = u
    BY DEF Touches
  <2>2. p \in Ids /\ projects[p] = x
    BY <1>2, <2>1
  <2>3. QED
    BY <2>1, <2>2, NextFacts DEF OwnedBy
<1>4. QED
  BY <1>1, <1>3, LinksEffect

\* The rules of a rule set belong to no workspace.
LEMMA SetRulesEffect ==
    ASSUME TablesOK,
           UNCHANGED <<workspaces, projects, rules, ruleSets,
                       wsRules, projRules, projSets, next>>,
           \A l \in setRules' : l \in setRules \/
              (/\ l = <<l[1], l[2]>> /\ l[1] \in ruleSets
               /\ l[2] \in Ids /\ rules[l[2]] # NoCode),
           NEW u
    PROVE  Effect(u)
<1>1. Linked'
  <2>1. \A l \in setRules' : l \in ruleSets \X {i \in Ids : rules[i] # NoCode}
    BY DEF TablesOK, Linked
  <2>2. QED
    BY <2>1 DEF TablesOK, Linked
<1>2. Touches(u)
  BY DEF Touches, Under, ProjectsOf
<1>3. QED
  BY <1>1, <1>2, LinksEffect

\* A workspace of u that is not a personal one is deleted, with what is under it.
LEMMA DeleteWorkspaceEffect ==
    ASSUME TablesOK, NEW w, NEW u, OwnedBy(w, u, workspaces), DeleteWorkspaceRow(w),
           workspaces[w] # NoRow => ~workspaces[w].personal
    PROVE  Effect(u) /\ workspaces'[w] = NoRow
<1> DEFINE gone == {p \in Ids : projects[p] = w}
<1>1. /\ workspaces' = [workspaces EXCEPT ![w] = NoRow]
      /\ projects' = [p \in Ids |-> IF p \in gone THEN 0 ELSE projects[p]]
      /\ wsRules' = {l \in wsRules : l[1] # w}
      /\ projRules' = {l \in projRules : l[1] \notin gone}
      /\ projSets' = {l \in projSets : l[1] \notin gone}
      /\ UNCHANGED <<rules, ruleSets, setRules, next>>
  BY DEF DeleteWorkspaceRow
<1>2. w \in Ids /\ w # 0
  BY NextFacts DEF OwnedBy
<1>3. /\ \A x \in Ids : workspaces'[x] = IF x = w THEN NoRow ELSE workspaces[x]
      /\ workspaces' \in [Ids -> WorkspaceRow \cup {NoRow}]
  BY <1>1, <1>2 DEF TablesOK, Rows
<1>4. /\ \A p \in Ids : projects'[p] = IF projects[p] = w THEN 0 ELSE projects[p]
      /\ projects' \in [Ids -> Ids \cup {0}]
  BY <1>1 DEF TablesOK, Rows
<1>5. TablesOK'
  <2>1. Rows' /\ UniqueCodes'
    BY <1>1, <1>3, <1>4 DEF TablesOK, Rows, UniqueCodes
  <2>2. Given'
    <3>1. \A i \in Ids : projects[i] # 0 => projects[i] \in Ids
      BY DEF TablesOK, Rows
    <3>2. QED
      BY <1>1, <1>3, <1>4, <3>1 DEF TablesOK, Given
  <2>3. Linked'
    <3>1. \A l \in wsRules' :
             l \in {i \in Ids : workspaces'[i] # NoRow} \X {i \in Ids : rules[i] # NoCode}
      BY <1>1, <1>3, LinkFacts
    <3>2. \A l \in projRules' :
             l \in {i \in Ids : projects'[i] # 0} \X {i \in Ids : rules[i] # NoCode}
      BY <1>1, <1>4, LinkFacts
    <3>3. \A l \in projSets' : l \in {i \in Ids : projects'[i] # 0} \X ruleSets
      BY <1>1, <1>4, LinkFacts
    <3>4. QED
      BY <1>1, <3>1, <3>2, <3>3 DEF TablesOK, Linked
  <2>4. QED
    BY <2>1, <2>2, <2>3 DEF TablesOK
<1>6. Evolve
  <2>1. next'.ws >= next.ws /\ next'.project >= next.project
    BY <1>1, NextFacts
  <2>2. QED
    BY <1>3, <1>4, <2>1 DEF Evolve
<1>7. KeepsPersonal
  BY <1>3 DEF KeepsPersonal
<1>8. \A x \in Ids : x # w => Under(x)' = Under(x)
  <2>1. SUFFICES ASSUME NEW x \in Ids, x # w PROVE Under(x)' = Under(x)
    OBVIOUS
  <2>2. ProjectsOf(x)' = ProjectsOf(x) /\ \A p \in ProjectsOf(x) : p \notin gone
    BY <1>4, <2>1, NextFacts DEF ProjectsOf
  <2>3. {l \in wsRules' : l[1] = x} = {l \in wsRules : l[1] = x}
    BY <1>1, <2>1
  <2> HIDE DEF gone
  <2>4. {l \in projRules' : l[1] \in ProjectsOf(x)} = {l \in projRules : l[1] \in ProjectsOf(x)}
    BY <1>1, <2>2
  <2>5. {l \in projSets' : l[1] \in ProjectsOf(x)} = {l \in projSets : l[1] \in ProjectsOf(x)}
    BY <1>1, <2>2
  <2>6. QED
    BY <1>3, <2>1, <2>2, <2>3, <2>4, <2>5, UnderSame
<1>9. Touches(u)
  BY <1>8 DEF Touches, OwnedBy
<1>10. QED
  BY <1>2, <1>3, <1>5, <1>6, <1>7, <1>9 DEF Effect

\* A project under a workspace of u is deleted, with its links.
LEMMA DeleteProjectEffect ==
    ASSUME TablesOK, NEW p \in Ids, NEW u,
           projects[p] = 0 \/ OwnedBy(projects[p], u, workspaces), DeleteProjectRow(p)
    PROVE  Effect(u)
<1>1. /\ projects' = [projects EXCEPT ![p] = 0]
      /\ projRules' = {l \in projRules : l[1] # p}
      /\ projSets' = {l \in projSets : l[1] # p}
      /\ UNCHANGED <<workspaces, rules, ruleSets, wsRules, setRules, next>>
  BY DEF DeleteProjectRow
<1>2. /\ \A x \in Ids : projects'[x] = IF x = p THEN 0 ELSE projects[x]
      /\ projects' \in [Ids -> Ids \cup {0}]
  BY <1>1 DEF TablesOK, Rows
<1>3. TablesOK'
  <2>1. Rows' /\ UniqueCodes'
    BY <1>1, <1>2 DEF TablesOK, Rows, UniqueCodes
  <2>2. Given'
    BY <1>1, <1>2 DEF TablesOK, Given
  <2>3. Linked'
    <3>1. \A l \in projRules' :
             l \in {i \in Ids : projects'[i] # 0} \X {i \in Ids : rules[i] # NoCode}
      BY <1>1, <1>2, LinkFacts
    <3>2. \A l \in projSets' : l \in {i \in Ids : projects'[i] # 0} \X ruleSets
      BY <1>1, <1>2, LinkFacts
    <3>3. QED
      BY <1>1, <3>1, <3>2 DEF TablesOK, Linked
  <2>4. QED
    BY <2>1, <2>2, <2>3 DEF TablesOK
<1>4. Evolve
  <2>1. next'.ws >= next.ws /\ next'.project >= next.project
    BY <1>1, NextFacts
  <2>2. QED
    BY <1>1, <1>2, <2>1 DEF Evolve
<1>5. KeepsPersonal
  BY <1>1 DEF KeepsPersonal
<1>6. \A x \in Ids : projects[p] # x => Under(x)' = Under(x)
  <2>1. SUFFICES ASSUME NEW x \in Ids, projects[p] # x PROVE Under(x)' = Under(x)
    OBVIOUS
  <2>2. ProjectsOf(x)' = ProjectsOf(x) /\ p \notin ProjectsOf(x)
    BY <1>2, <2>1, NextFacts DEF ProjectsOf
  <2>3. {l \in projRules' : l[1] \in ProjectsOf(x)} = {l \in projRules : l[1] \in ProjectsOf(x)}
    BY <1>1, <2>2
  <2>4. {l \in projSets' : l[1] \in ProjectsOf(x)} = {l \in projSets : l[1] \in ProjectsOf(x)}
    BY <1>1, <2>2
  <2>5. QED
    BY <1>1, <2>2, <2>3, <2>4, UnderSame
<1>7. Touches(u)
  BY <1>6, NextFacts DEF Touches, OwnedBy
<1>8. QED
  BY <1>3, <1>4, <1>5, <1>7 DEF Effect

\* A rule is deleted with its links, which belong to it as much as to the
\* workspace or the project.
LEMMA DeleteRuleEffect ==
    ASSUME TablesOK, NEW x, DeleteRuleRow(x), NEW u
    PROVE  Effect(u)
<1>1. /\ rules' = [rules EXCEPT ![x] = NoCode]
      /\ wsRules' = {l \in wsRules : l[2] # x}
      /\ projRules' = {l \in projRules : l[2] # x}
      /\ setRules' = {l \in setRules : l[2] # x}
      /\ UNCHANGED <<workspaces, projects, ruleSets, projSets, next>>
  BY DEF DeleteRuleRow
<1>2. /\ \A y \in Ids : rules'[y] = IF y = x THEN NoCode ELSE rules[y]
      /\ rules' \in [Ids -> Codes \cup {NoCode}]
  BY <1>1 DEF TablesOK, Rows
<1>3. TablesOK'
  <2>1. Rows' /\ UniqueCodes'
    BY <1>1, <1>2 DEF TablesOK, Rows, UniqueCodes
  <2>2. Given'
    BY <1>1, <1>2 DEF TablesOK, Given
  <2>3. Linked'
    <3>1. \A l \in wsRules' :
             l \in {i \in Ids : workspaces[i] # NoRow} \X {i \in Ids : rules'[i] # NoCode}
      BY <1>1, <1>2, LinkFacts
    <3>2. \A l \in projRules' :
             l \in {i \in Ids : projects[i] # 0} \X {i \in Ids : rules'[i] # NoCode}
      BY <1>1, <1>2, LinkFacts
    <3>3. \A l \in setRules' : l \in ruleSets \X {i \in Ids : rules'[i] # NoCode}
      BY <1>1, <1>2, LinkFacts
    <3>4. QED
      BY <1>1, <3>1, <3>2, <3>3 DEF TablesOK, Linked
  <2>4. QED
    BY <2>1, <2>2, <2>3 DEF TablesOK
<1>4. Evolve
  BY <1>1, NextFacts DEF Evolve
<1>5. KeepsPersonal
  BY <1>1 DEF KeepsPersonal
<1>6. ASSUME rules' = rules
      PROVE  wsRules' = wsRules /\ projRules' = projRules
  <2>1. \A l \in wsRules \cup projRules : l[2] # x
    BY <1>2, <1>6, LinkFacts
  <2>2. QED
    BY <1>1, <2>1
<1>7. Touches(u)
  BY <1>1, <1>6 DEF Touches, Under, ProjectsOf
<1>8. QED
  BY <1>3, <1>4, <1>5, <1>7 DEF Effect

LEMMA DeleteRuleSetEffect ==
    ASSUME TablesOK, NEW s, DeleteRuleSetRow(s), NEW u
    PROVE  Effect(u)
<1>1. /\ ruleSets' = ruleSets \ {s}
      /\ setRules' = {l \in setRules : l[1] # s}
      /\ projSets' = {l \in projSets : l[2] # s}
      /\ UNCHANGED <<workspaces, projects, rules, wsRules, projRules, next>>
  BY DEF DeleteRuleSetRow
<1>2. TablesOK'
  <2>1. Rows' /\ UniqueCodes'
    BY <1>1 DEF TablesOK, Rows, UniqueCodes
  <2>2. Given'
    BY <1>1 DEF TablesOK, Given
  <2>3. Linked'
    <3>1. \A l \in projSets' : l \in {i \in Ids : projects[i] # 0} \X ruleSets'
      BY <1>1, LinkFacts
    <3>2. \A l \in setRules' : l \in ruleSets' \X {i \in Ids : rules[i] # NoCode}
      BY <1>1, LinkFacts
    <3>3. QED
      BY <1>1, <3>1, <3>2 DEF TablesOK, Linked
  <2>4. QED
    BY <2>1, <2>2, <2>3 DEF TablesOK
<1>3. Evolve
  BY <1>1, NextFacts DEF Evolve
<1>4. KeepsPersonal
  BY <1>1 DEF KeepsPersonal
<1>5. ASSUME ruleSets' = ruleSets
      PROVE  projSets' = projSets
  <2>1. \A l \in projSets : l[2] # s
    BY <1>1, <1>5, LinkFacts
  <2>2. QED
    BY <1>1, <2>1
<1>6. Touches(u)
  BY <1>1, <1>5 DEF Touches, Under, ProjectsOf
<1>7. QED
  BY <1>2, <1>3, <1>4, <1>6 DEF Effect

\* A rule gets a code that no other rule has: a new rule, with id n the next
\* one, or one that is there.
LEMMA WriteRuleEffect ==
    ASSUME TablesOK, NEW x \in Ids, NEW code \in Codes,
           rules' = [rules EXCEPT ![x] = code],
           \A y \in Ids : rules[y] = code => y = x,
           UNCHANGED <<workspaces, projects, ruleSets,
                       wsRules, projRules, projSets, setRules>>,
           next' \in [{"ws", "project", "rule", "set"} -> 1 .. MaxId + 1],
           next'.ws = next.ws, next'.project = next.project, next'.set = next.set,
           next'.rule >= next.rule, x < next'.rule,
           NEW u
    PROVE  Effect(u)
<1>1. /\ \A y \in Ids : rules'[y] = IF y = x THEN code ELSE rules[y]
      /\ rules' \in [Ids -> Codes \cup {NoCode}]
  BY DEF TablesOK, Rows
<1>2. code # NoCode
  BY WorkspacesAssumption
<1>3. TablesOK'
  <2>1. Rows'
    BY <1>1 DEF TablesOK, Rows
  <2>2. UniqueCodes'
    BY <1>1, <1>2 DEF TablesOK, UniqueCodes
  <2>3. Given'
    <3>1. \A i \in Ids : i < next.rule => i < next'.rule
      <4>1. next.rule \in Nat /\ next'.rule \in Nat /\ Ids \subseteq Nat
        BY NextFacts
      <4>2. QED
        BY <4>1
    <3>2. QED
      BY <1>1, <3>1 DEF TablesOK, Given
  <2>4. Linked'
    <3>1. {i \in Ids : rules[i] # NoCode} \subseteq {i \in Ids : rules'[i] # NoCode}
      BY <1>1, <1>2
    <3>2. QED
      BY <3>1 DEF TablesOK, Linked
  <2>5. QED
    BY <2>1, <2>2, <2>3, <2>4 DEF TablesOK
<1>4. Evolve
  BY NextFacts DEF Evolve
<1>5. KeepsPersonal
  BY DEF KeepsPersonal
<1>6. Touches(u)
  BY DEF Touches, Under, ProjectsOf
<1>7. QED
  BY <1>3, <1>4, <1>5, <1>6 DEF Effect

LEMMA InsertRuleSetEffect ==
    ASSUME TablesOK, next.set <= MaxId, ruleSets' = ruleSets \cup {next.set},
           next' = [next EXCEPT !.set = @ + 1],
           UNCHANGED <<workspaces, projects, rules,
                       wsRules, projRules, projSets, setRules>>,
           NEW u
    PROVE  Effect(u)
<1> DEFINE n == next.set
<1>1. n \in Ids /\ n \in Nat /\ Ids \subseteq Nat /\ n + 1 \in 1 .. MaxId + 1
  BY NextFacts DEF Ids
<1> HIDE DEF n
<1>2. /\ next' = [next EXCEPT !.set = n + 1]
      /\ ruleSets' = ruleSets \cup {n}
  BY DEF n
<1>3. /\ next'.set = n + 1 /\ next'.ws = next.ws
      /\ next'.project = next.project /\ next'.rule = next.rule
      /\ next' \in [{"ws", "project", "rule", "set"} -> 1 .. MaxId + 1]
  BY <1>1, <1>2 DEF TablesOK, Rows
<1>4. TablesOK'
  <2>1. Rows' /\ UniqueCodes'
    BY <1>1, <1>2, <1>3 DEF TablesOK, Rows, UniqueCodes
  <2>2. Given'
    <3>1. \A i \in Ids : i < n => i < n + 1
      BY <1>1
    <3>2. \A i \in ruleSets' : i < n + 1
      BY <1>1, <1>2, <3>1 DEF TablesOK, Given, n, Rows
    <3>3. QED
      BY <1>3, <3>2 DEF TablesOK, Given
  <2>3. Linked'
    BY <1>2 DEF TablesOK, Linked
  <2>4. QED
    BY <2>1, <2>2, <2>3 DEF TablesOK
<1>5. Evolve
  BY <1>3, NextFacts DEF Evolve
<1>6. KeepsPersonal
  BY DEF KeepsPersonal
<1>7. Touches(u)
  BY DEF Touches, Under, ProjectsOf
<1>8. QED
  BY <1>4, <1>5, <1>6, <1>7 DEF Effect

\* A column of a workspace of u changes, neither the owner nor personal.
LEMMA PatchWorkspaceEffect ==
    ASSUME TablesOK, NEW w \in Ids, NEW u, OwnedBy(w, u, workspaces),
           workspaces[w] # NoRow, NEW all \in BOOLEAN,
           workspaces' = [workspaces EXCEPT ![w].all = all],
           UNCHANGED <<projects, rules, ruleSets, wsRules, projRules,
                       projSets, setRules, next>>
    PROVE  Effect(u)
<1> DEFINE row == [workspaces[w] EXCEPT !.all = all]
<1>1. workspaces[w] \in WorkspaceRow
  BY DEF TablesOK, Rows
<1>2. /\ row \in WorkspaceRow /\ row.owner = workspaces[w].owner
      /\ row.personal = workspaces[w].personal
  BY <1>1 DEF WorkspaceRow
<1>3. workspaces' = [workspaces EXCEPT ![w] = row]
  OBVIOUS
<1> HIDE DEF row
<1>4. /\ \A x \in Ids : workspaces'[x] = IF x = w THEN row ELSE workspaces[x]
      /\ workspaces' \in [Ids -> WorkspaceRow \cup {NoRow}]
  BY <1>2, <1>3 DEF TablesOK, Rows
<1>5. \A x \in Ids : workspaces'[x] # NoRow <=> workspaces[x] # NoRow
  BY <1>2, <1>4, NoRowFacts
<1>6. TablesOK'
  <2>1. Rows' /\ UniqueCodes'
    BY <1>4 DEF TablesOK, Rows, UniqueCodes
  <2>2. Given'
    <3>1. \A i \in Ids : projects[i] # 0 => projects[i] \in Ids
      BY DEF TablesOK, Rows
    <3>2. QED
      BY <1>5, <3>1 DEF TablesOK, Given
  <2>3. Linked'
    <3>1. {i \in Ids : workspaces[i] # NoRow} = {i \in Ids : workspaces'[i] # NoRow}
      BY <1>5
    <3>2. QED
      BY <3>1 DEF TablesOK, Linked
  <2>4. QED
    BY <2>1, <2>2, <2>3 DEF TablesOK
<1>7. Evolve
  <2>1. next'.ws >= next.ws /\ next'.project >= next.project
    BY NextFacts
  <2>2. QED
    BY <1>2, <1>4, <2>1 DEF Evolve
<1>8. KeepsPersonal
  BY <1>2, <1>4 DEF KeepsPersonal
<1>9. Touches(u)
  <2>1. \A x \in Ids : x # w => Under(x)' = Under(x)
    BY <1>4 DEF Under, ProjectsOf
  <2>2. QED
    BY <2>1 DEF Touches, OwnedBy
<1>10. QED
  BY <1>6, <1>7, <1>8, <1>9 DEF Effect

-----------------------------------------------------------------------------
(* What a request knows stays true while the others run.                   *)

\* An id that was given out is one of a row, before and after a step.
LEMMA IdsStay ==
    ASSUME TablesOK, TablesOK', Evolve
    PROVE  /\ \A x \in 1 .. next.ws - 1 :
                 x \in Ids /\ x < next.ws /\ x \in 1 .. next'.ws - 1
           /\ \A x \in 1 .. next.project - 1 :
                 x \in Ids /\ x < next.project /\ x \in 1 .. next'.project - 1
           /\ \A x \in Ids : workspaces[x] # NoRow => x < next.ws
           /\ \A x \in Ids : x < next.ws => x \in 1 .. next.ws - 1
<1>1. /\ next.ws \in 1 .. MaxId + 1 /\ next.project \in 1 .. MaxId + 1
      /\ MaxId \in Nat /\ Ids = 1 .. MaxId
  BY NextFacts DEF Ids
<1>2. next'.ws \in Nat /\ next'.project \in Nat
  BY WorkspacesAssumption DEF TablesOK, Rows
<1>3. next'.ws >= next.ws /\ next'.project >= next.project
  BY DEF Evolve
<1>4. \A x \in Ids : workspaces[x] # NoRow => x < next.ws
  BY DEF TablesOK, Given
<1> DEFINE n == next.ws
           m == next.project
           n2 == next'.ws
           m2 == next'.project
<1> HIDE DEF n, m, n2, m2
<1>5. \A x \in 1 .. n - 1 : x \in Ids /\ x < n /\ x \in 1 .. n2 - 1
  BY <1>1, <1>2, <1>3 DEF n, n2
<1>6. \A x \in 1 .. m - 1 : x \in Ids /\ x < m /\ x \in 1 .. m2 - 1
  BY <1>1, <1>2, <1>3 DEF m, m2
<1>7. \A x \in Ids : x < n => x \in 1 .. n - 1
  BY <1>1 DEF n
<1>8. QED
  BY <1>4, <1>5, <1>6, <1>7 DEF n, m, n2, m2

\* A workspace is its owner's until it is gone, and then it stays gone.
LEMMA OwnedStays ==
    ASSUME TablesOK, TablesOK', Evolve, NEW w \in 1 .. next.ws - 1
    PROVE  /\ \A u : OwnedBy(w, u, workspaces) => OwnedBy(w, u, workspaces')
           /\ workspaces[w] = NoRow => workspaces'[w] = NoRow
           /\ workspaces'[w] # NoRow =>
                 /\ workspaces[w] # NoRow
                 /\ workspaces'[w].personal = workspaces[w].personal
<1>1. w \in Ids /\ w < next.ws
  BY IdsStay
<1>2. \/ workspaces'[w] = NoRow
      \/ /\ workspaces[w] # NoRow
         /\ workspaces'[w].owner = workspaces[w].owner
         /\ workspaces'[w].personal = workspaces[w].personal
  BY <1>1 DEF Evolve
<1>3. QED
  BY <1>1, <1>2 DEF OwnedBy

\* A project stays in its workspace until it is gone.
LEMMA ProjectStays ==
    ASSUME TablesOK, TablesOK', Evolve, NEW p \in 1 .. next.project - 1
    PROVE  /\ p \in Ids
           /\ projects'[p] \in {0, projects[p]}
           /\ projects[p] # 0 => projects[p] \in 1 .. next.ws - 1
<1>1. p \in Ids /\ p < next.project
  BY IdsStay
<1>2. projects[p] # 0 => projects[p] \in Ids /\ workspaces[projects[p]] # NoRow
  BY <1>1 DEF TablesOK, Rows, Given
<1>3. QED
  BY <1>1, <1>2, IdsStay DEF Evolve

LEMMA GoodStays ==
    ASSUME TablesOK, TablesOK', Evolve, NEW q, Good(q, workspaces, projects, next)
    PROVE  Good(q, workspaces', projects', next')
<1>1. Base(q, next) /\ Local(q, workspaces, projects, next)
  BY DEF Good
<1>2. Base(q, next')
  BY <1>1, IdsStay DEF Base
<1>3. ASSUME q.op \in OnWorkspace, q.a # 0, q.pc \notin {"idle", "access", "done"}
      PROVE  OwnedBy(q.a, q.u, workspaces')
  <2>1. q.a \in 1 .. next.ws - 1
    BY <1>1, <1>3 DEF Base
  <2>2. OwnedBy(q.a, q.u, workspaces)
    BY <1>1, <1>3 DEF Local
  <2>3. QED
    BY <2>1, <2>2, OwnedStays
<1>4. ASSUME q.op \in OnProject
      PROVE  /\ q.pc = "owner" => q.ws \in Ids /\ projects'[q.a] \in {0, q.ws}
             /\ q.pc \notin {"idle", "access", "owner", "done"} =>
                   projects'[q.a] = 0 \/ OwnedBy(projects'[q.a], q.u, workspaces')
  <2>1. CASE q.pc \in {"idle", "access", "done"}
    BY <2>1
  <2>2. CASE q.pc \notin {"idle", "access", "done"}
    <3>1. q.a \in 1 .. next.project - 1
      BY <1>1, <1>4, <2>2 DEF Base
    <3>2. CASE q.pc = "owner"
      <4>1. q.ws \in Ids /\ projects[q.a] \in {0, q.ws}
        BY <1>1, <1>4, <3>2 DEF Local
      <4>2. QED
        BY <3>1, <3>2, <4>1, ProjectStays
    <3>3. CASE q.pc # "owner"
      <4>1. projects[q.a] = 0 \/ OwnedBy(projects[q.a], q.u, workspaces)
        BY <1>1, <1>4, <2>2, <3>3 DEF Local
      <4>2. projects[q.a] # 0 => OwnedBy(projects[q.a], q.u, workspaces')
        BY <3>1, <4>1, ProjectStays, OwnedStays
      <4>3. QED
        BY <3>1, <3>3, <4>2, ProjectStays
    <3>4. QED
      BY <3>2, <3>3
  <2>3. QED
    BY <2>1, <2>2
<1>5. ASSUME q.pc = "defaultProject"
      PROVE  q.new \in 1 .. next'.ws - 1 /\ OwnedBy(q.new, q.u, workspaces')
  <2>1. q.new \in 1 .. next.ws - 1 /\ OwnedBy(q.new, q.u, workspaces)
    BY <1>1, <1>5 DEF Local
  <2>2. QED
    BY <2>1, IdsStay, OwnedStays
<1>6. ASSUME q.op = "CloneWorkspace"
      PROVE  Cloning(q, workspaces', next')
  <2>1. Cloning(q, workspaces, next)
    BY <1>1, <1>6 DEF Local
  <2>2. CASE q.new = 0
    BY <2>1, <2>2 DEF Cloning
  <2>3. CASE q.new # 0
    <3>1. q.new \in 1 .. next.ws - 1
      BY <2>1, <2>3 DEF Cloning
    <3>2. q.new \in 1 .. next'.ws - 1
      BY <3>1, IdsStay
    <3>3. /\ OwnedBy(q.new, q.u, workspaces) => OwnedBy(q.new, q.u, workspaces')
          /\ workspaces[q.new] = NoRow => workspaces'[q.new] = NoRow
          /\ workspaces'[q.new] # NoRow =>
                /\ workspaces[q.new] # NoRow
                /\ workspaces'[q.new].personal = workspaces[q.new].personal
      BY <3>1, OwnedStays
    <3>4. QED
      BY <2>1, <3>2, <3>3 DEF Cloning
  <2>4. QED
    BY <2>2, <2>3
<1>7. ASSUME q.op = "DeleteWorkspace", q.pc = "delete", workspaces'[q.a] # NoRow
      PROVE  ~workspaces'[q.a].personal
  <2>1. q.a \in 1 .. next.ws - 1
    BY <1>1, <1>7 DEF Base, OnWorkspace, Optional
  <2>2. QED
    BY <1>1, <1>7, <2>1, OwnedStays DEF Local
<1>8. ASSUME q.op = "CreateProject", q.pc \in {"rules", "links", "count"}
      PROVE  q.new \in 1 .. next'.project - 1 /\ projects'[q.new] \in {0, q.a}
  <2>1. q.new \in 1 .. next.project - 1 /\ projects[q.new] \in {0, q.a}
    BY <1>1, <1>8 DEF Local
  <2>2. QED
    BY <2>1, IdsStay, ProjectStays
<1>9. ASSUME q.op = "ListProjects", q.pc = "select", NEW w \in q.read
      PROVE  w \in 1 .. next'.ws - 1 /\ OwnedBy(w, q.u, workspaces')
  <2>1. w \in 1 .. next.ws - 1 /\ OwnedBy(w, q.u, workspaces)
    BY <1>1, <1>9 DEF Local
  <2>2. QED
    BY <2>1, IdsStay, OwnedStays
<1>10. q.pc \in {"ensure", "createPersonal", "defaultProject"} => q.op \in Ensuring
  BY <1>1 DEF Local
<1>11. Local(q, workspaces', projects', next')
  BY <1>3, <1>4, <1>5, <1>6, <1>7, <1>8, <1>9, <1>10 DEF Local
<1>12. QED
  BY <1>2, <1>11 DEF Good

-----------------------------------------------------------------------------
(* Steps of one request.                                                   *)

Mine(w, u) == workspaces[w] # NoRow => workspaces[w].owner = u

\* OwnerReads, for a request that was q and is q2.
Shown(q, q2) ==
    (q.pc # "done" /\ q2.ans \in {200, 201}) =>
       /\ q.op \in {"ListWorkspaces", "GetWorkspace", "PatchWorkspace"} =>
             \A w \in q2.got : Mine(w, q.u)
       /\ q.op \in {"ListProjects", "GetProject", "PatchProject"} =>
             \A p \in q2.got : projects[p] # 0 /\ Mine(projects[p], q.u)
       /\ (q.op \in OnProject /\ projects[q.a] # 0) => Mine(projects[q.a], q.u)
       /\ (q.op \in OnWorkspace /\ q.a # 0) => Mine(q.a, q.u)

\* A step of request r: its tables, its new state and its answer are right, and
\* it is the same operation unless it has only just begun or is over.
Step(r) ==
    /\ Effect(req[r].u)
    /\ DOMAIN req' = Requests
    /\ \A s \in Requests : s # r => req'[s] = req[s]
    /\ Good(req'[r], workspaces', projects', next')
    /\ Shown(req[r], req'[r])
    /\ req'[r] # req[r]
    /\ req'[r].op = req[r].op \/ req'[r].pc \in {"ensure", "access", "done"}

LEMMA StepSuffices ==
    ASSUME WorkspacesInv, NEW r \in Requests, Step(r), faults' \in 0 .. MaxFaults
    PROVE  WorkspacesInv' /\ OwnerWrites /\ OwnerReads /\ KeepsPersonal
<1>1. TablesOK' /\ Evolve /\ KeepsPersonal /\ Touches(req[r].u)
  BY DEF Step, Effect
<1>2. \A s \in Requests : Good(req'[s], workspaces', projects', next')
  <2>1. SUFFICES ASSUME NEW s \in Requests, s # r
                 PROVE  Good(req'[s], workspaces', projects', next')
    BY DEF Step
  <2>2. Good(req[s], workspaces', projects', next')
    BY <1>1, GoodStays DEF WorkspacesInv
  <2>3. QED
    BY <2>1, <2>2 DEF Step
<1>3. WorkspacesInv'
  BY <1>1, <1>2 DEF WorkspacesInv, Step
<1>4. OwnerWrites
  BY <1>1 DEF OwnerWrites, Touches, Step
<1>5. OwnerReads
  <2>1. \A s \in Requests : (s # r /\ req[s].pc # "done") => req'[s].ans = 0
    BY DEF Step, WorkspacesInv, Good, Base
  <2>2. \A s \in Requests : s # r => ~(req[s].pc # "done" /\ req'[s].ans \in {200, 201})
    BY <2>1
  <2>3. Shown(req[r], req'[r])
    BY DEF Step
  <2>4. QED
    BY <2>2, <2>3 DEF OwnerReads, Shown, Mine
<1>6. QED
  BY <1>1, <1>3, <1>4, <1>5

\* Request r has passed its access check.
Cleared(q, W, P) ==
    /\ (q.op \in OnWorkspace /\ q.a # 0) => OwnedBy(q.a, q.u, W)
    /\ q.op \in OnProject => P[q.a] = 0 \/ OwnedBy(P[q.a], q.u, W)

\* OnWorkspace and OnProject have no operation in common.
LEMMA Disjoint ==
    ASSUME NEW op
    PROVE  /\ ~(op \in OnWorkspace /\ op \in OnProject)
           /\ op \in Ensuring => op \notin OnWorkspace /\ op \notin OnProject
           /\ op \in OnRule => op \notin OnWorkspace /\ op \notin OnProject
           /\ op \in OnRuleSet => op \notin OnWorkspace /\ op \notin OnProject
           /\ op \in {"CreateRule", "ListRuleSets", "CreateRuleSet"} =>
                 op \notin OnWorkspace /\ op \notin OnProject
BY DEF OnWorkspace, OnProject, Ensuring, OnRule, OnRuleSet

LEMMA PastIsCleared ==
    ASSUME WorkspacesInv, NEW r \in Requests,
           req[r].pc \notin {"idle", "access", "owner", "done"}
    PROVE  Cleared(req[r], workspaces, projects)
BY DEF WorkspacesInv, Good, Local, Cleared

LEMMA ClearedStays ==
    ASSUME WorkspacesInv, NEW r \in Requests, req[r].pc \notin {"idle", "done"},
           Cleared(req[r], workspaces, projects), TablesOK', Evolve
    PROVE  Cleared(req[r], workspaces', projects')
<1> DEFINE q == req[r]
<1>1. Base(q, next) /\ TablesOK
  BY DEF WorkspacesInv, Good
<1>2. Cleared(q, workspaces, projects) /\ q.pc \notin {"idle", "done"}
  OBVIOUS
<1> HIDE DEF q
<1>3. ASSUME q.op \in OnWorkspace, q.a # 0
      PROVE  OwnedBy(q.a, q.u, workspaces')
  <2>1. q.a \in 1 .. next.ws - 1
    BY <1>1, <1>2, <1>3 DEF Base
  <2>2. QED
    BY <1>1, <1>2, <1>3, <2>1, OwnedStays DEF Cleared
<1>4. ASSUME q.op \in OnProject
      PROVE  projects'[q.a] = 0 \/ OwnedBy(projects'[q.a], q.u, workspaces')
  <2>1. q.a \in 1 .. next.project - 1
    BY <1>1, <1>2, <1>4 DEF Base
  <2>2. projects[q.a] # 0 => OwnedBy(projects[q.a], q.u, workspaces')
    BY <1>1, <1>2, <1>4, <2>1, ProjectStays, OwnedStays DEF Cleared
  <2>3. QED
    BY <1>1, <2>1, <2>2, ProjectStays
<1>5. QED
  BY <1>3, <1>4 DEF Cleared, q

\* The request goes on, with other local variables.
LEMMA MoveOn ==
    ASSUME WorkspacesInv, NEW r \in Requests, Effect(req[r].u),
           NEW q, req' = [req EXCEPT ![r] = q], DOMAIN q = Fields,
           \A f \in Fields \ {"pc", "ws", "new", "read", "sets", "all"} : q[f] = req[r][f],
           q.pc \notin {"idle", "done"}, req[r].pc \notin {"idle", "done"},
           q.pc # req[r].pc, q.new \in Ids \cup {0}, q.all \in BOOLEAN,
           Local(q, workspaces', projects', next')
    PROVE  Step(r)
<1>1. req'[r] = q /\ DOMAIN req' = Requests /\ \A s \in Requests : s # r => req'[s] = req[s]
  BY DEF WorkspacesInv
<1>2. /\ q.op = req[r].op /\ q.u = req[r].u /\ q.a = req[r].a /\ q.b = req[r].b
      /\ q.code = req[r].code /\ q.ans = req[r].ans /\ q.dirty = req[r].dirty
  BY DEF Fields
<1>3. Base(req[r], next')
  BY GoodStays DEF WorkspacesInv, Effect, Good
<1>4. Base(q, next')
  BY <1>2, <1>3 DEF Base
<1>5. Shown(req[r], q)
  BY <1>2, <1>3 DEF Base, Shown
<1>6. QED
  BY <1>1, <1>2, <1>4, <1>5 DEF Step, Good

\* A place that only its access check stands before.
PlainAt(q, l) ==
    /\ l \notin {"idle", "access", "owner", "done",
                 "ensure", "createPersonal", "defaultProject"}
    /\ q.op = "CloneWorkspace" => l \in {"select", "insert"} /\ q.new = 0
    /\ q.op = "DeleteWorkspace" => l # "delete"
    /\ q.op = "CreateProject" => l \notin {"rules", "links", "count"}
    /\ q.op = "ListProjects" => l # "select"

LEMMA PlainLocal ==
    ASSUME NEW q, NEW W, NEW P, NEW N, PlainAt(q, q.pc), Cleared(q, W, P)
    PROVE  Local(q, W, P, N)
<1>1. /\ (q.op \in OnWorkspace /\ q.a # 0) => OwnedBy(q.a, q.u, W)
      /\ q.op \in OnProject => P[q.a] = 0 \/ OwnedBy(P[q.a], q.u, W)
  BY DEF Cleared
<1>2. q.op = "CloneWorkspace" => Cloning(q, W, N)
  BY DEF Cloning, PlainAt
<1>3. QED
  BY <1>1, <1>2 DEF Local, PlainAt

LEMMA PlainGoto ==
    ASSUME WorkspacesInv, NEW r \in Requests, Effect(req[r].u), NEW l, Goto(r, l),
           req[r].pc \notin {"idle", "done"}, l # req[r].pc, PlainAt(req[r], l),
           Cleared(req[r], workspaces, projects)
    PROVE  Step(r)
<1> DEFINE q == [req[r] EXCEPT !.pc = l]
<1>1. DOMAIN req[r] = Fields /\ req[r].new \in Ids \cup {0} /\ req[r].all \in BOOLEAN
  BY DEF WorkspacesInv, Good, Base
<1>2. /\ DOMAIN q = Fields /\ q.pc = l
      /\ \A f \in Fields \ {"pc"} : q[f] = req[r][f]
  BY <1>1 DEF Fields
<1>3. req' = [req EXCEPT ![r] = q]
  BY DEF Goto
<1> HIDE DEF q
<1>4. /\ q.op = req[r].op /\ q.u = req[r].u /\ q.a = req[r].a
      /\ q.new = req[r].new /\ q.all = req[r].all
  BY <1>2 DEF Fields
<1>5. Cleared(req[r], workspaces', projects')
  BY ClearedStays DEF Effect
<1>6. Cleared(q, workspaces', projects') /\ PlainAt(q, q.pc)
  BY <1>2, <1>4, <1>5 DEF Cleared, PlainAt
<1>7. Local(q, workspaces', projects', next')
  BY <1>6, PlainLocal
<1>8. q.pc \notin {"idle", "done"}
  BY <1>2 DEF PlainAt
<1>9. QED
  BY <1>1, <1>2, <1>3, <1>4, <1>7, <1>8, MoveOn

\* What the answer lists.
Listed(q, got) ==
    /\ q.op \in {"ListWorkspaces", "GetWorkspace", "PatchWorkspace"} =>
          \A w \in got : Mine(w, q.u)
    /\ q.op \in {"ListProjects", "GetProject", "PatchProject"} =>
          \A p \in got : projects[p] # 0 /\ Mine(projects[p], q.u)

LEMMA AnswerStep ==
    ASSUME WorkspacesInv, NEW r \in Requests, Effect(req[r].u),
           NEW status \in Statuses, NEW got, Answer(r, status, got),
           req[r].pc \notin {"idle", "done"},
           req[r].op = "CloneWorkspace" =>
              req[r].new = 0 \/ status = 201 \/ workspaces'[req[r].new] = NoRow,
           status \in {200, 201} =>
              Cleared(req[r], workspaces, projects) /\ Listed(req[r], got)
    PROVE  Step(r)
<1> DEFINE q == [Idle EXCEPT !.op = req[r].op, !.new = req[r].new,
                             !.pc = "done", !.ans = status, !.got = got]
<1>1. /\ DOMAIN q = Fields /\ q.op = req[r].op /\ q.new = req[r].new
      /\ q.pc = "done" /\ q.ans = status /\ q.got = got
      /\ q.u = NoUser /\ q.a = 0 /\ q.all = FALSE /\ q.dirty = FALSE
  BY DEF Idle, Fields
<1>2. req' = [req EXCEPT ![r] = q]
  BY DEF Answer
<1> HIDE DEF q
<1>3. req'[r] = q /\ DOMAIN req' = Requests /\ \A s \in Requests : s # r => req'[s] = req[s]
  BY <1>2 DEF WorkspacesInv
<1>4. Base(req[r], next') /\ Local(req[r], workspaces', projects', next')
  BY GoodStays DEF WorkspacesInv, Effect, Good
<1>5. Base(q, next')
  BY <1>1, <1>4 DEF Base
<1>6. Local(q, workspaces', projects', next')
  <2>1. ASSUME q.op = "CloneWorkspace"
        PROVE  Cloning(q, workspaces', next')
    <3>1. Cloning(req[r], workspaces', next')
      BY <1>1, <1>4, <2>1 DEF Local
    <3>2. QED
      BY <1>1, <2>1, <3>1 DEF Cloning
  <2>2. QED
    BY <1>1, <2>1 DEF Local
<1>7. Shown(req[r], q)
  <2>1. ASSUME status \in {200, 201}
        PROVE  /\ (req[r].op \in OnProject /\ projects[req[r].a] # 0) =>
                     Mine(projects[req[r].a], req[r].u)
               /\ (req[r].op \in OnWorkspace /\ req[r].a # 0) => Mine(req[r].a, req[r].u)
    BY <2>1 DEF Cleared, Mine, OwnedBy
  <2>2. QED
    BY <1>1, <2>1 DEF Shown, Listed
<1>8. req'[r] # req[r]
  BY <1>1, <1>3
<1>9. QED
  BY <1>1, <1>3, <1>5, <1>6, <1>7, <1>8 DEF Step, Good

\* A refusal: an error, answered by a step that only reads.
LEMMA Refuse ==
    ASSUME WorkspacesInv, NEW r \in Requests, UNCHANGED tables,
           NEW status \in Statuses, NEW got, Answer(r, status, got),
           status \notin {200, 201}, req[r].pc \notin {"idle", "done"},
           req[r].op = "CloneWorkspace" => req[r].new = 0
    PROVE  Step(r)
<1>1. Effect(req[r].u)
  BY NoEffect DEF WorkspacesInv
<1>2. QED
  BY <1>1, AnswerStep

\* An operation on anything but workspaces and projects lists none of them.
Elsewhere == OnRule \cup OnRuleSet \cup {"CreateRule", "ListRuleSets", "CreateRuleSet"}

LEMMA ElsewhereFree ==
    ASSUME NEW q, q.op \in Elsewhere
    PROVE  /\ \A W, P : Cleared(q, W, P)
           /\ \A got : Listed(q, got)
           /\ q.op # "CloneWorkspace"
           /\ \A l : l \notin {"idle", "access", "owner", "done",
                               "ensure", "createPersonal", "defaultProject"} => PlainAt(q, l)
<1>1. q.op \notin OnWorkspace /\ q.op \notin OnProject
  BY Disjoint DEF Elsewhere
<1>2. q.op \notin {"ListWorkspaces", "GetWorkspace", "PatchWorkspace",
                   "ListProjects", "GetProject", "PatchProject",
                   "CloneWorkspace", "DeleteWorkspace", "CreateProject"}
  BY DEF Elsewhere, OnRule, OnRuleSet
<1>3. QED
  BY <1>1, <1>2 DEF Cleared, Listed, PlainAt

-----------------------------------------------------------------------------
(* The checks the handlers share.                                          *)

Early == {"idle", "access", "owner", "done", "ensure", "createPersonal", "defaultProject"}

LEMMA WorkspaceAccessStep ==
    ASSUME WorkspacesInv, NEW r \in Requests, req[r].op \in OnWorkspace,
           req[r].pc = "access", NEW then, PlainAt(req[r], then),
           assertWorkspaceAccess(r, req[r].a, then)
    PROVE  Step(r)
<1>1. UNCHANGED tables /\ Effect(req[r].u)
  BY NoEffect DEF WorkspacesInv, assertWorkspaceAccess
<1>2. CASE canAccessWorkspace(req[r].a, req[r].u)
  <2>1. Goto(r, then)
    BY <1>2 DEF assertWorkspaceAccess
  <2>2. Cleared(req[r], workspaces, projects)
    BY <1>2, Disjoint DEF Cleared, OwnedBy, canAccessWorkspace
  <2>3. then # req[r].pc
    BY DEF PlainAt
  <2>4. QED
    BY <1>1, <2>1, <2>2, <2>3, PlainGoto
<1>3. CASE ~canAccessWorkspace(req[r].a, req[r].u)
  <2>1. Answer(r, 403, {})
    BY <1>3 DEF assertWorkspaceAccess
  <2>2. QED
    BY <1>1, <2>1, Refuse DEF Statuses, PlainAt
<1>4. QED
  BY <1>2, <1>3

LEMMA ProjectAccessStep ==
    ASSUME WorkspacesInv, NEW r \in Requests, NEW op \in OnProject,
           NEW then, then \notin Early, assertProjectAccess(r, op, then)
    PROVE  Step(r)
<1>1. UNCHANGED tables /\ Effect(req[r].u)
  BY NoEffect DEF WorkspacesInv, assertProjectAccess
<1>2. op \notin {"CloneWorkspace", "DeleteWorkspace", "CreateProject", "ListProjects"}
      /\ op \notin OnWorkspace
  BY Disjoint DEF OnProject
<1>3. workspaces' = workspaces /\ projects' = projects
  BY <1>1 DEF tables
<1>4. CASE At(r, op, "access") /\ IsProject(req[r].a)
                /\ req' = [req EXCEPT ![r].pc = "owner", ![r].ws = projects[req[r].a]]
  <2> DEFINE q == [req[r] EXCEPT !.pc = "owner", !.ws = projects[req[r].a]]
  <2>1. DOMAIN req[r] = Fields /\ req[r].new \in Ids \cup {0} /\ req[r].all \in BOOLEAN
    BY DEF WorkspacesInv, Good, Base
  <2>2. /\ DOMAIN q = Fields /\ q.pc = "owner" /\ q.ws = projects[req[r].a]
        /\ \A f \in Fields \ {"pc", "ws"} : q[f] = req[r][f]
    BY <2>1 DEF Fields
  <2>3. req' = [req EXCEPT ![r] = q]
    BY <1>4
  <2> HIDE DEF q
  <2>4. q.op = op /\ q.a = req[r].a /\ q.new = req[r].new /\ q.all = req[r].all
    BY <1>4, <2>2 DEF Fields, At
  <2>5. projects[req[r].a] \in Ids
    BY <1>4 DEF IsProject, WorkspacesInv, TablesOK, Rows
  <2>6. Local(q, workspaces', projects', next')
    BY <1>2, <1>3, <2>2, <2>4, <2>5 DEF Local
  <2>7. req[r].pc = "access"
    BY <1>4 DEF At
  <2>8. QED
    BY <1>1, <2>1, <2>2, <2>3, <2>4, <2>6, <2>7, MoveOn
<1>5. CASE At(r, op, "owner") /\ canAccessWorkspace(req[r].ws, req[r].u) /\ Goto(r, then)
  <2>1. req[r].op = op /\ req[r].pc = "owner"
    BY <1>5 DEF At
  <2>2. projects[req[r].a] \in {0, req[r].ws}
    BY <2>1 DEF WorkspacesInv, Good, Local
  <2>3. Cleared(req[r], workspaces, projects)
    BY <1>2, <1>5, <2>1, <2>2 DEF Cleared, OwnedBy, canAccessWorkspace
  <2>4. PlainAt(req[r], then) /\ then # req[r].pc
    BY <1>2, <2>1 DEF PlainAt, Early
  <2>5. QED
    BY <1>1, <1>5, <2>1, <2>3, <2>4, PlainGoto
<1>6. CASE req[r].op = op /\ req[r].pc \in {"access", "owner"} /\ Answer(r, 403, {})
  BY <1>1, <1>2, <1>6, Refuse DEF Statuses
<1>7. QED
  BY <1>4, <1>5, <1>6 DEF assertProjectAccess, At

LEMMA ExistsStep ==
    ASSUME WorkspacesInv, NEW r \in Requests, req[r].pc \notin {"idle", "done"},
           req[r].op # "CloneWorkspace", Cleared(req[r], workspaces, projects),
           NEW present, NEW then, Exists(r, present, then),
           PlainAt(req[r], then), then # req[r].pc
    PROVE  Step(r)
<1>1. UNCHANGED tables /\ Effect(req[r].u)
  BY NoEffect DEF WorkspacesInv, Exists
<1>2. CASE Goto(r, then)
  BY <1>1, <1>2, PlainGoto
<1>3. CASE Answer(r, 404, {})
  BY <1>1, <1>3, Refuse DEF Statuses
<1>4. QED
  BY <1>2, <1>3 DEF Exists

LEMMA AnyWorkspaceStep ==
    ASSUME WorkspacesInv, NEW r \in Requests, req[r].pc \notin {"idle", "done"},
           req[r].op # "CloneWorkspace", Cleared(req[r], workspaces, projects),
           NEW then, RequireAnyWorkspace(r, then),
           PlainAt(req[r], then), then # req[r].pc
    PROVE  Step(r)
<1>1. UNCHANGED tables /\ Effect(req[r].u)
  BY NoEffect DEF WorkspacesInv, RequireAnyWorkspace
<1>2. CASE Goto(r, then)
  BY <1>1, <1>2, PlainGoto
<1>3. CASE Answer(r, 403, {})
  BY <1>1, <1>3, Refuse DEF Statuses
<1>4. QED
  BY <1>2, <1>3 DEF RequireAnyWorkspace

\* A link is added, or refused.
LEMMA LinkStep ==
    ASSUME WorkspacesInv, NEW r \in Requests, Effect(req[r].u),
           req[r].pc \notin {"idle", "access", "owner", "done"},
           req[r].op \in {"LinkWorkspaceRule", "LinkProjectRule",
                          "LinkProjectRuleSet", "LinkRuleSetRule"},
           NEW link, NEW linked, NEW present, InsertLink(r, link, linked, present)
    PROVE  Step(r)
<1>1. Cleared(req[r], workspaces, projects)
  BY PastIsCleared
<1>2. \A got : Listed(req[r], got)
  BY DEF Listed
<1>3. \E status \in {201, 409, 500} : Answer(r, status, {})
  BY DEF InsertLink
<1>4. QED
  BY <1>1, <1>2, <1>3, AnswerStep DEF Statuses

-----------------------------------------------------------------------------
(* The personal workspace.                                                 *)

\* An operation that ensures a personal workspace names no other.
LEMMA EnsuringFree ==
    ASSUME NEW q, q.op \in Ensuring
    PROVE  /\ \A W, P : Cleared(q, W, P)
           /\ q.op # "CloneWorkspace"
           /\ \A l : l \notin Early => PlainAt(q, l)
<1>1. q.op \notin OnWorkspace /\ q.op \notin OnProject
  BY Disjoint
<1>2. q.op \notin {"CloneWorkspace", "DeleteWorkspace", "CreateProject", "ListProjects"}
  BY DEF Ensuring
<1>3. QED
  BY <1>1, <1>2 DEF Cleared, PlainAt, Early

LEMMA EnsureStep ==
    ASSUME WorkspacesInv, NEW r \in Requests, req[r].op \in Ensuring,
           NEW then, then \notin Early, ensurePersonalWorkspace(r, then)
    PROVE  Step(r)
<1> DEFINE p == req[r]
<1>1. Base(p, next) /\ Local(p, workspaces, projects, next) /\ TablesOK
  BY DEF WorkspacesInv, Good
<1>2. /\ p.op \notin OnWorkspace /\ p.op \notin OnProject
      /\ p.op \notin {"CloneWorkspace", "DeleteWorkspace", "CreateProject", "ListProjects"}
  BY Disjoint DEF Ensuring
<1>3. ASSUME p.pc = "ensure", Goto(r, then), UNCHANGED tables
      PROVE  Step(r)
  <2>1. Effect(p.u)
    BY <1>1, <1>3, NoEffect
  <2>2. Cleared(p, workspaces, projects) /\ PlainAt(p, then) /\ then # p.pc
    BY <1>3, EnsuringFree DEF Early
  <2>3. QED
    BY <1>3, <2>1, <2>2, PlainGoto
<1>4. ASSUME p.pc = "ensure", Goto(r, "createPersonal"), UNCHANGED tables
      PROVE  Step(r)
  <2> DEFINE q == [req[r] EXCEPT !.pc = "createPersonal"]
  <2>1. Effect(p.u)
    BY <1>1, <1>4, NoEffect
  <2>2. /\ DOMAIN q = Fields /\ q.pc = "createPersonal"
        /\ \A f \in Fields \ {"pc"} : q[f] = p[f]
    BY <1>1 DEF Fields, Base
  <2>3. req' = [req EXCEPT ![r] = q]
    BY <1>4 DEF Goto
  <2> HIDE DEF q
  <2>4. q.op = p.op /\ q.new = p.new /\ q.all = p.all
    BY <2>2 DEF Fields
  <2>5. Local(q, workspaces', projects', next')
    BY <1>2, <2>2, <2>4 DEF Local
  <2>6. QED
    BY <1>1, <1>4, <2>1, <2>2, <2>3, <2>4, <2>5, MoveOn DEF Base
<1>5. ASSUME p.pc = "createPersonal",
             InsertWorkspace([owner |-> p.u, personal |-> TRUE, all |-> TRUE]),
             req' = [req EXCEPT ![r].pc = "defaultProject", ![r].new = next.ws]
      PROVE  Step(r)
  <2> DEFINE row == [owner |-> p.u, personal |-> TRUE, all |-> TRUE]
             q == [req[r] EXCEPT !.pc = "defaultProject", !.new = next.ws]
  <2>1. p.u \in Users
    BY <1>1, <1>5 DEF Base
  <2>2. row \in WorkspaceRow /\ row.owner = p.u
    BY <2>1 DEF WorkspaceRow
  <2>3. InsertWorkspace(row)
    BY <1>5
  <2> HIDE DEF row
  <2>4. /\ Effect(p.u) /\ next.ws \in Ids /\ workspaces'[next.ws] = row
        /\ next.ws \in 1 .. next'.ws - 1
    BY <1>1, <2>2, <2>3, InsertWorkspaceEffect
  <2>5. /\ DOMAIN q = Fields /\ q.pc = "defaultProject" /\ q.new = next.ws
        /\ \A f \in Fields \ {"pc", "new"} : q[f] = p[f]
    BY <1>1 DEF Fields, Base
  <2>6. req' = [req EXCEPT ![r] = q]
    BY <1>5
  <2> HIDE DEF q
  <2>7. q.op = p.op /\ q.all = p.all /\ q.u = p.u
    BY <2>5 DEF Fields
  <2>8. Local(q, workspaces', projects', next')
    BY <1>2, <2>2, <2>4, <2>5, <2>7 DEF Local, OwnedBy
  <2>9. QED
    BY <1>1, <1>5, <2>4, <2>5, <2>6, <2>7, <2>8, MoveOn DEF Base
<1>6. ASSUME p.pc = "defaultProject",
             IF workspaces[p.new] # NoRow THEN InsertProject(p.new) ELSE UNCHANGED tables,
             req' = [req EXCEPT ![r].pc = then, ![r].new = 0]
      PROVE  Step(r)
  <2> DEFINE q == [req[r] EXCEPT !.pc = then, !.new = 0]
  <2>1. OwnedBy(p.new, p.u, workspaces)
    BY <1>1, <1>6 DEF Local
  <2>2. Effect(p.u)
    BY <1>1, <1>6, <2>1, NoEffect, InsertProjectEffect DEF OwnedBy
  <2>3. /\ DOMAIN q = Fields /\ q.pc = then /\ q.new = 0
        /\ \A f \in Fields \ {"pc", "new"} : q[f] = p[f]
    BY <1>1 DEF Fields, Base
  <2>4. req' = [req EXCEPT ![r] = q]
    BY <1>6
  <2> HIDE DEF q
  <2>5. q.op = p.op /\ q.all = p.all
    BY <2>3 DEF Fields
  <2>6. Local(q, workspaces', projects', next')
    BY <2>3, <2>5, EnsuringFree, PlainLocal
  <2>7. then \notin {"idle", "done", "defaultProject"}
    BY DEF Early
  <2>8. QED
    BY <1>1, <1>6, <2>2, <2>3, <2>4, <2>5, <2>6, <2>7, MoveOn DEF Base
<1>7. QED
  BY <1>3, <1>4, <1>5, <1>6 DEF ensurePersonalWorkspace

LEMMA LoginStep ==
    ASSUME WorkspacesInv, NEW r \in Requests, Login(r)
    PROVE  Step(r)
<1>1. req[r].op \in Ensuring /\ req[r].op = "Login"
  BY DEF Login, Ensuring
<1>2. CASE ensurePersonalWorkspace(r, "in")
  BY <1>1, <1>2, EnsureStep DEF Early
<1>3. CASE req[r].pc = "in" /\ Answer(r, 200, {}) /\ UNCHANGED tables
  <2>1. Effect(req[r].u)
    BY <1>3, NoEffect DEF WorkspacesInv
  <2>2. Cleared(req[r], workspaces, projects) /\ Listed(req[r], {})
    BY <1>1, EnsuringFree DEF Listed
  <2>3. QED
    BY <1>1, <1>3, <2>1, <2>2, AnswerStep DEF Statuses
<1>4. QED
  BY <1>2, <1>3 DEF Login

-----------------------------------------------------------------------------
(* Workspaces.                                                             *)

LEMMA ListWorkspacesStep ==
    ASSUME WorkspacesInv, NEW r \in Requests, ListWorkspaces(r)
    PROVE  Step(r)
<1>1. req[r].op \in Ensuring /\ req[r].op = "ListWorkspaces"
  BY DEF ListWorkspaces, Ensuring
<1>2. Cleared(req[r], workspaces, projects) /\ PlainAt(req[r], "rows")
  BY <1>1, EnsuringFree DEF Early
<1>3. CASE ensurePersonalWorkspace(r, "ids")
  BY <1>1, <1>3, EnsureStep DEF Early
<1>4. ASSUME NEW got, got \subseteq getAccessibleWorkspaceIds(req[r].u),
             req[r].pc \in {"ids", "rows"}, Answer(r, 200, got), UNCHANGED tables
      PROVE  Step(r)
  <2>1. Effect(req[r].u)
    BY <1>4, NoEffect DEF WorkspacesInv
  <2>2. Listed(req[r], got)
    BY <1>1, <1>4 DEF Listed, Mine, getAccessibleWorkspaceIds
  <2>3. QED
    BY <1>1, <1>2, <1>4, <2>1, <2>2, AnswerStep DEF Statuses
<1>5. CASE req[r].pc = "ids" /\ Goto(r, "rows") /\ UNCHANGED tables
  <2>1. Effect(req[r].u)
    BY <1>5, NoEffect DEF WorkspacesInv
  <2>2. QED
    BY <1>2, <1>5, <2>1, PlainGoto
<1>6. QED
  BY <1>3, <1>4, <1>5 DEF ListWorkspaces

LEMMA CreateWorkspaceStep ==
    ASSUME WorkspacesInv, NEW r \in Requests, CreateWorkspace(r)
    PROVE  Step(r)
<1>1. req[r].op \in Ensuring /\ req[r].op = "CreateWorkspace"
  BY DEF CreateWorkspace, Ensuring
<1>2. CASE ensurePersonalWorkspace(r, "insert")
  BY <1>1, <1>2, EnsureStep DEF Early
<1>3. ASSUME req[r].pc = "insert",
             InsertWorkspace([owner |-> req[r].u, personal |-> FALSE, all |-> req[r].all]),
             Answer(r, 201, {next.ws})
      PROVE  Step(r)
  <2> DEFINE row == [owner |-> req[r].u, personal |-> FALSE, all |-> req[r].all]
             got == {next.ws}
  <2>1. req[r].u \in Users /\ req[r].all \in BOOLEAN
    BY <1>3 DEF WorkspacesInv, Good, Base
  <2>2. row \in WorkspaceRow /\ InsertWorkspace(row)
    BY <1>3, <2>1 DEF WorkspaceRow
  <2>3. Answer(r, 201, got)
    BY <1>3
  <2> HIDE DEF row, got
  <2>4. Effect(req[r].u)
    BY <2>2, InsertWorkspaceEffect DEF WorkspacesInv
  <2>5. Cleared(req[r], workspaces, projects) /\ Listed(req[r], got)
    BY <1>1, EnsuringFree DEF Listed
  <2>6. QED
    BY <1>1, <1>3, <2>3, <2>4, <2>5, AnswerStep DEF Statuses
<1>4. QED
  BY <1>2, <1>3 DEF CreateWorkspace

LEMMA GetWorkspaceStep ==
    ASSUME WorkspacesInv, NEW r \in Requests, GetWorkspace(r)
    PROVE  Step(r)
<1>1. req[r].op = "GetWorkspace" /\ req[r].op \in OnWorkspace
  BY DEF GetWorkspace, At, OnWorkspace
<1>2. CASE req[r].pc = "access" /\ assertWorkspaceAccess(r, req[r].a, "select")
  BY <1>1, <1>2, WorkspaceAccessStep DEF PlainAt
<1>3. ASSUME req[r].pc = "select", UNCHANGED tables,
             IF workspaces[req[r].a] = NoRow THEN Answer(r, 404, {})
                                             ELSE Answer(r, 200, {req[r].a})
      PROVE  Step(r)
  <2> DEFINE got == {req[r].a}
  <2>1. Effect(req[r].u)
    BY <1>3, NoEffect DEF WorkspacesInv
  <2>2. CASE Answer(r, 404, {})
    BY <1>1, <1>3, <2>2, Refuse DEF Statuses
  <2>3. Cleared(req[r], workspaces, projects)
    BY <1>3, PastIsCleared
  <2>4. req[r].a # 0
    BY <1>1, <1>3, NextFacts DEF WorkspacesInv, Good, Base, Optional
  <2>5. Listed(req[r], got)
    BY <1>1, <2>3, <2>4 DEF Listed, Cleared, OwnedBy, Mine
  <2>6. CASE Answer(r, 200, got)
    <3> HIDE DEF got
    <3>1. QED
      BY <1>1, <1>3, <2>1, <2>3, <2>5, <2>6, AnswerStep DEF Statuses
  <2>7. QED
    BY <1>3, <2>2, <2>6
<1>4. QED
  BY <1>2, <1>3 DEF GetWorkspace, At

LEMMA PatchWorkspaceStep ==
    ASSUME WorkspacesInv, NEW r \in Requests, PatchWorkspace(r)
    PROVE  Step(r)
<1>1. req[r].op = "PatchWorkspace" /\ req[r].op \in OnWorkspace
  BY DEF PatchWorkspace, At, OnWorkspace
<1>2. CASE req[r].pc = "access" /\ assertWorkspaceAccess(r, req[r].a, "update")
  BY <1>1, <1>2, WorkspaceAccessStep DEF PlainAt
<1>3. CASE req[r].pc = "update" /\ Answer(r, 404, {}) /\ UNCHANGED tables
  BY <1>1, <1>3, Refuse DEF Statuses
<1>4. ASSUME req[r].pc = "update", workspaces[req[r].a] # NoRow,
             workspaces' = [workspaces EXCEPT ![req[r].a].all = req[r].all],
             Answer(r, 200, {req[r].a}),
             UNCHANGED <<projects, rules, ruleSets, wsRules, projRules,
                         projSets, setRules, next>>
      PROVE  Step(r)
  <2> DEFINE got == {req[r].a}
  <2>1. Cleared(req[r], workspaces, projects)
    BY <1>4, PastIsCleared
  <2>2. req[r].a # 0 /\ req[r].all \in BOOLEAN
    BY <1>1, <1>4, NextFacts DEF WorkspacesInv, Good, Base, Optional
  <2>3. OwnedBy(req[r].a, req[r].u, workspaces) /\ req[r].a \in Ids
    BY <1>1, <2>1, <2>2 DEF Cleared, OwnedBy
  <2>4. Effect(req[r].u)
    BY <1>4, <2>2, <2>3, PatchWorkspaceEffect DEF WorkspacesInv
  <2>5. Listed(req[r], got)
    BY <1>1, <2>3 DEF Listed, OwnedBy, Mine
  <2>6. Answer(r, 200, got)
    BY <1>4
  <2> HIDE DEF got
  <2>7. QED
    BY <1>1, <1>4, <2>1, <2>4, <2>5, <2>6, AnswerStep DEF Statuses
<1>5. QED
  BY <1>2, <1>3, <1>4 DEF PatchWorkspace, At

LEMMA DeleteWorkspaceStep ==
    ASSUME WorkspacesInv, NEW r \in Requests, DeleteWorkspace(r)
    PROVE  Step(r)
<1>1. req[r].op = "DeleteWorkspace" /\ req[r].op \in OnWorkspace
  BY DEF DeleteWorkspace, At, OnWorkspace
<1>2. CASE req[r].pc = "access" /\ assertWorkspaceAccess(r, req[r].a, "select")
  BY <1>1, <1>2, WorkspaceAccessStep DEF PlainAt
<1>3. ASSUME req[r].pc = "select", UNCHANGED tables,
             NEW status \in {400, 403, 404}, Answer(r, status, {})
      PROVE  Step(r)
  BY <1>1, <1>3, Refuse DEF Statuses
<1>4. ASSUME req[r].pc = "select", UNCHANGED tables,
             ~workspaces[req[r].a].personal, Goto(r, "delete")
      PROVE  Step(r)
  <2> DEFINE q == [req[r] EXCEPT !.pc = "delete"]
  <2>1. Effect(req[r].u)
    BY <1>4, NoEffect DEF WorkspacesInv
  <2>2. Base(req[r], next)
    BY DEF WorkspacesInv, Good
  <2>3. /\ DOMAIN q = Fields /\ q.pc = "delete"
        /\ \A f \in Fields \ {"pc"} : q[f] = req[r][f]
    BY <2>2 DEF Fields, Base
  <2>4. req' = [req EXCEPT ![r] = q]
    BY <1>4 DEF Goto
  <2> HIDE DEF q
  <2>5. /\ q.op = "DeleteWorkspace" /\ q.a = req[r].a /\ q.u = req[r].u
        /\ q.new = req[r].new /\ q.all = req[r].all
    BY <1>1, <2>3 DEF Fields
  <2>6. Cleared(req[r], workspaces, projects)
    BY <1>4, PastIsCleared
  <2>7. workspaces' = workspaces
    BY <1>4 DEF tables
  <2>8. q.op \in OnWorkspace /\ q.op \notin OnProject
    BY <1>1, <2>5, Disjoint
  <2>9. Local(q, workspaces', projects', next')
    <3>1. q.a # 0 => OwnedBy(q.a, q.u, workspaces')
      BY <1>1, <2>5, <2>6, <2>7 DEF Cleared
    <3>2. ~workspaces'[q.a].personal
      BY <1>4, <2>5, <2>7
    <3>3. /\ q.op \notin {"CloneWorkspace", "CreateProject", "ListProjects"}
          /\ q.pc \notin {"ensure", "createPersonal", "defaultProject"}
      BY <2>3, <2>5
    <3>4. QED
      BY <2>8, <3>1, <3>2, <3>3 DEF Local
  <2>10. QED
    BY <1>4, <2>1, <2>2, <2>3, <2>4, <2>5, <2>9, MoveOn DEF Base
<1>5. ASSUME req[r].pc = "delete", DeleteWorkspaceRow(req[r].a), Answer(r, 200, {})
      PROVE  Step(r)
  <2>1. Cleared(req[r], workspaces, projects)
    BY <1>5, PastIsCleared
  <2>2. req[r].a # 0
    BY <1>1, <1>5, NextFacts DEF WorkspacesInv, Good, Base, Optional
  <2>3. OwnedBy(req[r].a, req[r].u, workspaces)
    BY <1>1, <2>1, <2>2 DEF Cleared
  <2>4. workspaces[req[r].a] # NoRow => ~workspaces[req[r].a].personal
    BY <1>1, <1>5 DEF WorkspacesInv, Good, Local
  <2>5. Effect(req[r].u)
    BY <1>5, <2>3, <2>4, DeleteWorkspaceEffect DEF WorkspacesInv
  <2>6. Listed(req[r], {})
    BY DEF Listed
  <2>7. QED
    BY <1>1, <1>5, <2>1, <2>5, <2>6, AnswerStep DEF Statuses
<1>6. QED
  BY <1>2, <1>3, <1>4, <1>5 DEF DeleteWorkspace, At

\* An answer that lists neither workspaces nor projects.
LEMMA AnswerPast ==
    ASSUME WorkspacesInv, NEW r \in Requests, Effect(req[r].u),
           NEW status \in Statuses, NEW got, Answer(r, status, got),
           req[r].pc \notin {"idle", "access", "owner", "done"},
           req[r].op \notin {"CloneWorkspace", "ListWorkspaces", "GetWorkspace",
                             "PatchWorkspace", "ListProjects", "GetProject", "PatchProject"}
    PROVE  Step(r)
<1>1. Cleared(req[r], workspaces, projects)
  BY PastIsCleared
<1>2. Listed(req[r], got)
  BY DEF Listed
<1>3. QED
  BY <1>1, <1>2, AnswerStep

\* The copy is deleted whatever else has happened to it, and it is never a
\* personal workspace.
LEMMA CloneWorkspaceStep ==
    ASSUME WorkspacesInv, NEW r \in Requests, CloneWorkspace(r)
    PROVE  Step(r)
<1> DEFINE p == req[r]
<1>1. p.op = "CloneWorkspace" /\ p.op \in OnWorkspace /\ p.op \notin OnProject
  BY Disjoint DEF CloneWorkspace, OnWorkspace
<1>2. /\ Base(p, next) /\ Local(p, workspaces, projects, next) /\ TablesOK
      /\ Cloning(p, workspaces, next)
  BY <1>1 DEF WorkspacesInv, Good, Local
<1>3. \A got : Listed(p, got)
  BY <1>1 DEF Listed
<1>4. CASE p.pc = "access" /\ assertWorkspaceAccess(r, p.a, "select")
  <2>1. p.new = 0
    BY <1>2, <1>4 DEF Cloning
  <2>2. QED
    BY <1>1, <1>4, <2>1, WorkspaceAccessStep DEF PlainAt
<1>5. CASE p.pc = "select" /\ Answer(r, 404, {}) /\ UNCHANGED tables
  <2>1. p.new = 0
    BY <1>2, <1>5 DEF Cloning
  <2>2. QED
    BY <1>5, <2>1, Refuse DEF Statuses
<1>6. ASSUME p.pc = "select", UNCHANGED tables, workspaces[p.a] # NoRow,
             req' = [req EXCEPT ![r].pc = "insert", ![r].all = workspaces[p.a].all]
      PROVE  Step(r)
  <2> DEFINE q == [req[r] EXCEPT !.pc = "insert", !.all = workspaces[req[r].a].all]
  <2>1. p.new = 0
    BY <1>2, <1>6 DEF Cloning
  <2>2. Cleared(p, workspaces, projects) /\ Effect(p.u)
    BY <1>2, <1>6, PastIsCleared, NoEffect
  <2>3. p.a # 0
    BY <1>1, <1>2, <1>6, NextFacts DEF Base, Optional
  <2>4. p.a \in Ids
    BY <1>1, <2>2, <2>3 DEF Cleared, OwnedBy
  <2>5. workspaces[p.a].all \in BOOLEAN
    <3>1. workspaces[p.a] \in WorkspaceRow
      BY <1>2, <1>6, <2>4 DEF TablesOK, Rows
    <3>2. QED
      BY <3>1 DEF WorkspaceRow
  <2>6. /\ DOMAIN q = Fields /\ q.pc = "insert" /\ q.all = workspaces[p.a].all
        /\ \A f \in Fields \ {"pc", "all"} : q[f] = p[f]
    BY <1>2 DEF Fields, Base
  <2>7. req' = [req EXCEPT ![r] = q]
    BY <1>6
  <2> HIDE DEF q
  <2>8. q.op = p.op /\ q.new = 0 /\ q.a = p.a /\ q.u = p.u
    BY <2>1, <2>6 DEF Fields
  <2>9. Cleared(q, workspaces', projects') /\ PlainAt(q, q.pc)
    BY <1>1, <1>6, <2>2, <2>6, <2>8 DEF Cleared, PlainAt, tables
  <2>10. Local(q, workspaces', projects', next')
    BY <2>9, PlainLocal
  <2>11. QED
    BY <1>6, <2>2, <2>5, <2>6, <2>7, <2>8, <2>10, MoveOn
<1>7. ASSUME p.pc = "insert",
             InsertWorkspace([owner |-> p.u, personal |-> FALSE, all |-> p.all]),
             req' = [req EXCEPT ![r].pc = "rules", ![r].new = next.ws]
      PROVE  Step(r)
  <2> DEFINE row == [owner |-> p.u, personal |-> FALSE, all |-> p.all]
             q == [req[r] EXCEPT !.pc = "rules", !.new = next.ws]
  <2>1. p.u \in Users /\ p.all \in BOOLEAN
    BY <1>2, <1>7 DEF Base
  <2>2. row \in WorkspaceRow /\ row.owner = p.u /\ row.personal = FALSE
    BY <2>1 DEF WorkspaceRow
  <2>3. InsertWorkspace(row)
    BY <1>7
  <2> HIDE DEF row
  <2>4. /\ Effect(p.u) /\ next.ws \in Ids /\ workspaces'[next.ws] = row
        /\ next.ws \in 1 .. next'.ws - 1
    BY <1>2, <2>2, <2>3, InsertWorkspaceEffect
  <2>5. /\ DOMAIN q = Fields /\ q.pc = "rules" /\ q.new = next.ws
        /\ \A f \in Fields \ {"pc", "new"} : q[f] = p[f]
    BY <1>2 DEF Fields, Base
  <2>6. req' = [req EXCEPT ![r] = q]
    BY <1>7
  <2> HIDE DEF q
  <2>7. q.op = p.op /\ q.all = p.all /\ q.u = p.u /\ q.a = p.a
    BY <2>5 DEF Fields
  <2>8. Cloning(q, workspaces', next')
    <3>1. next.ws # 0
      BY <1>2, <2>4, NextFacts
    <3>2. OwnedBy(q.new, q.u, workspaces') /\ ~workspaces'[q.new].personal
      BY <2>2, <2>4, <2>5, <2>7 DEF OwnedBy
    <3>3. QED
      BY <2>4, <2>5, <3>1, <3>2 DEF Cloning
  <2>9. Cleared(p, workspaces, projects)
    BY <1>7, PastIsCleared
  <2>10. Cleared(p, workspaces', projects')
    BY <1>7, <2>4, <2>9, ClearedStays DEF Effect
  <2>11. Local(q, workspaces', projects', next')
    BY <1>1, <2>5, <2>7, <2>8, <2>10 DEF Local, Cleared
  <2>12. QED
    BY <1>2, <1>7, <2>4, <2>5, <2>6, <2>7, <2>11, MoveOn DEF Base
<1>8. ASSUME p.pc \in {"rules", "links"}, Effect(p.u), Answer(r, 201, {p.new})
      PROVE  Step(r)
  <2> DEFINE got == {p.new}
  <2>1. Cleared(p, workspaces, projects) /\ Listed(p, got) /\ Answer(r, 201, got)
    BY <1>3, <1>8, PastIsCleared
  <2> HIDE DEF got
  <2>2. QED
    BY <1>1, <1>8, <2>1, AnswerStep DEF Statuses
\* On to the next statement behind the insert.
<1>9. ASSUME p.pc \in {"rules", "links"}, UNCHANGED tables, NEW q,
             req' = [req EXCEPT ![r] = q], q.pc \in {"links", "cleanup"}, q.pc # p.pc,
             DOMAIN q = Fields, \A f \in Fields \ {"pc", "read"} : q[f] = p[f]
      PROVE  Step(r)
  <2>1. Effect(p.u) /\ workspaces' = workspaces /\ projects' = projects /\ next' = next
    BY <1>2, <1>9, NoEffect DEF tables
  <2>2. /\ q.op = p.op /\ q.new = p.new /\ q.a = p.a /\ q.u = p.u /\ q.all = p.all
        /\ q.ans = p.ans /\ q.dirty = p.dirty
    BY <1>9 DEF Fields
  <2>3. Cleared(p, workspaces, projects)
    BY <1>9, PastIsCleared
  <2>4. Cloning(q, workspaces', next')
    BY <1>2, <1>9, <2>1, <2>2 DEF Cloning
  <2>5. Local(q, workspaces', projects', next')
    BY <1>1, <1>9, <2>1, <2>2, <2>3, <2>4 DEF Local, Cleared
  <2>6. p.new \in Ids \cup {0} /\ p.all \in BOOLEAN
    BY <1>2 DEF Base
  <2>7. QED
    BY <1>9, <2>1, <2>2, <2>5, <2>6, MoveOn
<1>10. CASE /\ p.pc = "rules" /\ UNCHANGED tables
            /\ LET found == {l[2] : l \in {k \in wsRules : k[1] = p.a}}
               IN  IF found = {}
                   THEN Answer(r, 201, {p.new})
                   ELSE req' = [req EXCEPT ![r].pc = "links", ![r].read = found]
  <2> DEFINE found == {l[2] : l \in {k \in wsRules : k[1] = p.a}}
             q == [req[r] EXCEPT !.pc = "links", !.read = found]
  <2>1. Effect(p.u)
    BY <1>2, <1>10, NoEffect
  <2>2. CASE Answer(r, 201, {p.new})
    BY <1>8, <1>10, <2>1, <2>2
  <2>3. CASE req' = [req EXCEPT ![r].pc = "links", ![r].read = found]
    <3> HIDE DEF found
    <3>1. /\ DOMAIN q = Fields /\ q.pc = "links"
          /\ \A f \in Fields \ {"pc", "read"} : q[f] = p[f]
      BY <1>2 DEF Fields, Base
    <3>2. req' = [req EXCEPT ![r] = q]
      BY <2>3
    <3> HIDE DEF q
    <3>3. QED
      BY <1>9, <1>10, <3>1, <3>2
  <2>4. QED
    BY <1>10, <2>2, <2>3
<1>11. ASSUME p.pc = "links", workspaces[p.new] # NoRow,
              \A x \in p.read : IsRule(x),
              wsRules' = wsRules \cup ({p.new} \X p.read),
              Answer(r, 201, {p.new}),
              UNCHANGED <<workspaces, projects, rules, ruleSets,
                          projRules, projSets, setRules, next>>
       PROVE  Step(r)
  <2>1. OwnedBy(p.new, p.u, workspaces) /\ p.new \in Ids
    BY <1>2, <1>11 DEF Cloning, OwnedBy
  <2>2. \A l \in wsRules' : l \in wsRules \/
              (/\ l = <<l[1], l[2]>> /\ l[1] = p.new /\ workspaces[p.new] # NoRow
               /\ l[2] \in Ids /\ rules[l[2]] # NoCode)
    BY <1>11 DEF IsRule
  <2>3. Effect(p.u)
    BY <1>2, <1>11, <2>1, <2>2, WsRulesEffect
  <2>4. QED
    BY <1>8, <1>11, <2>3
<1>12. CASE p.pc = "links" /\ Goto(r, "cleanup") /\ UNCHANGED tables
  <2> DEFINE q == [req[r] EXCEPT !.pc = "cleanup"]
  <2>1. /\ DOMAIN q = Fields /\ q.pc = "cleanup"
        /\ \A f \in Fields \ {"pc", "read"} : q[f] = p[f]
    BY <1>2 DEF Fields, Base
  <2>2. req' = [req EXCEPT ![r] = q]
    BY <1>12 DEF Goto
  <2> HIDE DEF q
  <2>3. QED
    BY <1>9, <1>12, <2>1, <2>2
<1>13. CASE p.pc = "cleanup" /\ RollbackClone(r)
  <2>1. DeleteWorkspaceRow(p.new) /\ Answer(r, 500, {})
    BY <1>13 DEF RollbackClone
  <2>2. /\ OwnedBy(p.new, p.u, workspaces)
        /\ workspaces[p.new] # NoRow => ~workspaces[p.new].personal
    BY <1>2, <1>13 DEF Cloning
  <2>3. Effect(p.u) /\ workspaces'[p.new] = NoRow
    BY <1>2, <2>1, <2>2, DeleteWorkspaceEffect
  <2>4. QED
    BY <1>13, <2>1, <2>3, AnswerStep DEF Statuses
<1>14. QED
  BY <1>4, <1>5, <1>6, <1>7, <1>10, <1>11, <1>12, <1>13 DEF CloneWorkspace

LEMMA ListWorkspaceRulesStep ==
    ASSUME WorkspacesInv, NEW r \in Requests, ListWorkspaceRules(r)
    PROVE  Step(r)
<1>1. req[r].op = "ListWorkspaceRules" /\ req[r].op \in OnWorkspace
  BY DEF ListWorkspaceRules, At, OnWorkspace
<1>2. CASE req[r].pc = "access" /\ assertWorkspaceAccess(r, req[r].a, "select")
  BY <1>1, <1>2, WorkspaceAccessStep DEF PlainAt
<1>3. ASSUME req[r].pc = "select", UNCHANGED tables, NEW got, Answer(r, 200, got)
      PROVE  Step(r)
  <2>1. Effect(req[r].u)
    BY <1>3, NoEffect DEF WorkspacesInv
  <2>2. QED
    BY <1>1, <1>3, <2>1, AnswerPast DEF Statuses
<1>4. QED
  BY <1>2, <1>3 DEF ListWorkspaceRules, At

LEMMA LinkWorkspaceRuleStep ==
    ASSUME WorkspacesInv, NEW r \in Requests, LinkWorkspaceRule(r)
    PROVE  Step(r)
<1> DEFINE p == req[r]
<1>1. p.op = "LinkWorkspaceRule" /\ p.op \in OnWorkspace
  BY DEF LinkWorkspaceRule, At, OnWorkspace
<1>2. CASE p.pc = "access" /\ assertWorkspaceAccess(r, p.a, "rule")
  BY <1>1, <1>2, WorkspaceAccessStep DEF PlainAt
<1>3. CASE p.pc = "rule" /\ Exists(r, IsRule(p.b), "insert")
  <2>1. PlainAt(p, "insert") /\ Cleared(p, workspaces, projects)
    BY <1>1, <1>3, PastIsCleared DEF PlainAt
  <2> DEFINE present == IsRule(p.b)
  <2>2. Exists(r, present, "insert")
    BY <1>3
  <2> HIDE DEF present
  <2>3. QED
    BY <1>1, <1>3, <2>1, <2>2, ExistsStep
<1>4. ASSUME p.pc = "insert", NEW present,
             present = (workspaces[p.a] # NoRow /\ IsRule(p.b)),
             InsertLink(r, <<p.a, p.b>>, wsRules, present),
             wsRules' = IF present THEN wsRules \cup {<<p.a, p.b>>} ELSE wsRules,
             UNCHANGED <<workspaces, projects, rules, ruleSets,
                         projRules, projSets, setRules, next>>
      PROVE  Step(r)
  <2>1. Cleared(p, workspaces, projects)
    BY <1>4, PastIsCleared
  <2>2. p.a # 0
    BY <1>1, <1>4, NextFacts DEF WorkspacesInv, Good, Base, Optional
  <2>3. OwnedBy(p.a, p.u, workspaces) /\ p.a \in Ids
    BY <1>1, <2>1, <2>2 DEF Cleared, OwnedBy
  <2>4. \A l \in wsRules' : l \in wsRules \/
              (/\ l = <<l[1], l[2]>> /\ l[1] = p.a /\ workspaces[p.a] # NoRow
               /\ l[2] \in Ids /\ rules[l[2]] # NoCode)
    <3>1. present => workspaces[p.a] # NoRow /\ p.b \in Ids /\ rules[p.b] # NoCode
      BY <1>4 DEF IsRule
    <3>2. wsRules' = wsRules \/ (present /\ wsRules' = wsRules \cup {<<p.a, p.b>>})
      BY <1>4
    <3>3. QED
      BY <3>1, <3>2
  <2>5. Effect(p.u)
    BY <1>4, <2>3, <2>4, WsRulesEffect DEF WorkspacesInv
  <2> DEFINE link == <<p.a, p.b>>
  <2>6. InsertLink(r, link, wsRules, present)
    BY <1>4
  <2> HIDE DEF link
  <2>7. QED
    BY <1>1, <1>4, <2>5, <2>6, LinkStep
<1>5. QED
  BY <1>2, <1>3, <1>4 DEF LinkWorkspaceRule, At

LEMMA UnlinkWorkspaceRuleStep ==
    ASSUME WorkspacesInv, NEW r \in Requests, UnlinkWorkspaceRule(r)
    PROVE  Step(r)
<1> DEFINE p == req[r]
<1>1. p.op = "UnlinkWorkspaceRule" /\ p.op \in OnWorkspace
  BY DEF UnlinkWorkspaceRule, At, OnWorkspace
<1>2. CASE p.pc = "access" /\ assertWorkspaceAccess(r, p.a, "delete")
  BY <1>1, <1>2, WorkspaceAccessStep DEF PlainAt
<1>3. ASSUME p.pc = "delete", wsRules' = wsRules \ {<<p.a, p.b>>}, Answer(r, 200, {}),
             UNCHANGED <<workspaces, projects, rules, ruleSets,
                         projRules, projSets, setRules, next>>
      PROVE  Step(r)
  <2>1. Cleared(p, workspaces, projects)
    BY <1>3, PastIsCleared
  <2>2. p.a # 0
    BY <1>1, <1>3, NextFacts DEF WorkspacesInv, Good, Base, Optional
  <2>3. OwnedBy(p.a, p.u, workspaces) /\ p.a \in Ids
    BY <1>1, <2>1, <2>2 DEF Cleared, OwnedBy
  <2>4. \A l \in wsRules : l[1] # p.a => l \in wsRules'
    BY <1>3
  <2>5. Effect(p.u)
    BY <1>3, <2>3, <2>4, WsRulesEffect DEF WorkspacesInv
  <2>6. QED
    BY <1>1, <1>3, <2>5, AnswerPast DEF Statuses
<1>4. QED
  BY <1>2, <1>3 DEF UnlinkWorkspaceRule, At

-----------------------------------------------------------------------------
(* Projects.                                                               *)

LEMMA ListProjectsStep ==
    ASSUME WorkspacesInv, NEW r \in Requests, ListProjects(r)
    PROVE  Step(r)
<1> DEFINE p == req[r]
<1>1. /\ p.op = "ListProjects" /\ p.op \in OnWorkspace /\ p.op \notin OnProject
      /\ UNCHANGED tables
  BY Disjoint DEF ListProjects, At, OnWorkspace
<1>2. /\ Base(p, next) /\ Local(p, workspaces, projects, next) /\ TablesOK
      /\ Effect(p.u) /\ workspaces' = workspaces /\ next' = next
  BY <1>1, NoEffect DEF WorkspacesInv, Good, tables
<1>3. CASE p.pc = "access" /\ Answer(r, 403, {})
  BY <1>1, <1>3, Refuse DEF Statuses
<1>4. CASE p.pc = "access" /\ p.a = 0 /\ Answer(r, 200, {})
  <2>1. Cleared(p, workspaces, projects) /\ Listed(p, {})
    BY <1>1, <1>4 DEF Cleared, Listed
  <2>2. QED
    BY <1>1, <1>2, <1>4, <2>1, AnswerStep DEF Statuses
<1>5. ASSUME p.pc = "access", NEW ids, ids \subseteq getAccessibleWorkspaceIds(p.u),
             p.a # 0 => canAccessWorkspace(p.a, p.u),
             req' = [req EXCEPT ![r].pc = "select", ![r].read = ids]
      PROVE  Step(r)
  <2> DEFINE q == [req[r] EXCEPT !.pc = "select", !.read = ids]
  <2>1. /\ DOMAIN q = Fields /\ q.pc = "select" /\ q.read = ids
        /\ \A f \in Fields \ {"pc", "read"} : q[f] = p[f]
    BY <1>2 DEF Fields, Base
  <2>2. req' = [req EXCEPT ![r] = q]
    BY <1>5
  <2> HIDE DEF q
  <2>3. q.op = p.op /\ q.new = p.new /\ q.a = p.a /\ q.u = p.u /\ q.all = p.all
    BY <2>1 DEF Fields
  <2>4. p.u \in Users
    BY <1>2, <1>5 DEF Base
  <2>5. \A w \in ids : w \in Ids /\ workspaces[w].owner = p.u /\ workspaces[w] # NoRow
    BY <1>5, <2>4, NoRowFacts DEF getAccessibleWorkspaceIds
  <2>6. \A w \in ids : w \in 1 .. next.ws - 1 /\ OwnedBy(w, p.u, workspaces)
    <3>1. \A w \in Ids : w < next.ws => w \in 1 .. next.ws - 1
      BY <1>2, IdsStay DEF Effect
    <3>2. QED
      BY <1>2, <2>5, <3>1 DEF OwnedBy, TablesOK, Given
  <2>7. p.a # 0 => OwnedBy(p.a, p.u, workspaces)
    BY <1>5 DEF canAccessWorkspace, OwnedBy
  <2>8. Local(q, workspaces', projects', next')
    BY <1>1, <1>2, <2>1, <2>3, <2>6, <2>7 DEF Local
  <2>9. QED
    BY <1>2, <1>5, <2>1, <2>2, <2>3, <2>8, MoveOn DEF Base
<1>6. CASE p.pc = "select" /\ Answer(r, 200, {x \in Ids : projects[x] \in p.read})
  <2> DEFINE got == {x \in Ids : projects[x] \in p.read}
  <2>1. Cleared(p, workspaces, projects)
    BY <1>6, PastIsCleared
  <2>2. \A w \in p.read : OwnedBy(w, p.u, workspaces)
    BY <1>1, <1>2, <1>6 DEF Local
  <2>3. \A x \in got : projects[x] # 0 /\ Mine(projects[x], p.u)
    BY <1>2, <2>2, NextFacts DEF OwnedBy, Mine
  <2>4. Listed(p, got) /\ Answer(r, 200, got)
    BY <1>1, <1>6, <2>3 DEF Listed
  <2> HIDE DEF got
  <2>5. QED
    BY <1>1, <1>2, <1>6, <2>1, <2>4, AnswerStep DEF Statuses
<1>7. ASSUME p.pc = "access", p.a # 0, canAccessWorkspace(p.a, p.u),
             req' = [req EXCEPT ![r].pc = "select", ![r].read = {p.a}]
      PROVE  Step(r)
  <2> DEFINE ids == {p.a}
  <2>1. ids \subseteq getAccessibleWorkspaceIds(p.u)
    BY <1>7 DEF canAccessWorkspace, getAccessibleWorkspaceIds
  <2>2. req' = [req EXCEPT ![r].pc = "select", ![r].read = ids]
    BY <1>7
  <2> HIDE DEF ids
  <2>3. QED
    BY <1>5, <1>7, <2>1, <2>2
<1>8. ASSUME p.pc = "access", p.a = 0,
             req' = [req EXCEPT ![r].pc = "select", ![r].read = getAccessibleWorkspaceIds(p.u)]
      PROVE  Step(r)
  BY <1>5, <1>8
<1>9. QED
  BY <1>3, <1>4, <1>6, <1>7, <1>8 DEF ListProjects, At

LEMMA CreateProjectStep ==
    ASSUME WorkspacesInv, NEW r \in Requests, CreateProject(r)
    PROVE  Step(r)
<1> DEFINE p == req[r]
<1>1. p.op = "CreateProject" /\ p.op \in OnWorkspace /\ p.op \notin OnProject
  BY Disjoint DEF CreateProject, OnWorkspace
<1>2. Base(p, next) /\ Local(p, workspaces, projects, next) /\ TablesOK
  BY DEF WorkspacesInv, Good
<1>3. CASE p.pc = "access" /\ assertWorkspaceAccess(r, p.a, "insert")
  BY <1>1, <1>3, WorkspaceAccessStep DEF PlainAt
<1>4. CASE p.pc \in {"insert", "links"} /\ Answer(r, 500, {}) /\ UNCHANGED tables
  BY <1>1, <1>4, Refuse DEF Statuses
<1>5. ASSUME p.pc # "access", p.pc \notin {"idle", "owner", "done"}
      PROVE  p.a \in Ids /\ OwnedBy(p.a, p.u, workspaces) /\ Cleared(p, workspaces, projects)
  <2>1. Cleared(p, workspaces, projects)
    BY <1>5, PastIsCleared
  <2>2. p.a # 0
    BY <1>1, <1>2, <1>5, NextFacts DEF Base, Optional
  <2>3. QED
    BY <1>1, <2>1, <2>2 DEF Cleared, OwnedBy
\* On to a statement behind the insert.
<1>6. ASSUME p.pc \in {"insert", "rules", "links"}, Effect(p.u), NEW q,
             req' = [req EXCEPT ![r] = q], q.pc \in {"rules", "links", "count"}, q.pc # p.pc,
             DOMAIN q = Fields, \A f \in Fields \ {"pc", "read", "new"} : q[f] = p[f],
             q.new \in Ids, q.new \in 1 .. next'.project - 1, projects'[q.new] \in {0, q.a}
      PROVE  Step(r)
  <2>1. q.op = p.op /\ q.a = p.a /\ q.u = p.u /\ q.all = p.all
    BY <1>6 DEF Fields
  <2>2. Cleared(p, workspaces', projects')
    BY <1>5, <1>6, ClearedStays DEF Effect
  <2>3. Local(q, workspaces', projects', next')
    BY <1>1, <1>6, <2>1, <2>2 DEF Local, Cleared
  <2>4. p.all \in BOOLEAN
    BY <1>2 DEF Base
  <2>5. QED
    BY <1>6, <2>1, <2>3, <2>4, MoveOn
<1>7. ASSUME p.pc = "insert", workspaces[p.a] # NoRow, InsertProject(p.a),
             req' = [req EXCEPT ![r].pc = "rules", ![r].new = next.project]
      PROVE  Step(r)
  <2> DEFINE q == [req[r] EXCEPT !.pc = "rules", !.new = next.project]
  <2>1. /\ p.a \in Ids /\ workspaces[p.a].owner = p.u
    BY <1>5, <1>7 DEF OwnedBy
  <2>2. /\ Effect(p.u) /\ next.project \in Ids /\ projects'[next.project] = p.a
        /\ next.project \in 1 .. next'.project - 1
    BY <1>2, <1>7, <2>1, InsertProjectEffect
  <2>3. /\ DOMAIN q = Fields /\ q.pc = "rules" /\ q.new = next.project
        /\ \A f \in Fields \ {"pc", "read", "new"} : q[f] = p[f]
    BY <1>2 DEF Fields, Base
  <2>4. req' = [req EXCEPT ![r] = q]
    BY <1>7
  <2> HIDE DEF q
  <2>5. q.a = p.a
    BY <2>3 DEF Fields
  <2>6. QED
    BY <1>6, <1>7, <2>2, <2>3, <2>4, <2>5
<1>8. ASSUME p.pc \in {"rules", "links"}, Effect(p.u), NEW q,
             req' = [req EXCEPT ![r] = q], q.pc \in {"links", "count"}, q.pc # p.pc,
             DOMAIN q = Fields, \A f \in Fields \ {"pc", "read"} : q[f] = p[f]
      PROVE  Step(r)
  <2>1. q.new = p.new /\ q.a = p.a
    BY <1>8 DEF Fields
  <2>2. p.new \in 1 .. next.project - 1 /\ projects[p.new] \in {0, p.a}
    BY <1>1, <1>2, <1>8 DEF Local
  <2>3. p.new \in Ids /\ p.new \in 1 .. next'.project - 1 /\ projects'[p.new] \in {0, p.a}
    BY <1>2, <1>8, <2>2, IdsStay, ProjectStays DEF Effect
  <2>4. QED
    BY <1>6, <1>8, <2>1, <2>3
<1>9. ASSUME p.pc \in {"rules", "links"}, Effect(p.u), Goto(r, "count")
      PROVE  Step(r)
  <2> DEFINE q == [req[r] EXCEPT !.pc = "count"]
  <2>1. /\ DOMAIN q = Fields /\ q.pc = "count"
        /\ \A f \in Fields \ {"pc", "read"} : q[f] = p[f]
    BY <1>2 DEF Fields, Base
  <2>2. req' = [req EXCEPT ![r] = q]
    BY <1>9 DEF Goto
  <2> HIDE DEF q
  <2>3. QED
    BY <1>8, <1>9, <2>1, <2>2
<1>10. ASSUME p.pc = "rules", UNCHANGED tables, NEW found,
              req' = [req EXCEPT ![r].pc = "links", ![r].read = found]
       PROVE  Step(r)
  <2> DEFINE q == [req[r] EXCEPT !.pc = "links", !.read = found]
  <2>1. /\ DOMAIN q = Fields /\ q.pc = "links"
        /\ \A f \in Fields \ {"pc", "read"} : q[f] = p[f]
    BY <1>2 DEF Fields, Base
  <2>2. req' = [req EXCEPT ![r] = q]
    BY <1>10
  <2>3. Effect(p.u)
    BY <1>2, <1>10, NoEffect
  <2> HIDE DEF q
  <2>4. QED
    BY <1>8, <1>10, <2>1, <2>2, <2>3
<1>11. CASE p.pc = "rules" /\ Goto(r, "count") /\ UNCHANGED tables
  <2>1. Effect(p.u)
    BY <1>2, <1>11, NoEffect
  <2>2. QED
    BY <1>9, <1>11, <2>1
<1>12. ASSUME p.pc = "links", IsProject(p.new), \A x \in p.read : IsRule(x),
              projRules' = projRules \cup ({p.new} \X p.read), Goto(r, "count"),
              UNCHANGED <<workspaces, projects, rules, ruleSets,
                          wsRules, projSets, setRules, next>>
       PROVE  Step(r)
  <2>1. projects[p.new] \in {0, p.a}
    BY <1>1, <1>2, <1>12 DEF Local
  <2>2. projects[p.new] = 0 \/ OwnedBy(projects[p.new], p.u, workspaces)
    BY <1>5, <1>12, <2>1
  <2>3. \A l \in projRules' : l \in projRules \/
              (/\ l = <<l[1], l[2]>> /\ l[1] = p.new /\ p.new \in Ids /\ projects[p.new] # 0
               /\ l[2] \in Ids /\ rules[l[2]] # NoCode)
    BY <1>12 DEF IsRule, IsProject
  <2>4. Effect(p.u)
    BY <1>2, <1>12, <2>2, <2>3, ProjRulesEffect
  <2>5. QED
    BY <1>9, <1>12, <2>4
<1>13. CASE p.pc = "count" /\ Answer(r, 201, {p.new}) /\ UNCHANGED tables
  <2> DEFINE got == {p.new}
  <2>1. Effect(p.u) /\ Answer(r, 201, got)
    BY <1>2, <1>13, NoEffect
  <2> HIDE DEF got
  <2>2. QED
    BY <1>1, <1>13, <2>1, AnswerPast DEF Statuses
<1>14. QED
  BY <1>3, <1>4, <1>7, <1>10, <1>11, <1>12, <1>13 DEF CreateProject

LEMMA GetProjectStep ==
    ASSUME WorkspacesInv, NEW r \in Requests, GetProject(r)
    PROVE  Step(r)
<1> DEFINE p == req[r]
<1>1. p.op = "GetProject" /\ p.op \in OnProject
  BY DEF GetProject, At, assertProjectAccess, OnProject
<1>2. CASE assertProjectAccess(r, "GetProject", "select")
  BY <1>1, <1>2, ProjectAccessStep DEF Early
<1>3. CASE p.pc = "select" /\ Answer(r, 404, {}) /\ UNCHANGED tables
  BY <1>1, <1>3, Refuse DEF Statuses
<1>4. ASSUME p.pc = "select", UNCHANGED tables, IsProject(p.a), Answer(r, 200, {p.a})
      PROVE  Step(r)
  <2> DEFINE got == {p.a}
  <2>1. Effect(p.u) /\ Answer(r, 200, got)
    BY <1>4, NoEffect DEF WorkspacesInv
  <2>2. Cleared(p, workspaces, projects)
    BY <1>4, PastIsCleared
  <2>3. Listed(p, got)
    BY <1>1, <1>4, <2>2 DEF Listed, Cleared, OwnedBy, Mine, IsProject
  <2> HIDE DEF got
  <2>4. QED
    BY <1>1, <1>4, <2>1, <2>2, <2>3, AnswerStep DEF Statuses
<1>5. QED
  BY <1>2, <1>3, <1>4 DEF GetProject, At

LEMMA PatchProjectStep ==
    ASSUME WorkspacesInv, NEW r \in Requests, PatchProject(r)
    PROVE  Step(r)
<1> DEFINE p == req[r]
<1>1. p.op = "PatchProject" /\ p.op \in OnProject
  BY DEF PatchProject, At, assertProjectAccess, OnProject
<1>2. CASE assertProjectAccess(r, "PatchProject", "update")
  BY <1>1, <1>2, ProjectAccessStep DEF Early
<1>3. CASE p.pc = "select" /\ Answer(r, 404, {}) /\ UNCHANGED tables
  BY <1>1, <1>3, Refuse DEF Statuses
<1>4. ASSUME p.pc = "select", UNCHANGED tables, IsProject(p.a), Answer(r, 200, {p.a})
      PROVE  Step(r)
  <2> DEFINE got == {p.a}
  <2>1. Effect(p.u) /\ Answer(r, 200, got)
    BY <1>4, NoEffect DEF WorkspacesInv
  <2>2. Cleared(p, workspaces, projects)
    BY <1>4, PastIsCleared
  <2>3. Listed(p, got)
    BY <1>1, <1>4, <2>2 DEF Listed, Cleared, OwnedBy, Mine, IsProject
  <2> HIDE DEF got
  <2>4. QED
    BY <1>1, <1>4, <2>1, <2>2, <2>3, AnswerStep DEF Statuses
<1>5. CASE p.pc = "update" /\ Exists(r, IsProject(p.a), "select")
  <2> DEFINE present == IsProject(p.a)
  <2>1. PlainAt(p, "select") /\ Cleared(p, workspaces, projects)
    BY <1>1, <1>5, PastIsCleared DEF PlainAt
  <2>2. Exists(r, present, "select")
    BY <1>5
  <2> HIDE DEF present
  <2>3. QED
    BY <1>1, <1>5, <2>1, <2>2, ExistsStep
<1>6. QED
  BY <1>2, <1>3, <1>4, <1>5 DEF PatchProject, At

LEMMA DeleteProjectStep ==
    ASSUME WorkspacesInv, NEW r \in Requests, DeleteProject(r)
    PROVE  Step(r)
<1> DEFINE p == req[r]
<1>1. p.op = "DeleteProject" /\ p.op \in OnProject
  BY DEF DeleteProject, At, assertProjectAccess, OnProject
<1>2. CASE assertProjectAccess(r, "DeleteProject", "select")
  BY <1>1, <1>2, ProjectAccessStep DEF Early
<1>3. CASE p.pc = "select" /\ Exists(r, IsProject(p.a), "delete")
  <2> DEFINE present == IsProject(p.a)
  <2>1. PlainAt(p, "delete") /\ Cleared(p, workspaces, projects)
    BY <1>1, <1>3, PastIsCleared DEF PlainAt
  <2>2. Exists(r, present, "delete")
    BY <1>3
  <2> HIDE DEF present
  <2>3. QED
    BY <1>1, <1>3, <2>1, <2>2, ExistsStep
<1>4. CASE p.pc = "delete" /\ DeleteProjectRow(p.a) /\ Answer(r, 200, {})
  <2>1. p.a \in Ids /\ (projects[p.a] = 0 \/ OwnedBy(projects[p.a], p.u, workspaces))
    <3>1. Cleared(p, workspaces, projects)
      BY <1>4, PastIsCleared
    <3>2. p.a \in 1 .. next.project - 1
      BY <1>1, <1>4 DEF WorkspacesInv, Good, Base
    <3>3. p.a \in Ids
      BY <3>2, NextFacts DEF WorkspacesInv, Ids
    <3>4. QED
      BY <1>1, <3>1, <3>3 DEF Cleared
  <2>2. Effect(p.u)
    BY <1>4, <2>1, DeleteProjectEffect DEF WorkspacesInv
  <2>3. QED
    BY <1>1, <1>4, <2>2, AnswerPast DEF Statuses
<1>5. QED
  BY <1>2, <1>3, <1>4 DEF DeleteProject, At

LEMMA ListProjectRulesStep ==
    ASSUME WorkspacesInv, NEW r \in Requests, ListProjectRules(r)
    PROVE  Step(r)
<1> DEFINE p == req[r]
<1>1. p.op = "ListProjectRules" /\ p.op \in OnProject
  BY DEF ListProjectRules, At, assertProjectAccess, OnProject
<1>2. CASE assertProjectAccess(r, "ListProjectRules", "select")
  BY <1>1, <1>2, ProjectAccessStep DEF Early
<1>3. ASSUME p.pc = "select", UNCHANGED tables, NEW got, Answer(r, 200, got)
      PROVE  Step(r)
  <2>1. Effect(p.u)
    BY <1>3, NoEffect DEF WorkspacesInv
  <2>2. QED
    BY <1>1, <1>3, <2>1, AnswerPast DEF Statuses
<1>4. QED
  BY <1>2, <1>3 DEF ListProjectRules, At

LEMMA LinkProjectRuleStep ==
    ASSUME WorkspacesInv, NEW r \in Requests, LinkProjectRule(r)
    PROVE  Step(r)
<1> DEFINE p == req[r]
<1>1. p.op = "LinkProjectRule" /\ p.op \in OnProject
  BY DEF LinkProjectRule, At, assertProjectAccess, OnProject
<1>2. CASE assertProjectAccess(r, "LinkProjectRule", "project")
  BY <1>1, <1>2, ProjectAccessStep DEF Early
<1>3. CASE p.pc = "project" /\ Exists(r, IsProject(p.a), "rule")
  <2> DEFINE present == IsProject(p.a)
  <2>1. PlainAt(p, "rule") /\ Cleared(p, workspaces, projects)
    BY <1>1, <1>3, PastIsCleared DEF PlainAt
  <2>2. Exists(r, present, "rule")
    BY <1>3
  <2> HIDE DEF present
  <2>3. QED
    BY <1>1, <1>3, <2>1, <2>2, ExistsStep
<1>4. CASE p.pc = "rule" /\ Exists(r, IsRule(p.b), "insert")
  <2> DEFINE present == IsRule(p.b)
  <2>1. PlainAt(p, "insert") /\ Cleared(p, workspaces, projects)
    BY <1>1, <1>4, PastIsCleared DEF PlainAt
  <2>2. Exists(r, present, "insert")
    BY <1>4
  <2> HIDE DEF present
  <2>3. QED
    BY <1>1, <1>4, <2>1, <2>2, ExistsStep
<1>5. ASSUME p.pc = "insert", NEW present,
             present = (IsProject(p.a) /\ IsRule(p.b)),
             InsertLink(r, <<p.a, p.b>>, projRules, present),
             projRules' = IF present THEN projRules \cup {<<p.a, p.b>>} ELSE projRules,
             UNCHANGED <<workspaces, projects, rules, ruleSets,
                         wsRules, projSets, setRules, next>>
      PROVE  Step(r)
  <2>1. p.a \in Ids /\ (projects[p.a] = 0 \/ OwnedBy(projects[p.a], p.u, workspaces))
    <3>1. Cleared(p, workspaces, projects)
      BY <1>5, PastIsCleared
    <3>2. p.a \in 1 .. next.project - 1
      BY <1>1, <1>5 DEF WorkspacesInv, Good, Base
    <3>3. p.a \in Ids
      BY <3>2, NextFacts DEF WorkspacesInv, Ids
    <3>4. QED
      BY <1>1, <3>1, <3>3 DEF Cleared
  <2>2. \A l \in projRules' : l \in projRules \/
              (/\ l = <<l[1], l[2]>> /\ l[1] = p.a /\ p.a \in Ids /\ projects[p.a] # 0
               /\ l[2] \in Ids /\ rules[l[2]] # NoCode)
    <3>1. present => projects[p.a] # 0 /\ p.b \in Ids /\ rules[p.b] # NoCode
      BY <1>5 DEF IsProject, IsRule
    <3>2. projRules' = projRules \/ (present /\ projRules' = projRules \cup {<<p.a, p.b>>})
      BY <1>5
    <3>3. QED
      BY <2>1, <3>1, <3>2
  <2>3. \A l \in projRules : l[1] # p.a => l \in projRules'
    BY <1>5
  <2>4. Effect(p.u)
    BY <1>5, <2>1, <2>2, <2>3, ProjRulesEffect DEF WorkspacesInv
  <2> DEFINE link == <<p.a, p.b>>
  <2>5. InsertLink(r, link, projRules, present)
    BY <1>5
  <2> HIDE DEF link
  <2>6. QED
    BY <1>1, <1>5, <2>4, <2>5, LinkStep
<1>6. QED
  BY <1>2, <1>3, <1>4, <1>5 DEF LinkProjectRule, At

LEMMA UnlinkProjectRuleStep ==
    ASSUME WorkspacesInv, NEW r \in Requests, UnlinkProjectRule(r)
    PROVE  Step(r)
<1> DEFINE p == req[r]
<1>1. p.op = "UnlinkProjectRule" /\ p.op \in OnProject
  BY DEF UnlinkProjectRule, At, assertProjectAccess, OnProject
<1>2. CASE assertProjectAccess(r, "UnlinkProjectRule", "delete")
  BY <1>1, <1>2, ProjectAccessStep DEF Early
<1>3. ASSUME p.pc = "delete", projRules' = projRules \ {<<p.a, p.b>>}, Answer(r, 200, {}),
             UNCHANGED <<workspaces, projects, rules, ruleSets,
                         wsRules, projSets, setRules, next>>
      PROVE  Step(r)
  <2>1. p.a \in Ids /\ (projects[p.a] = 0 \/ OwnedBy(projects[p.a], p.u, workspaces))
    <3>1. Cleared(p, workspaces, projects)
      BY <1>3, PastIsCleared
    <3>2. p.a \in 1 .. next.project - 1
      BY <1>1, <1>3 DEF WorkspacesInv, Good, Base
    <3>3. p.a \in Ids
      BY <3>2, NextFacts DEF WorkspacesInv, Ids
    <3>4. QED
      BY <1>1, <3>1, <3>3 DEF Cleared
  <2>2. \A l \in projRules : l[1] # p.a => l \in projRules'
    BY <1>3
  <2>3. Effect(p.u)
    BY <1>3, <2>1, <2>2, ProjRulesEffect DEF WorkspacesInv
  <2>4. QED
    BY <1>1, <1>3, <2>3, AnswerPast DEF Statuses
<1>4. QED
  BY <1>2, <1>3 DEF UnlinkProjectRule, At

LEMMA ListProjectRuleSetsStep ==
    ASSUME WorkspacesInv, NEW r \in Requests, ListProjectRuleSets(r)
    PROVE  Step(r)
<1> DEFINE p == req[r]
<1>1. p.op = "ListProjectRuleSets" /\ p.op \in OnProject
  BY DEF ListProjectRuleSets, At, assertProjectAccess, OnProject
<1>2. CASE assertProjectAccess(r, "ListProjectRuleSets", "select")
  BY <1>1, <1>2, ProjectAccessStep DEF Early
<1>3. ASSUME p.pc = "select", UNCHANGED tables, NEW got, Answer(r, 200, got)
      PROVE  Step(r)
  <2>1. Effect(p.u)
    BY <1>3, NoEffect DEF WorkspacesInv
  <2>2. QED
    BY <1>1, <1>3, <2>1, AnswerPast DEF Statuses
<1>4. QED
  BY <1>2, <1>3 DEF ListProjectRuleSets, At

LEMMA LinkProjectRuleSetStep ==
    ASSUME WorkspacesInv, NEW r \in Requests, LinkProjectRuleSet(r)
    PROVE  Step(r)
<1> DEFINE p == req[r]
<1>1. p.op = "LinkProjectRuleSet" /\ p.op \in OnProject
  BY DEF LinkProjectRuleSet,
         At, assertProjectAccess, OnProject
<1>2. CASE assertProjectAccess(r, "LinkProjectRuleSet", "project")
  BY <1>1, <1>2, ProjectAccessStep DEF Early
<1>3. CASE p.pc = "project" /\ Exists(r, IsProject(p.a), "set")
  <2> DEFINE present == IsProject(p.a)
  <2>1. PlainAt(p, "set") /\ Cleared(p, workspaces, projects)
    BY <1>1, <1>3, PastIsCleared DEF PlainAt
  <2>2. Exists(r, present, "set")
    BY <1>3
  <2> HIDE DEF present
  <2>3. QED
    BY <1>1, <1>3, <2>1, <2>2, ExistsStep
<1>4. CASE p.pc = "set" /\ Exists(r, p.b \in ruleSets, "insert")
  <2> DEFINE present == p.b \in ruleSets
  <2>1. PlainAt(p, "insert") /\ Cleared(p, workspaces, projects)
    BY <1>1, <1>4, PastIsCleared DEF PlainAt
  <2>2. Exists(r, present, "insert")
    BY <1>4
  <2> HIDE DEF present
  <2>3. QED
    BY <1>1, <1>4, <2>1, <2>2, ExistsStep
<1>5. ASSUME p.pc = "insert", NEW present,
             present = (IsProject(p.a) /\ p.b \in ruleSets),
             InsertLink(r, <<p.a, p.b>>, projSets, present),
             projSets' = IF present THEN projSets \cup {<<p.a, p.b>>} ELSE projSets,
             UNCHANGED <<workspaces, projects, rules, ruleSets,
                         wsRules, projRules, setRules, next>>
      PROVE  Step(r)
  <2>1. p.a \in Ids /\ (projects[p.a] = 0 \/ OwnedBy(projects[p.a], p.u, workspaces))
    <3>1. Cleared(p, workspaces, projects)
      BY <1>5, PastIsCleared
    <3>2. p.a \in 1 .. next.project - 1
      BY <1>1, <1>5 DEF WorkspacesInv, Good, Base
    <3>3. p.a \in Ids
      BY <3>2, NextFacts DEF WorkspacesInv, Ids
    <3>4. QED
      BY <1>1, <3>1, <3>3 DEF Cleared
  <2>2. \A l \in projSets' : l \in projSets \/
              (/\ l = <<l[1], l[2]>> /\ l[1] = p.a /\ p.a \in Ids /\ projects[p.a] # 0
               /\ l[2] \in ruleSets)
    <3>1. present => projects[p.a] # 0 /\ p.b \in ruleSets
      BY <1>5 DEF IsProject
    <3>2. projSets' = projSets \/ (present /\ projSets' = projSets \cup {<<p.a, p.b>>})
      BY <1>5
    <3>3. QED
      BY <2>1, <3>1, <3>2
  <2>3. \A l \in projSets : l[1] # p.a => l \in projSets'
    BY <1>5
  <2>4. Effect(p.u)
    BY <1>5, <2>1, <2>2, <2>3, ProjSetsEffect DEF WorkspacesInv
  <2> DEFINE link == <<p.a, p.b>>
  <2>5. InsertLink(r, link, projSets, present)
    BY <1>5
  <2> HIDE DEF link
  <2>6. QED
    BY <1>1, <1>5, <2>4, <2>5, LinkStep
<1>6. QED
  BY <1>2, <1>3, <1>4, <1>5 DEF LinkProjectRuleSet, At

LEMMA UnlinkProjectRuleSetStep ==
    ASSUME WorkspacesInv, NEW r \in Requests, UnlinkProjectRuleSet(r)
    PROVE  Step(r)
<1> DEFINE p == req[r]
<1>1. p.op = "UnlinkProjectRuleSet" /\ p.op \in OnProject
  BY DEF UnlinkProjectRuleSet, At, assertProjectAccess, OnProject
<1>2. CASE assertProjectAccess(r, "UnlinkProjectRuleSet", "delete")
  BY <1>1, <1>2, ProjectAccessStep DEF Early
<1>3. ASSUME p.pc = "delete", projSets' = projSets \ {<<p.a, p.b>>}, Answer(r, 200, {}),
             UNCHANGED <<workspaces, projects, rules, ruleSets,
                         wsRules, projRules, setRules, next>>
      PROVE  Step(r)
  <2>1. p.a \in Ids /\ (projects[p.a] = 0 \/ OwnedBy(projects[p.a], p.u, workspaces))
    <3>1. Cleared(p, workspaces, projects)
      BY <1>3, PastIsCleared
    <3>2. p.a \in 1 .. next.project - 1
      BY <1>1, <1>3 DEF WorkspacesInv, Good, Base
    <3>3. p.a \in Ids
      BY <3>2, NextFacts DEF WorkspacesInv, Ids
    <3>4. QED
      BY <1>1, <3>1, <3>3 DEF Cleared
  <2>2. \A l \in projSets : l[1] # p.a => l \in projSets'
    BY <1>3
  <2>3. Effect(p.u)
    BY <1>3, <2>1, <2>2, ProjSetsEffect DEF WorkspacesInv
  <2>4. QED
    BY <1>1, <1>3, <2>3, AnswerPast DEF Statuses
<1>4. QED
  BY <1>2, <1>3 DEF UnlinkProjectRuleSet, At

LEMMA EffectiveRulesStep ==
    ASSUME WorkspacesInv, NEW r \in Requests, EffectiveRules(r)
    PROVE  Step(r)
<1> DEFINE p == req[r]
<1>1. p.op = "EffectiveRules" /\ p.op \in OnProject
  BY DEF EffectiveRules, assertProjectAccess, At, OnProject
<1>2. CASE assertProjectAccess(r, "EffectiveRules", "direct")
  BY <1>1, <1>2, ProjectAccessStep DEF Early
<1>3. ASSUME UNCHANGED tables, p.pc \in {"direct", "sets", "setRules"}, NEW q,
             req' = [req EXCEPT ![r] = q], q.pc \in {"sets", "setRules"}, q.pc # p.pc,
             DOMAIN q = Fields, \A f \in Fields \ {"pc", "read", "sets"} : q[f] = p[f]
      PROVE  Step(r)
  <2>1. Effect(p.u) /\ workspaces' = workspaces /\ projects' = projects
    BY <1>3, NoEffect DEF WorkspacesInv, tables
  <2>2. /\ q.op = p.op /\ q.a = p.a /\ q.u = p.u /\ q.all = p.all /\ q.new = p.new
    BY <1>3 DEF Fields
  <2>3. Cleared(q, workspaces', projects') /\ PlainAt(q, q.pc)
    <3>1. Cleared(p, workspaces, projects)
      BY <1>3, PastIsCleared
    <3>2. QED
      BY <1>1, <1>3, <2>1, <2>2, <3>1 DEF Cleared, PlainAt
  <2>4. Local(q, workspaces', projects', next')
    BY <2>3, PlainLocal
  <2>5. p.new \in Ids \cup {0} /\ p.all \in BOOLEAN
    BY DEF WorkspacesInv, Good, Base
  <2>6. QED
    BY <1>3, <2>1, <2>2, <2>4, <2>5, MoveOn
<1>4. DOMAIN p = Fields
  BY DEF WorkspacesInv, Good, Base
<1>5. ASSUME UNCHANGED tables, p.pc = "direct", NEW found,
             req' = [req EXCEPT ![r].pc = "sets", ![r].read = found]
      PROVE  Step(r)
  <2> DEFINE q == [req[r] EXCEPT !.pc = "sets", !.read = found]
  <2>1. /\ DOMAIN q = Fields /\ q.pc = "sets"
        /\ \A f \in Fields \ {"pc", "read", "sets"} : q[f] = p[f]
    BY <1>4 DEF Fields
  <2>2. req' = [req EXCEPT ![r] = q]
    BY <1>5
  <2> HIDE DEF q
  <2>3. QED
    BY <1>3, <1>5, <2>1, <2>2
<1>6. ASSUME UNCHANGED tables, p.pc = "sets", NEW found,
             req' = [req EXCEPT ![r].pc = "setRules", ![r].sets = found]
      PROVE  Step(r)
  <2> DEFINE q == [req[r] EXCEPT !.pc = "setRules", !.sets = found]
  <2>1. /\ DOMAIN q = Fields /\ q.pc = "setRules"
        /\ \A f \in Fields \ {"pc", "read", "sets"} : q[f] = p[f]
    BY <1>4 DEF Fields
  <2>2. req' = [req EXCEPT ![r] = q]
    BY <1>6
  <2> HIDE DEF q
  <2>3. QED
    BY <1>3, <1>6, <2>1, <2>2
<1>7. ASSUME UNCHANGED tables, p.pc \in {"sets", "setRules"}, NEW got, Answer(r, 200, got)
      PROVE  Step(r)
  <2>1. Effect(p.u)
    BY <1>7, NoEffect DEF WorkspacesInv
  <2>2. QED
    BY <1>1, <1>7, <2>1, AnswerPast DEF Statuses
<1>8. QED
  BY <1>2, <1>5, <1>6, <1>7 DEF EffectiveRules, getEffectiveRulesForProject

-----------------------------------------------------------------------------
(* Rules and rule sets.                                                    *)

LEMMA ListRulesStep ==
    ASSUME WorkspacesInv, NEW r \in Requests, ListRules(r)
    PROVE  Step(r)
<1> DEFINE p == req[r]
<1>1. p.op = "ListRules" /\ p.op \in OnWorkspace /\ p.op \notin OnProject /\ UNCHANGED tables
  BY Disjoint DEF ListRules, At, OnWorkspace
<1>2. Effect(p.u)
  BY <1>1, NoEffect DEF WorkspacesInv
<1>3. CASE p.pc = "access" /\ Answer(r, 403, {})
  BY <1>1, <1>3, Refuse DEF Statuses
<1>4. CASE /\ p.pc = "access" /\ Goto(r, "any")
           /\ ~(p.a # 0 /\ ~canAccessWorkspace(p.a, p.u))
  <2>1. Cleared(p, workspaces, projects) /\ PlainAt(p, "any")
    BY <1>1, <1>4 DEF Cleared, PlainAt, canAccessWorkspace, OwnedBy
  <2>2. QED
    BY <1>2, <1>4, <2>1, PlainGoto
<1>5. ASSUME p.pc \in {"any", "select"}, NEW got, Answer(r, 200, got)
      PROVE  Step(r)
  BY <1>1, <1>2, <1>5, AnswerPast DEF Statuses
<1>6. CASE p.pc = "any" /\ Goto(r, "select")
  <2>1. Cleared(p, workspaces, projects) /\ PlainAt(p, "select")
    BY <1>1, <1>6, PastIsCleared DEF PlainAt
  <2>2. QED
    BY <1>2, <1>6, <2>1, PlainGoto
<1>7. QED
  BY <1>3, <1>4, <1>5, <1>6 DEF ListRules, At

LEMMA GetRuleStep ==
    ASSUME WorkspacesInv, NEW r \in Requests, GetRule(r)
    PROVE  Step(r)
<1> DEFINE p == req[r]
<1>1. p.op = "GetRule" /\ p.op \in Elsewhere
  BY DEF GetRule, At, Elsewhere, OnRule, OnRuleSet
<1>2. Cleared(p, workspaces, projects) /\ p.op # "CloneWorkspace"
  BY <1>1, ElsewhereFree
<1>3. CASE p.pc = "access" /\ Exists(r, IsRule(p.a), "any")
  <2> DEFINE present == IsRule(p.a)
  <2>1. PlainAt(p, "any") /\ Exists(r, present, "any")
    BY <1>1, <1>3, ElsewhereFree
  <2> HIDE DEF present
  <2>2. QED
    BY <1>2, <1>3, <2>1, ExistsStep
<1>4. CASE p.pc \in {"any"} /\ UNCHANGED tables /\ Answer(r, 403, {})
  BY <1>2, <1>4, Refuse DEF Statuses
<1>5. ASSUME p.pc \in {"any"}, UNCHANGED tables, NEW got, Answer(r, 200, got)
      PROVE  Step(r)
  <2>1. Effect(p.u) /\ Listed(p, got)
    BY <1>1, <1>5, NoEffect, ElsewhereFree DEF WorkspacesInv
  <2>2. QED
    BY <1>2, <1>5, <2>1, AnswerStep DEF Statuses
<1>6. QED
  BY <1>3, <1>4, <1>5 DEF GetRule, At

LEMMA CreateRuleStep ==
    ASSUME WorkspacesInv, NEW r \in Requests, CreateRule(r)
    PROVE  Step(r)
<1> DEFINE p == req[r]
<1>1. p.op = "CreateRule" /\ p.op \in Elsewhere
  BY DEF CreateRule, At, Elsewhere, OnRule, OnRuleSet
<1>2. Cleared(p, workspaces, projects) /\ p.op # "CloneWorkspace"
  BY <1>1, ElsewhereFree
<1>3. CASE p.pc = "access" /\ RequireAnyWorkspace(r, "insert")
  <2>1. PlainAt(p, "insert")
    BY <1>1, ElsewhereFree
  <2>2. QED
    BY <1>2, <1>3, <2>1, AnyWorkspaceStep
<1>4. ASSUME p.pc = "insert", next.rule <= MaxId, CodeFree(0, p.code),
             rules' = [rules EXCEPT ![next.rule] = p.code],
             next' = [next EXCEPT !.rule = @ + 1],
             Answer(r, 201, {next.rule}),
             UNCHANGED <<workspaces, projects, ruleSets,
                         wsRules, projRules, projSets, setRules>>
      PROVE  Step(r)
  <2> DEFINE n == next.rule
             got == {n}
  <2>1. TablesOK /\ p.code \in Codes
    BY <1>1, <1>4 DEF WorkspacesInv, Good, Base
  <2>2. n \in Ids /\ n \in Nat /\ n + 1 \in 1 .. MaxId + 1
    BY <1>4, <2>1, NextFacts DEF Ids
  <2>3. /\ rules' = [rules EXCEPT ![n] = p.code] /\ next' = [next EXCEPT !.rule = n + 1]
        /\ Answer(r, 201, got)
    BY <1>4
  <2> HIDE DEF n, got
  <2>4. /\ next'.rule = n + 1 /\ next'.ws = next.ws
        /\ next'.project = next.project /\ next'.set = next.set
        /\ next' \in [{"ws", "project", "rule", "set"} -> 1 .. MaxId + 1]
    BY <2>1, <2>2, <2>3 DEF TablesOK, Rows
  <2>5. \A y \in Ids : rules[y] = p.code => y = n
    BY <1>4, <2>1, NextFacts DEF CodeFree
  <2>6. next'.rule >= next.rule /\ n < next'.rule
    BY <2>2, <2>4 DEF n
  <2>7. Effect(p.u)
    <3> DEFINE code == p.code
    <3>1. UNCHANGED <<workspaces, projects, ruleSets, wsRules, projRules, projSets, setRules>>
      BY <1>4
    <3>2. /\ code \in Codes /\ rules' = [rules EXCEPT ![n] = code]
          /\ \A y \in Ids : rules[y] = code => y = n
      BY <2>1, <2>3, <2>5
    <3> HIDE DEF code
    <3>3. \A u : Effect(u)
      BY <2>1, <2>2, <2>4, <2>6, <3>1, <3>2, WriteRuleEffect
    <3>4. QED
      BY <3>3
  <2>8. Listed(p, got)
    BY <1>1, ElsewhereFree
  <2>9. QED
    BY <1>2, <1>4, <2>3, <2>7, <2>8, AnswerStep DEF Statuses
<1>5. CASE /\ p.pc = "insert" /\ Answer(r, 500, {}) /\ UNCHANGED <<rules, next>>
           /\ UNCHANGED <<workspaces, projects, ruleSets,
                          wsRules, projRules, projSets, setRules>>
  BY <1>2, <1>5, Refuse DEF Statuses, tables
<1>6. QED
  BY <1>3, <1>4, <1>5 DEF CreateRule, At

LEMMA PatchRuleStep ==
    ASSUME WorkspacesInv, NEW r \in Requests, PatchRule(r)
    PROVE  Step(r)
<1> DEFINE p == req[r]
<1>1. p.op = "PatchRule" /\ p.op \in Elsewhere
  BY DEF PatchRule, At, Elsewhere, OnRule, OnRuleSet
<1>2. Cleared(p, workspaces, projects) /\ p.op # "CloneWorkspace"
  BY <1>1, ElsewhereFree
<1>3. CASE p.pc = "access" /\ Exists(r, IsRule(p.a), "any")
  <2> DEFINE present == IsRule(p.a)
  <2>1. PlainAt(p, "any") /\ Exists(r, present, "any")
    BY <1>1, <1>3, ElsewhereFree
  <2> HIDE DEF present
  <2>2. QED
    BY <1>2, <1>3, <2>1, ExistsStep
<1>4. CASE p.pc = "any" /\ RequireAnyWorkspace(r, "update")
  <2>1. PlainAt(p, "update")
    BY <1>1, ElsewhereFree
  <2>2. QED
    BY <1>2, <1>4, <2>1, AnyWorkspaceStep
<1>5. ASSUME p.pc = "update", IsRule(p.a), CodeFree(p.a, p.code),
             rules' = [rules EXCEPT ![p.a] = p.code], Answer(r, 200, {p.a}),
             UNCHANGED <<workspaces, projects, ruleSets,
                         wsRules, projRules, projSets, setRules, next>>
      PROVE  Step(r)
  <2> DEFINE got == {p.a}
  <2>1. TablesOK /\ p.code \in Codes
    BY <1>1, <1>5 DEF WorkspacesInv, Good, Base
  <2>2. p.a \in Ids /\ p.a < next.rule /\ \A y \in Ids : rules[y] = p.code => y = p.a
    BY <1>5, <2>1 DEF IsRule, CodeFree, TablesOK, Given
  <2>3. /\ next' \in [{"ws", "project", "rule", "set"} -> 1 .. MaxId + 1]
        /\ next'.ws = next.ws /\ next'.project = next.project /\ next'.set = next.set
        /\ next'.rule >= next.rule /\ p.a < next'.rule
    BY <1>5, <2>1, <2>2, NextFacts DEF TablesOK, Rows
  <2>4. Effect(p.u)
    <3> DEFINE code == p.code
               x == p.a
    <3>1. UNCHANGED <<workspaces, projects, ruleSets, wsRules, projRules, projSets, setRules>>
      BY <1>5
    <3>2. /\ code \in Codes /\ x \in Ids /\ rules' = [rules EXCEPT ![x] = code]
          /\ (\A y \in Ids : rules[y] = code => y = x) /\ x < next'.rule
      BY <1>5, <2>1, <2>2, <2>3
    <3> HIDE DEF code, x
    <3>3. \A u : Effect(u)
      BY <2>1, <2>3, <3>1, <3>2, WriteRuleEffect
    <3>4. QED
      BY <3>3
  <2>5. Answer(r, 200, got) /\ Listed(p, got)
    BY <1>1, <1>5, ElsewhereFree
  <2> HIDE DEF got
  <2>6. QED
    BY <1>2, <1>5, <2>4, <2>5, AnswerStep DEF Statuses
<1>6. ASSUME p.pc \in {"update"}, UNCHANGED tables, NEW got, Answer(r, 200, got)
      PROVE  Step(r)
  <2>1. Effect(p.u) /\ Listed(p, got)
    BY <1>1, <1>6, NoEffect, ElsewhereFree DEF WorkspacesInv
  <2>2. QED
    BY <1>2, <1>6, <2>1, AnswerStep DEF Statuses
<1>7. CASE p.pc \in {"update"} /\ UNCHANGED tables /\ Answer(r, 500, {})
  BY <1>2, <1>7, Refuse DEF Statuses
<1>8. QED
  BY <1>3, <1>4, <1>5, <1>6, <1>7 DEF PatchRule, At, tables

LEMMA DeleteRuleStep ==
    ASSUME WorkspacesInv, NEW r \in Requests, DeleteRule(r)
    PROVE  Step(r)
<1> DEFINE p == req[r]
<1>1. p.op = "DeleteRule" /\ p.op \in Elsewhere
  BY DEF DeleteRule, At, Elsewhere, OnRule, OnRuleSet
<1>2. Cleared(p, workspaces, projects) /\ p.op # "CloneWorkspace"
  BY <1>1, ElsewhereFree
<1>3. CASE p.pc = "access" /\ Exists(r, IsRule(p.a), "any")
  <2> DEFINE present == IsRule(p.a)
  <2>1. PlainAt(p, "any") /\ Exists(r, present, "any")
    BY <1>1, <1>3, ElsewhereFree
  <2> HIDE DEF present
  <2>2. QED
    BY <1>2, <1>3, <2>1, ExistsStep
<1>4. CASE p.pc = "any" /\ RequireAnyWorkspace(r, "delete")
  <2>1. PlainAt(p, "delete")
    BY <1>1, ElsewhereFree
  <2>2. QED
    BY <1>2, <1>4, <2>1, AnyWorkspaceStep
<1>5. CASE p.pc = "delete" /\ DeleteRuleRow(p.a) /\ Answer(r, 200, {})
  <2>1. Effect(p.u) /\ Listed(p, {})
    BY <1>1, <1>5, DeleteRuleEffect, ElsewhereFree DEF WorkspacesInv
  <2>2. QED
    BY <1>2, <1>5, <2>1, AnswerStep DEF Statuses
<1>6. QED
  BY <1>3, <1>4, <1>5 DEF DeleteRule, At

LEMMA ListRuleSetsStep ==
    ASSUME WorkspacesInv, NEW r \in Requests, ListRuleSets(r)
    PROVE  Step(r)
<1> DEFINE p == req[r]
<1>1. p.op = "ListRuleSets" /\ p.op \in Elsewhere
  BY DEF ListRuleSets, At, Elsewhere, OnRule, OnRuleSet
<1>2. Cleared(p, workspaces, projects) /\ p.op # "CloneWorkspace"
  BY <1>1, ElsewhereFree
<1>3. ASSUME p.pc \in {"access", "select"}, UNCHANGED tables, NEW got, Answer(r, 200, got)
      PROVE  Step(r)
  <2>1. Effect(p.u) /\ Listed(p, got)
    BY <1>1, <1>3, NoEffect, ElsewhereFree DEF WorkspacesInv
  <2>2. QED
    BY <1>2, <1>3, <2>1, AnswerStep DEF Statuses
<1>4. CASE p.pc = "access" /\ Goto(r, "select") /\ UNCHANGED tables
  <2>1. Effect(p.u) /\ PlainAt(p, "select")
    BY <1>1, <1>4, NoEffect, ElsewhereFree DEF WorkspacesInv
  <2>2. QED
    BY <1>2, <1>4, <2>1, PlainGoto
<1>5. QED
  BY <1>3, <1>4 DEF ListRuleSets, At

LEMMA GetRuleSetStep ==
    ASSUME WorkspacesInv, NEW r \in Requests, GetRuleSet(r)
    PROVE  Step(r)
<1> DEFINE p == req[r]
<1>1. p.op = "GetRuleSet" /\ p.op \in Elsewhere
  BY DEF GetRuleSet, At, Elsewhere, OnRule, OnRuleSet
<1>2. Cleared(p, workspaces, projects) /\ p.op # "CloneWorkspace"
  BY <1>1, ElsewhereFree
<1>3. CASE p.pc = "access" /\ Exists(r, p.a \in ruleSets, "any")
  <2> DEFINE present == p.a \in ruleSets
  <2>1. PlainAt(p, "any") /\ Exists(r, present, "any")
    BY <1>1, <1>3, ElsewhereFree
  <2> HIDE DEF present
  <2>2. QED
    BY <1>2, <1>3, <2>1, ExistsStep
<1>4. CASE p.pc \in {"any"} /\ UNCHANGED tables /\ Answer(r, 403, {})
  BY <1>2, <1>4, Refuse DEF Statuses
<1>5. ASSUME p.pc \in {"any"}, UNCHANGED tables, NEW got, Answer(r, 200, got)
      PROVE  Step(r)
  <2>1. Effect(p.u) /\ Listed(p, got)
    BY <1>1, <1>5, NoEffect, ElsewhereFree DEF WorkspacesInv
  <2>2. QED
    BY <1>2, <1>5, <2>1, AnswerStep DEF Statuses
<1>6. QED
  BY <1>3, <1>4, <1>5 DEF GetRuleSet, At

LEMMA CreateRuleSetStep ==
    ASSUME WorkspacesInv, NEW r \in Requests, CreateRuleSet(r)
    PROVE  Step(r)
<1> DEFINE p == req[r]
<1>1. p.op = "CreateRuleSet" /\ p.op \in Elsewhere
  BY DEF CreateRuleSet, At, Elsewhere, OnRule, OnRuleSet
<1>2. Cleared(p, workspaces, projects) /\ p.op # "CloneWorkspace"
  BY <1>1, ElsewhereFree
<1>3. CASE p.pc = "access" /\ RequireAnyWorkspace(r, "insert")
  <2>1. PlainAt(p, "insert")
    BY <1>1, ElsewhereFree
  <2>2. QED
    BY <1>2, <1>3, <2>1, AnyWorkspaceStep
<1>4. ASSUME p.pc = "insert", next.set <= MaxId, ruleSets' = ruleSets \cup {next.set},
             next' = [next EXCEPT !.set = @ + 1], Answer(r, 201, {next.set}),
             UNCHANGED <<workspaces, projects, rules,
                         wsRules, projRules, projSets, setRules>>
      PROVE  Step(r)
  <2> DEFINE got == {next.set}
  <2>1. Effect(p.u)
    BY <1>4, InsertRuleSetEffect DEF WorkspacesInv
  <2>2. Answer(r, 201, got) /\ Listed(p, got)
    BY <1>1, <1>4, ElsewhereFree
  <2> HIDE DEF got
  <2>3. QED
    BY <1>2, <1>4, <2>1, <2>2, AnswerStep DEF Statuses
<1>5. QED
  BY <1>3, <1>4 DEF CreateRuleSet, At

LEMMA PatchRuleSetStep ==
    ASSUME WorkspacesInv, NEW r \in Requests, PatchRuleSet(r)
    PROVE  Step(r)
<1> DEFINE p == req[r]
<1>1. p.op = "PatchRuleSet" /\ p.op \in Elsewhere
  BY DEF PatchRuleSet, At, Elsewhere, OnRule, OnRuleSet
<1>2. Cleared(p, workspaces, projects) /\ p.op # "CloneWorkspace"
  BY <1>1, ElsewhereFree
<1>3. CASE p.pc = "access" /\ Exists(r, p.a \in ruleSets, "any")
  <2> DEFINE present == p.a \in ruleSets
  <2>1. PlainAt(p, "any") /\ Exists(r, present, "any")
    BY <1>1, <1>3, ElsewhereFree
  <2> HIDE DEF present
  <2>2. QED
    BY <1>2, <1>3, <2>1, ExistsStep
<1>4. CASE p.pc = "any" /\ RequireAnyWorkspace(r, "update")
  <2>1. PlainAt(p, "update")
    BY <1>1, ElsewhereFree
  <2>2. QED
    BY <1>2, <1>4, <2>1, AnyWorkspaceStep
<1>5. ASSUME p.pc \in {"update"}, UNCHANGED tables, NEW got, Answer(r, 200, got)
      PROVE  Step(r)
  <2>1. Effect(p.u) /\ Listed(p, got)
    BY <1>1, <1>5, NoEffect, ElsewhereFree DEF WorkspacesInv
  <2>2. QED
    BY <1>2, <1>5, <2>1, AnswerStep DEF Statuses
<1>6. QED
  BY <1>3, <1>4, <1>5 DEF PatchRuleSet, At

LEMMA DeleteRuleSetStep ==
    ASSUME WorkspacesInv, NEW r \in Requests, DeleteRuleSet(r)
    PROVE  Step(r)
<1> DEFINE p == req[r]
<1>1. p.op = "DeleteRuleSet" /\ p.op \in Elsewhere
  BY DEF DeleteRuleSet, At, Elsewhere, OnRule, OnRuleSet
<1>2. Cleared(p, workspaces, projects) /\ p.op # "CloneWorkspace"
  BY <1>1, ElsewhereFree
<1>3. CASE p.pc = "access" /\ Exists(r, p.a \in ruleSets, "any")
  <2> DEFINE present == p.a \in ruleSets
  <2>1. PlainAt(p, "any") /\ Exists(r, present, "any")
    BY <1>1, <1>3, ElsewhereFree
  <2> HIDE DEF present
  <2>2. QED
    BY <1>2, <1>3, <2>1, ExistsStep
<1>4. CASE p.pc = "any" /\ RequireAnyWorkspace(r, "delete")
  <2>1. PlainAt(p, "delete")
    BY <1>1, ElsewhereFree
  <2>2. QED
    BY <1>2, <1>4, <2>1, AnyWorkspaceStep
<1>5. CASE p.pc = "delete" /\ DeleteRuleSetRow(p.a) /\ Answer(r, 200, {})
  <2>1. Effect(p.u) /\ Listed(p, {})
    BY <1>1, <1>5, DeleteRuleSetEffect, ElsewhereFree DEF WorkspacesInv
  <2>2. QED
    BY <1>2, <1>5, <2>1, AnswerStep DEF Statuses
<1>6. QED
  BY <1>3, <1>4, <1>5 DEF DeleteRuleSet, At

LEMMA ListRuleSetRulesStep ==
    ASSUME WorkspacesInv, NEW r \in Requests, ListRuleSetRules(r)
    PROVE  Step(r)
<1> DEFINE p == req[r]
<1>1. p.op = "ListRuleSetRules" /\ p.op \in Elsewhere
  BY DEF ListRuleSetRules, At, Elsewhere, OnRule, OnRuleSet
<1>2. Cleared(p, workspaces, projects) /\ p.op # "CloneWorkspace"
  BY <1>1, ElsewhereFree
<1>3. CASE p.pc = "access" /\ Exists(r, p.a \in ruleSets, "any")
  <2> DEFINE present == p.a \in ruleSets
  <2>1. PlainAt(p, "any") /\ Exists(r, present, "any")
    BY <1>1, <1>3, ElsewhereFree
  <2> HIDE DEF present
  <2>2. QED
    BY <1>2, <1>3, <2>1, ExistsStep
<1>4. CASE p.pc = "any" /\ RequireAnyWorkspace(r, "select")
  <2>1. PlainAt(p, "select")
    BY <1>1, ElsewhereFree
  <2>2. QED
    BY <1>2, <1>4, <2>1, AnyWorkspaceStep
<1>5. ASSUME p.pc \in {"select"}, UNCHANGED tables, NEW got, Answer(r, 200, got)
      PROVE  Step(r)
  <2>1. Effect(p.u) /\ Listed(p, got)
    BY <1>1, <1>5, NoEffect, ElsewhereFree DEF WorkspacesInv
  <2>2. QED
    BY <1>2, <1>5, <2>1, AnswerStep DEF Statuses
<1>6. QED
  BY <1>3, <1>4, <1>5 DEF ListRuleSetRules, At

LEMMA LinkRuleSetRuleStep ==
    ASSUME WorkspacesInv, NEW r \in Requests, LinkRuleSetRule(r)
    PROVE  Step(r)
<1> DEFINE p == req[r]
<1>1. p.op = "LinkRuleSetRule" /\ p.op \in Elsewhere
  BY DEF LinkRuleSetRule, At, Elsewhere, OnRule, OnRuleSet
<1>2. Cleared(p, workspaces, projects) /\ p.op # "CloneWorkspace"
  BY <1>1, ElsewhereFree
<1>3. CASE p.pc = "access" /\ Exists(r, p.a \in ruleSets, "any")
  <2> DEFINE present == p.a \in ruleSets
  <2>1. PlainAt(p, "any") /\ Exists(r, present, "any")
    BY <1>1, <1>3, ElsewhereFree
  <2> HIDE DEF present
  <2>2. QED
    BY <1>2, <1>3, <2>1, ExistsStep
<1>4. CASE p.pc = "any" /\ RequireAnyWorkspace(r, "rule")
  <2>1. PlainAt(p, "rule")
    BY <1>1, ElsewhereFree
  <2>2. QED
    BY <1>2, <1>4, <2>1, AnyWorkspaceStep
<1>5. CASE p.pc = "rule" /\ Exists(r, IsRule(p.b), "insert")
  <2> DEFINE present == IsRule(p.b)
  <2>1. PlainAt(p, "insert") /\ Exists(r, present, "insert")
    BY <1>1, <1>5, ElsewhereFree
  <2> HIDE DEF present
  <2>2. QED
    BY <1>2, <1>5, <2>1, ExistsStep
<1>6. ASSUME p.pc = "insert", NEW present,
             present = (p.a \in ruleSets /\ IsRule(p.b)),
             InsertLink(r, <<p.a, p.b>>, setRules, present),
             setRules' = IF present THEN setRules \cup {<<p.a, p.b>>} ELSE setRules,
             UNCHANGED <<workspaces, projects, rules, ruleSets,
                         wsRules, projRules, projSets, next>>
      PROVE  Step(r)
  <2>1. \A l \in setRules' : l \in setRules \/
              (/\ l = <<l[1], l[2]>> /\ l[1] \in ruleSets
               /\ l[2] \in Ids /\ rules[l[2]] # NoCode)
    <3>1. present => p.a \in ruleSets /\ p.b \in Ids /\ rules[p.b] # NoCode
      BY <1>6 DEF IsRule
    <3>2. setRules' = setRules \/ (present /\ setRules' = setRules \cup {<<p.a, p.b>>})
      BY <1>6
    <3>3. QED
      BY <3>1, <3>2
  <2>2. Effect(p.u)
    BY <1>6, <2>1, SetRulesEffect DEF WorkspacesInv
  <2> DEFINE link == <<p.a, p.b>>
  <2>3. InsertLink(r, link, setRules, present)
    BY <1>6
  <2> HIDE DEF link
  <2>4. QED
    BY <1>1, <1>6, <2>2, <2>3, LinkStep
<1>7. QED
  BY <1>3, <1>4, <1>5, <1>6 DEF LinkRuleSetRule, At

LEMMA UnlinkRuleSetRuleStep ==
    ASSUME WorkspacesInv, NEW r \in Requests, UnlinkRuleSetRule(r)
    PROVE  Step(r)
<1> DEFINE p == req[r]
<1>1. p.op = "UnlinkRuleSetRule" /\ p.op \in Elsewhere
  BY DEF UnlinkRuleSetRule, At, Elsewhere, OnRule, OnRuleSet
<1>2. Cleared(p, workspaces, projects) /\ p.op # "CloneWorkspace"
  BY <1>1, ElsewhereFree
<1>3. CASE p.pc = "access" /\ Exists(r, p.a \in ruleSets, "any")
  <2> DEFINE present == p.a \in ruleSets
  <2>1. PlainAt(p, "any") /\ Exists(r, present, "any")
    BY <1>1, <1>3, ElsewhereFree
  <2> HIDE DEF present
  <2>2. QED
    BY <1>2, <1>3, <2>1, ExistsStep
<1>4. CASE p.pc = "any" /\ RequireAnyWorkspace(r, "delete")
  <2>1. PlainAt(p, "delete")
    BY <1>1, ElsewhereFree
  <2>2. QED
    BY <1>2, <1>4, <2>1, AnyWorkspaceStep
<1>5. ASSUME p.pc = "delete", setRules' = setRules \ {<<p.a, p.b>>}, Answer(r, 200, {}),
             UNCHANGED <<workspaces, projects, rules, ruleSets,
                         wsRules, projRules, projSets, next>>
      PROVE  Step(r)
  <2>1. Effect(p.u)
    BY <1>5, SetRulesEffect DEF WorkspacesInv
  <2>2. Listed(p, {})
    BY DEF Listed
  <2>3. QED
    BY <1>2, <1>5, <2>1, <2>2, AnswerStep DEF Statuses
<1>6. QED
  BY <1>3, <1>4, <1>5 DEF UnlinkRuleSetRule, At

-----------------------------------------------------------------------------
(* Requests arrive, calls throw, workers stop.                             *)

LEMMA TargetFacts ==
    ASSUME NEW op
    PROVE  /\ \A a \in Targets(op) : op \in OnWorkspace =>
                 a \in 1 .. next.ws - 1 \/ (op \in Optional /\ a = 0)
           /\ \A a \in Targets(op) : op \in OnProject => a \in 1 .. next.project - 1
<1>1. op \in OnWorkspace =>
         Targets(op) = (1 .. next.ws - 1) \cup (IF op \in Optional THEN {0} ELSE {})
  BY Disjoint DEF Targets
<1>2. op \in OnProject => Targets(op) = 1 .. next.project - 1
  BY Disjoint DEF Targets
<1>3. QED
  BY <1>1, <1>2

LEMMA ReceiveStep ==
    ASSUME WorkspacesInv, NEW r \in Requests, Receive(r)
    PROVE  Step(r) /\ req'[r].pc \in {"ensure", "access"}
<1>1. req[r].pc = "idle" /\ UNCHANGED tables
  BY DEF Receive
<1>2. PICK op \in Operations[r], u \in Users :
      \E a \in Targets(op), b \in Seconds(op) :
      \E code \in IF op \in {"CreateRule", "PatchRule"} THEN Codes ELSE {NoCode},
         all \in IF op \in {"CreateWorkspace", "PatchWorkspace"} THEN BOOLEAN ELSE {FALSE} :
         req' = [req EXCEPT ![r] = [Idle EXCEPT !.op = op, !.u = u, !.a = a, !.b = b,
                                                !.code = code, !.all = all,
                                                !.pc = FirstStep(op)]]
  BY DEF Receive
<1>3. PICK a \in Targets(op), b \in Seconds(op) :
      \E code \in IF op \in {"CreateRule", "PatchRule"} THEN Codes ELSE {NoCode},
         all \in IF op \in {"CreateWorkspace", "PatchWorkspace"} THEN BOOLEAN ELSE {FALSE} :
         req' = [req EXCEPT ![r] = [Idle EXCEPT !.op = op, !.u = u, !.a = a, !.b = b,
                                                !.code = code, !.all = all,
                                                !.pc = FirstStep(op)]]
  BY <1>2
<1>4. PICK code \in IF op \in {"CreateRule", "PatchRule"} THEN Codes ELSE {NoCode},
           all \in IF op \in {"CreateWorkspace", "PatchWorkspace"} THEN BOOLEAN ELSE {FALSE} :
         req' = [req EXCEPT ![r] = [Idle EXCEPT !.op = op, !.u = u, !.a = a, !.b = b,
                                                !.code = code, !.all = all,
                                                !.pc = FirstStep(op)]]
  BY <1>3
<1> DEFINE q == [Idle EXCEPT !.op = op, !.u = u, !.a = a, !.b = b,
                             !.code = code, !.all = all, !.pc = FirstStep(op)]
<1>5. /\ DOMAIN q = Fields /\ q.op = op /\ q.u = u /\ q.a = a /\ q.code = code /\ q.all = all
      /\ q.pc = FirstStep(op) /\ q.new = 0 /\ q.dirty = FALSE /\ q.ans = 0
  BY DEF Idle, Fields
<1>6. req' = [req EXCEPT ![r] = q]
  BY <1>4
<1> HIDE DEF q
<1>7. req'[r] = q /\ DOMAIN req' = Requests /\ \A s \in Requests : s # r => req'[s] = req[s]
  BY <1>6 DEF WorkspacesInv
<1>8. /\ q.pc \in {"ensure", "access"} /\ (q.pc = "ensure" => q.op \in Ensuring)
  BY <1>5 DEF FirstStep, Ensuring
<1>9. Effect(req[r].u) /\ next' = next
  BY <1>1, NoEffect DEF WorkspacesInv, tables
<1>10. /\ q.op \in OnWorkspace => q.a \in 1 .. next.ws - 1 \/ (q.op \in Optional /\ q.a = 0)
       /\ q.op \in OnProject => q.a \in 1 .. next.project - 1
       /\ q.op \in {"CreateRule", "PatchRule"} => q.code \in Codes
       /\ q.all \in BOOLEAN
  BY <1>5, TargetFacts
<1>11. Base(q, next')
  <2>1. 0 \in Statuses
    BY DEF Statuses
  <2>2. /\ q.u \in Users /\ q.ans \in Statuses /\ q.new \in Ids \cup {0}
        /\ q.dirty \in BOOLEAN /\ q.ans = 0 /\ DOMAIN q = Fields
    BY <1>5, <2>1
  <2>3. QED
    BY <1>9, <1>10, <2>2 DEF Base
<1>12. Local(q, workspaces', projects', next')
  <2>1. q.op = "CloneWorkspace" => Cloning(q, workspaces', next')
    BY <1>5, <1>8 DEF Cloning, Ensuring
  <2>2. q.op \in Ensuring => q.op \notin OnWorkspace
    BY Disjoint
  <2>3. QED
    BY <1>5, <1>8, <2>1, <2>2, Disjoint DEF Local
<1>13. Shown(req[r], q) /\ req'[r] # req[r]
  BY <1>1, <1>5, <1>7, <1>8 DEF Shown
<1>14. QED
  BY <1>7, <1>8, <1>9, <1>11, <1>12, <1>13 DEF Step, Good

LEMMA CallThrowsStep ==
    ASSUME WorkspacesInv, NEW r \in Requests, CallThrows(r)
    PROVE  Step(r) /\ faults' \in 0 .. MaxFaults
           /\ req'[r].pc \notin {"direct", "sets", "setRules"} /\ req'[r].ans # 200
<1> DEFINE p == req[r]
<1>1. /\ p.pc \notin {"idle", "done", "in"} /\ UNCHANGED tables
      /\ faults < MaxFaults /\ faults' = faults + 1
  BY DEF CallThrows, InFlight
<1>2. faults' \in 0 .. MaxFaults
  BY <1>1, WorkspacesAssumption DEF WorkspacesInv
<1>3. /\ Base(p, next) /\ Local(p, workspaces, projects, next)
      /\ Effect(p.u) /\ workspaces' = workspaces /\ projects' = projects /\ next' = next
  BY <1>1, NoEffect DEF WorkspacesInv, Good, tables
<1>4. ASSUME p.pc \in {"ensure", "createPersonal", "defaultProject"}, NEW l,
             l \in {"in", "ids", "insert"},
             req' = [req EXCEPT ![r].new = 0, ![r].pc = l]
      PROVE  Step(r) /\ req'[r].pc = l /\ req'[r].ans = 0
  <2> DEFINE q == [req[r] EXCEPT !.new = 0, !.pc = l]
  <2>1. /\ DOMAIN q = Fields /\ q.pc = l /\ q.new = 0
        /\ \A f \in Fields \ {"pc", "new"} : q[f] = p[f]
    BY <1>3 DEF Fields, Base
  <2>2. req' = [req EXCEPT ![r] = q] /\ req'[r] = q
    BY <1>4 DEF WorkspacesInv
  <2> HIDE DEF q
  <2>3. q.op = p.op /\ q.all = p.all /\ q.ans = p.ans
    BY <2>1 DEF Fields
  <2>4. q.op \in Ensuring
    BY <1>3, <1>4, <2>3 DEF Local
  <2>5. Local(q, workspaces', projects', next')
    BY <1>4, <2>1, <2>4, EnsuringFree, PlainLocal DEF Early
  <2>6. p.all \in BOOLEAN /\ p.ans = 0
    BY <1>1, <1>3 DEF Base
  <2>7. QED
    BY <1>1, <1>3, <1>4, <2>1, <2>2, <2>3, <2>5, <2>6, MoveOn
<1>5. ASSUME p.op = "CloneWorkspace", p.new # 0, p.pc # "cleanup", Goto(r, "cleanup")
      PROVE  Step(r) /\ req'[r].pc = "cleanup" /\ req'[r].ans = 0
  <2> DEFINE q == [req[r] EXCEPT !.pc = "cleanup"]
  <2>1. /\ DOMAIN q = Fields /\ q.pc = "cleanup"
        /\ \A f \in Fields \ {"pc"} : q[f] = p[f]
    BY <1>3 DEF Fields, Base
  <2>2. req' = [req EXCEPT ![r] = q] /\ req'[r] = q
    BY <1>5 DEF WorkspacesInv, Goto
  <2> HIDE DEF q
  <2>3. /\ q.op = p.op /\ q.all = p.all /\ q.new = p.new /\ q.a = p.a /\ q.u = p.u
        /\ q.ans = p.ans
    BY <2>1 DEF Fields
  <2>4. Cloning(p, workspaces, next)
    BY <1>3, <1>5 DEF Local
  <2>5. p.pc \in {"rules", "links"}
    BY <1>1, <1>5, <2>4 DEF Cloning
  <2>6. Cloning(q, workspaces', next')
    BY <1>3, <1>5, <2>1, <2>3, <2>4, <2>5 DEF Cloning
  <2>7. Cleared(p, workspaces, projects)
    BY <2>5, PastIsCleared
  <2>8. Local(q, workspaces', projects', next')
    BY <1>3, <1>5, <2>1, <2>3, <2>6, <2>7, Disjoint DEF Local, Cleared
  <2>9. p.all \in BOOLEAN /\ p.new \in Ids \cup {0} /\ p.ans = 0
    BY <1>1, <1>3 DEF Base
  <2>10. QED
    BY <1>1, <1>3, <1>5, <2>1, <2>2, <2>3, <2>8, <2>9, MoveOn
<1>6. ASSUME ~(p.op = "CloneWorkspace" /\ p.new # 0 /\ p.pc # "cleanup"),
             req' = [req EXCEPT ![r] = [Idle EXCEPT !.op = p.op, !.new = p.new,
                                            !.pc = "done", !.ans = 500,
                                            !.dirty = (p.pc = "cleanup")]]
      PROVE  Step(r) /\ req'[r].pc = "done" /\ req'[r].ans = 500
  <2> DEFINE q == [Idle EXCEPT !.op = p.op, !.new = p.new, !.pc = "done", !.ans = 500,
                               !.dirty = (p.pc = "cleanup")]
  <2>1. /\ DOMAIN q = Fields /\ q.op = p.op /\ q.new = p.new
        /\ q.pc = "done" /\ q.ans = 500 /\ q.dirty = (p.pc = "cleanup")
        /\ q.u = NoUser /\ q.a = 0 /\ q.all = FALSE /\ q.dirty \in BOOLEAN
        /\ p.pc = "cleanup" => q.dirty = TRUE
    <3> DEFINE cut == (p.pc = "cleanup")
               e == [Idle EXCEPT !.op = p.op, !.new = p.new, !.pc = "done", !.ans = 500,
                                 !.dirty = cut]
    <3>1. cut \in BOOLEAN /\ (p.pc = "cleanup" => cut = TRUE)
      OBVIOUS
    <3>2. q = e
      OBVIOUS
    <3> HIDE DEF cut
    <3>3. /\ DOMAIN e = Fields /\ e.op = p.op /\ e.new = p.new
          /\ e.pc = "done" /\ e.ans = 500 /\ e.u = NoUser /\ e.a = 0
      BY DEF Idle, Fields
    <3>4. e.dirty = cut /\ e.all = FALSE
      BY DEF Idle
    <3> HIDE DEF e, q
    <3>5. QED
      BY <3>1, <3>2, <3>3, <3>4, Zenon DEF cut
  <2>2. req' = [req EXCEPT ![r] = q]
    BY <1>6
  <2> HIDE DEF q
  <2>3. /\ req'[r] = q /\ DOMAIN req' = Requests
        /\ \A s \in Requests : s # r => req'[s] = req[s]
    BY <2>2 DEF WorkspacesInv
  <2>4. Base(q, next')
    <3>1. 500 \in Statuses /\ p.new \in Ids \cup {0}
      BY <1>3 DEF Statuses, Base
    <3>2. /\ q.u \in Users \cup {NoUser} /\ q.ans \in Statuses /\ q.new \in Ids \cup {0}
          /\ q.all \in BOOLEAN
      BY <2>1, <3>1
    <3>3. QED
      BY <2>1, <3>2 DEF Base
  <2>5. ASSUME q.op = "CloneWorkspace"
        PROVE  Cloning(q, workspaces', next')
    <3>1. Cloning(p, workspaces', next')
      BY <1>3, <2>1, <2>5 DEF Local
    <3>2. q.new = 0 \/ q.dirty = TRUE
      BY <1>6, <2>1, <2>5
    <3>3. QED
      BY <2>1, <3>1, <3>2 DEF Cloning
  <2>6. Local(q, workspaces', projects', next')
    BY <2>1, <2>5 DEF Local
  <2>7. Shown(p, q) /\ req'[r] # req[r]
    BY <1>1, <2>1, <2>3 DEF Shown
  <2>8. QED
    BY <1>3, <2>1, <2>3, <2>4, <2>6, <2>7 DEF Step, Good
<1>7. CASE p.pc \in {"ensure", "createPersonal", "defaultProject"}
  <2> DEFINE l == CASE p.op = "Login"          -> "in"
                    [] p.op = "ListWorkspaces" -> "ids"
                    [] OTHER                   -> "insert"
  <2>1. req' = [req EXCEPT ![r].new = 0, ![r].pc = l]
    BY <1>7 DEF CallThrows
  <2>2. l \in {"in", "ids", "insert"}
    OBVIOUS
  <2> HIDE DEF l
  <2>3. Step(r) /\ req'[r].pc = l /\ req'[r].ans = 0
    BY <1>4, <1>7, <2>1, <2>2
  <2>4. QED
    BY <1>2, <2>2, <2>3
<1>8. CASE p.pc \notin {"ensure", "createPersonal", "defaultProject"}
  <2>1. CASE p.op = "CloneWorkspace" /\ p.new # 0 /\ p.pc # "cleanup"
    <3>1. Goto(r, "cleanup")
      BY <1>8, <2>1 DEF CallThrows
    <3>2. QED
      BY <1>2, <1>5, <2>1, <3>1
  <2>2. CASE ~(p.op = "CloneWorkspace" /\ p.new # 0 /\ p.pc # "cleanup")
    <3>1. req' = [req EXCEPT ![r] = [Idle EXCEPT !.op = p.op, !.new = p.new,
                                            !.pc = "done", !.ans = 500,
                                            !.dirty = (p.pc = "cleanup")]]
      BY <1>8, <2>2 DEF CallThrows
    <3>2. QED
      BY <1>2, <1>6, <2>2, <3>1
  <2>3. QED
    BY <2>1, <2>2
<1>9. QED
  BY <1>7, <1>8

LEMMA StopStep ==
    ASSUME WorkspacesInv, NEW r \in Requests, Stop(r)
    PROVE  Step(r) /\ faults' \in 0 .. MaxFaults
           /\ req'[r].pc = "done" /\ req'[r].ans = 0
<1> DEFINE p == req[r]
           q == [Idle EXCEPT !.pc = "done", !.dirty = TRUE]
<1>1. /\ p.pc \notin {"idle", "done", "in"} /\ UNCHANGED tables
      /\ faults < MaxFaults /\ faults' = faults + 1
  BY DEF Stop, InFlight
<1>2. faults' \in 0 .. MaxFaults
  BY <1>1, WorkspacesAssumption DEF WorkspacesInv
<1>3. Effect(p.u)
  BY <1>1, NoEffect DEF WorkspacesInv
<1>4. /\ DOMAIN q = Fields /\ q.op = "none" /\ q.new = 0 /\ q.pc = "done" /\ q.ans = 0
      /\ q.dirty = TRUE /\ q.u = NoUser /\ q.a = 0 /\ q.all = FALSE
  <2>1. DOMAIN q = Fields
    BY DEF Idle, Fields
  <2>2. q.op = "none" /\ q.new = 0 /\ q.pc = "done" /\ q.ans = 0 /\ q.u = NoUser /\ q.a = 0
    BY DEF Idle
  <2>3. q.dirty = TRUE /\ q.all = FALSE
    BY DEF Idle
  <2> HIDE DEF q
  <2>4. QED
    BY <2>1, <2>2, <2>3, Zenon
<1>5. req' = [req EXCEPT ![r] = q]
  BY DEF Stop
<1> HIDE DEF q
<1>6. req'[r] = q /\ DOMAIN req' = Requests /\ \A s \in Requests : s # r => req'[s] = req[s]
  BY <1>5 DEF WorkspacesInv
<1>7. Base(q, next')
  <2>1. q.all \in BOOLEAN /\ q.dirty \in BOOLEAN
    BY <1>4, Zenon
  <2>2. /\ DOMAIN q = Fields /\ q.u \in Users \cup {NoUser} /\ q.ans \in Statuses
        /\ q.new \in Ids \cup {0} /\ q.pc = "done"
    BY <1>4 DEF Statuses
  <2>3. QED
    BY <2>1, <2>2, Zenon DEF Base
<1>8. Local(q, workspaces', projects', next')
  BY <1>4 DEF Local
<1>9. Shown(p, q) /\ req'[r] # req[r]
  BY <1>1, <1>4, <1>6 DEF Shown
<1>10. QED
  BY <1>2, <1>3, <1>4, <1>6, <1>7, <1>8, <1>9 DEF Step, Good

-----------------------------------------------------------------------------
(* Every step, and the theorems.                                           *)

LEMMA HandleStep ==
    ASSUME WorkspacesInv, NEW r \in Requests, Handle(r)
    PROVE  Step(r)
BY LoginStep, ListWorkspacesStep, CreateWorkspaceStep, GetWorkspaceStep,
   PatchWorkspaceStep, DeleteWorkspaceStep, CloneWorkspaceStep,
   ListWorkspaceRulesStep, LinkWorkspaceRuleStep, UnlinkWorkspaceRuleStep,
   ListProjectsStep, CreateProjectStep, GetProjectStep, PatchProjectStep,
   DeleteProjectStep, ListProjectRulesStep, LinkProjectRuleStep,
   UnlinkProjectRuleStep, ListProjectRuleSetsStep, LinkProjectRuleSetStep,
   UnlinkProjectRuleSetStep, EffectiveRulesStep, ListRulesStep, GetRuleStep,
   CreateRuleStep, PatchRuleStep, DeleteRuleStep, ListRuleSetsStep,
   GetRuleSetStep, CreateRuleSetStep, PatchRuleSetStep, DeleteRuleSetStep,
   ListRuleSetRulesStep, LinkRuleSetRuleStep, UnlinkRuleSetRuleStep
   DEF Handle

LEMMA NextStep ==
    ASSUME WorkspacesInv, Next
    PROVE  WorkspacesInv' /\ OwnerWrites /\ OwnerReads /\ KeepsPersonal
<1>1. PICK r \in Requests :
         \/ Receive(r) /\ UNCHANGED faults
         \/ Handle(r) /\ UNCHANGED faults
         \/ CallThrows(r)
         \/ Stop(r)
  BY DEF Next
<1>2. Step(r) /\ faults' \in 0 .. MaxFaults
  BY <1>1, ReceiveStep, HandleStep, CallThrowsStep, StopStep DEF WorkspacesInv
<1>3. QED
  BY <1>2, StepSuffices

LEMMA InitInv == Init => WorkspacesInv
<1> SUFFICES ASSUME Init PROVE WorkspacesInv
  OBVIOUS
<1>1. Consistent(Seed)
  BY WorkspacesAssumption
<1>2. TablesOK
  BY <1>1 DEF Consistent, Init, TablesOK, Rows, Given, UniqueCodes, Linked
<1>3. DOMAIN req = Requests /\ \A r \in Requests : req[r] = Idle
  BY DEF Init
<1>4. /\ DOMAIN Idle = Fields /\ Idle.op = "none" /\ Idle.new = 0 /\ Idle.pc = "idle"
      /\ Idle.ans = 0 /\ Idle.dirty = FALSE /\ Idle.u = NoUser /\ Idle.a = 0
      /\ Idle.all = FALSE
  BY DEF Idle, Fields
<1>5. Base(Idle, next)
  <2>1. Idle.all \in BOOLEAN /\ Idle.dirty \in BOOLEAN
    BY <1>4, Zenon
  <2>2. Idle.u \in Users \cup {NoUser} /\ Idle.ans \in Statuses /\ Idle.new \in Ids \cup {0}
    BY <1>4 DEF Statuses
  <2>3. QED
    BY <1>4, <2>1, <2>2, Zenon DEF Base
<1>6. Local(Idle, workspaces, projects, next)
  BY <1>4 DEF Local
<1>7. faults \in 0 .. MaxFaults
  BY WorkspacesAssumption DEF Init
<1>8. QED
  BY <1>2, <1>3, <1>5, <1>6, <1>7 DEF WorkspacesInv, Good

LEMMA StutterInv == ASSUME WorkspacesInv, UNCHANGED vars PROVE WorkspacesInv'
<1> USE DEF vars
<1>1. TablesOK'
  BY DEF WorkspacesInv, TablesOK, Rows, Given, UniqueCodes, Linked
<1>2. QED
  BY <1>1 DEF WorkspacesInv

\* The inductive invariant: the tables are consistent, and what a request has
\* checked or inserted is still so, or gone, whenever it goes on.
THEOREM WorkspacesInvariant == Spec => []WorkspacesInv
<1>1. Init => WorkspacesInv
  BY InitInv
<1>2. WorkspacesInv /\ [Next]_vars => WorkspacesInv'
  BY NextStep, StutterInv
<1>3. QED
  BY <1>1, <1>2, PTL DEF Spec

\* The statements keep what the schema promises, whatever the interleaving of
\* the handlers, the calls that throw and the workers that stop.
THEOREM WorkspacesTypeOK == Spec => []TypeOK
<1>1. WorkspacesInv => TypeOK
  <2> SUFFICES ASSUME WorkspacesInv PROVE TypeOK
    OBVIOUS
  <2> DEFINE d == [workspaces |-> workspaces, projects |-> projects, rules |-> rules,
                   ruleSets |-> ruleSets, wsRules |-> wsRules, projRules |-> projRules,
                   projSets |-> projSets, setRules |-> setRules, next |-> next]
  <2>1. /\ d.workspaces = workspaces /\ d.projects = projects /\ d.rules = rules
        /\ d.ruleSets = ruleSets /\ d.wsRules = wsRules /\ d.projRules = projRules
        /\ d.projSets = projSets /\ d.setRules = setRules /\ d.next = next
    OBVIOUS
  <2> HIDE DEF d
  <2>2. Consistent(d)
    BY <2>1 DEF Consistent, WorkspacesInv, TablesOK, Rows, Given, UniqueCodes, Linked
  <2>3. \A r \in Requests : /\ req[r].u \in Users \cup {NoUser}
                            /\ req[r].ans \in Statuses
                            /\ req[r].new \in Ids \cup {0}
    BY DEF WorkspacesInv, Good, Base
  <2>4. QED
    BY <2>2, <2>3 DEF TypeOK, WorkspacesInv, d
<1>2. QED
  BY <1>1, WorkspacesInvariant, PTL

\* A clone answered with an error has left no workspace, unless the worker was
\* stopped or the rollback itself threw.
THEOREM FailedClonesLeaveNothing == Spec => []FailedCloneLeavesNothing
<1>1. WorkspacesInv => FailedCloneLeavesNothing
  BY DEF WorkspacesInv, Good, Local, Cloning, FailedCloneLeavesNothing
<1>2. QED
  BY <1>1, WorkspacesInvariant, PTL

\* Rows are read and written for their owner only, although the check is
\* statements away from the read or the write: a row keeps its owner until it
\* is gone and its id is not given out again.
THEOREM RowsAreTheOwners == Spec => OwnerOnly
<1>1. WorkspacesInv /\ [Next]_vars => [OwnerWrites /\ OwnerReads]_vars
  BY NextStep
<1>2. QED
  BY <1>1, WorkspacesInvariant, PTL DEF Spec, OwnerOnly

\* No step takes a user's personal workspace away: neither the rollback of a
\* clone nor a delete whose check was made some statements ago.
THEOREM PersonalWorkspacesStay == Spec => PersonalKept
<1> DEFINE Kept == \A u \in Users :
          (\E w \in Ids : workspaces[w].owner = u /\ workspaces[w].personal) =>
          (\E w \in Ids : workspaces[w].owner = u /\ workspaces[w].personal)'
<1>1. KeepsPersonal => Kept
  BY NoRowFacts DEF KeepsPersonal
<1>2. WorkspacesInv /\ [Next]_vars => [Kept]_vars
  BY <1>1, NextStep
<1>3. QED
  BY <1>2, WorkspacesInvariant, PTL DEF Spec, PersonalKept

-----------------------------------------------------------------------------
(* The effective rules.                                                    *)

\* While a request reads the effective rules, what has stayed attached is
\* attached now, and what was read so far covers it.
AttachedInv ==
    \A r \in Requests : req[r].op = "EffectiveRules" =>
       /\ req[r].pc \in {"direct", "sets", "setRules"} => attached[r] \subseteq Paths(req[r].a)
       /\ req[r].pc \in {"sets", "setRules"} =>
             \A y \in attached[r] : y[2] = 0 => y[1] \in req[r].read
       /\ req[r].pc = "setRules" =>
             \A y \in attached[r] : y[2] # 0 => y[2] \in req[r].sets

\* A rule is attached by a link of the project, or by one of a rule set that is
\* linked to the project.
LEMMA PathFacts ==
    ASSUME TablesOK, NEW p, NEW y \in Paths(p)
    PROVE  \/ y[2] = 0 /\ \E l \in projRules : l[1] = p /\ l[2] = y[1]
           \/ /\ y[2] # 0
              /\ \E l \in projSets : l[1] = p /\ l[2] = y[2]
              /\ \E l \in setRules : l[1] = y[2] /\ l[2] = y[1]
<1>1. CASE \E l \in projRules : l[1] = p /\ y = <<l[2], 0>>
  BY <1>1
<1>2. CASE \E l \in setRules : <<p, l[1]>> \in projSets /\ y = <<l[2], l[1]>>
  <2>1. PICK l \in setRules : <<p, l[1]>> \in projSets /\ y = <<l[2], l[1]>>
    BY <1>2
  <2>2. l[1] \in Ids /\ 0 \notin Ids
    BY LinkFacts, NextFacts DEF TablesOK, Rows
  <2>3. y[1] = l[2] /\ y[2] = l[1] /\ y[2] # 0
    BY <2>1, <2>2
  <2> DEFINE k == <<p, l[1]>>
  <2>4. k \in projSets /\ k[1] = p /\ k[2] = y[2]
    BY <2>1, <2>3
  <2> HIDE DEF k
  <2>5. QED
    BY <2>1, <2>3, <2>4
<1>3. QED
  BY <1>1, <1>2 DEF Paths

\* Of the handlers, only EffectiveRules moves a request for the effective rules.
LEMMA EffectiveOnly ==
    ASSUME NEW r \in Requests, Handle(r), req[r].op = "EffectiveRules"
    PROVE  EffectiveRules(r)
<1>1. ~Login(r) /\ ~ListWorkspaces(r)
      /\ ~CreateWorkspace(r) /\ ~GetWorkspace(r)
  BY DEF Login, ListWorkspaces, CreateWorkspace, GetWorkspace, At
<1>2. ~PatchWorkspace(r) /\ ~DeleteWorkspace(r)
      /\ ~CloneWorkspace(r) /\ ~ListWorkspaceRules(r)
  BY DEF PatchWorkspace, DeleteWorkspace, CloneWorkspace, ListWorkspaceRules, At
<1>3. ~LinkWorkspaceRule(r) /\ ~UnlinkWorkspaceRule(r)
      /\ ~ListProjects(r) /\ ~CreateProject(r)
  BY DEF LinkWorkspaceRule, UnlinkWorkspaceRule, ListProjects, CreateProject,
         At, assertProjectAccess
<1>4. ~GetProject(r) /\ ~PatchProject(r)
      /\ ~DeleteProject(r) /\ ~ListProjectRules(r)
  BY DEF GetProject, PatchProject, DeleteProject, ListProjectRules, At, assertProjectAccess
<1>5. ~LinkProjectRule(r) /\ ~UnlinkProjectRule(r)
      /\ ~ListProjectRuleSets(r) /\ ~LinkProjectRuleSet(r)
  BY DEF LinkProjectRule, UnlinkProjectRule, ListProjectRuleSets, LinkProjectRuleSet,
         At, assertProjectAccess
<1>6. ~UnlinkProjectRuleSet(r) /\ ~ListRules(r)
      /\ ~GetRule(r) /\ ~CreateRule(r)
  BY DEF UnlinkProjectRuleSet, ListRules, GetRule, CreateRule, At, assertProjectAccess
<1>7. ~PatchRule(r) /\ ~DeleteRule(r)
      /\ ~ListRuleSets(r) /\ ~GetRuleSet(r)
  BY DEF PatchRule, DeleteRule, ListRuleSets, GetRuleSet, At
<1>8. ~CreateRuleSet(r) /\ ~PatchRuleSet(r)
      /\ ~DeleteRuleSet(r) /\ ~ListRuleSetRules(r)
  BY DEF CreateRuleSet, PatchRuleSet, DeleteRuleSet, ListRuleSetRules, At
<1>9. ~LinkRuleSetRule(r) /\ ~UnlinkRuleSetRule(r)
  BY DEF LinkRuleSetRule, UnlinkRuleSetRule, At
<1>10. QED
  BY <1>1, <1>2, <1>3, <1>4, <1>5, <1>6, <1>7, <1>8, <1>9 DEF Handle

\* A request that goes on to the second or the third query, or answers 200, has
\* made the query it was at.
LEMMA EffectiveMove ==
    ASSUME WorkspacesInv, Next, NEW s \in Requests, req'[s] # req[s],
           \/ req'[s].op = "EffectiveRules" /\ req'[s].pc \in {"sets", "setRules"}
           \/ req[s].op = "EffectiveRules" /\ req'[s].ans = 200
    PROVE  /\ req[s].op = "EffectiveRules" /\ getEffectiveRulesForProject(s)
           /\ DOMAIN req[s] = Fields /\ s \in DOMAIN req
<1>1. PICK r \in Requests :
         \/ Receive(r) \/ Handle(r) \/ CallThrows(r) \/ Stop(r)
  BY DEF Next
<1>2. Step(r)
  BY <1>1, ReceiveStep, HandleStep, CallThrowsStep, StopStep
<1>3. r = s
  BY <1>2 DEF Step
<1>4. req'[s].pc # "done" => req'[s].ans = 0
  BY <1>2, <1>3 DEF Step, Good, Base
<1>5. Handle(s)
  BY <1>1, <1>3, <1>4, ReceiveStep, CallThrowsStep, StopStep
<1>6. req[s].op = "EffectiveRules"
  BY <1>2, <1>3 DEF Step
<1>7. EffectiveRules(s)
  BY <1>5, <1>6, EffectiveOnly
<1>8. DOMAIN req[s] = Fields /\ DOMAIN req = Requests
  BY DEF WorkspacesInv, Good, Base
<1>9. ~assertProjectAccess(s, "EffectiveRules", "direct")
  <2>1. SUFFICES ASSUME assertProjectAccess(s, "EffectiveRules", "direct")
                 PROVE  FALSE
    OBVIOUS
  <2>2. CASE Answer(s, 403, {})
    <3> DEFINE q == [Idle EXCEPT !.op = req[s].op, !.new = req[s].new,
                                 !.pc = "done", !.ans = 403, !.got = {}]
    <3>1. q.pc = "done" /\ q.ans = 403
      BY DEF Idle
    <3>2. req'[s] = q
      BY <1>8, <2>2 DEF Answer
    <3> HIDE DEF q
    <3>3. QED
      BY <3>1, <3>2
  <2>3. CASE Goto(s, "direct")
    BY <1>4, <1>8, <2>3 DEF Goto, Fields
  <2>4. CASE req' = [req EXCEPT ![s].pc = "owner", ![s].ws = projects[req[s].a]]
    BY <1>4, <1>8, <2>4 DEF Fields
  <2>5. QED
    BY <2>1, <2>2, <2>3, <2>4 DEF assertProjectAccess
<1>10. QED
  BY <1>6, <1>7, <1>8, <1>9 DEF EffectiveRules

\* What a query leaves in the request.
LEMMA EffectiveQuery ==
    ASSUME NEW s \in Requests, s \in DOMAIN req, DOMAIN req[s] = Fields,
           getEffectiveRulesForProject(s)
    PROVE  /\ UNCHANGED tables
           /\ \/ /\ req[s].pc = "direct" /\ req'[s].pc = "sets" /\ req'[s].a = req[s].a
                 /\ req'[s].ans = req[s].ans
                 /\ \A l \in projRules : l[1] = req[s].a => l[2] \in req'[s].read
              \/ /\ req[s].pc = "sets" /\ req'[s].pc = "done"
                 /\ \A l \in projSets : l[1] # req[s].a
                 /\ req'[s].got = req[s].read
              \/ /\ req[s].pc = "sets" /\ req'[s].pc = "setRules" /\ req'[s].a = req[s].a
                 /\ req'[s].ans = req[s].ans /\ req'[s].read = req[s].read
                 /\ \A l \in projSets : l[1] = req[s].a => l[2] \in req'[s].sets
              \/ /\ req[s].pc = "setRules" /\ req'[s].pc = "done"
                 /\ req[s].read \subseteq req'[s].got
                 /\ \A l \in setRules : l[1] \in req[s].sets => l[2] \in req'[s].got
<1> DEFINE p == req[s]
           direct == {l[2] : l \in {k \in projRules : k[1] = p.a}}
           sets == {l[2] : l \in {k \in projSets : k[1] = p.a}}
           more == {l[2] : l \in {k \in setRules : k[1] \in p.sets}}
<1>1. UNCHANGED tables
  BY DEF getEffectiveRulesForProject
<1>2. \/ p.pc = "direct" /\ req' = [req EXCEPT ![s].pc = "sets", ![s].read = direct]
      \/ p.pc = "sets" /\ sets = {} /\ Answer(s, 200, p.read)
      \/ p.pc = "sets" /\ req' = [req EXCEPT ![s].pc = "setRules", ![s].sets = sets]
      \/ p.pc = "setRules" /\ Answer(s, 200, p.read \cup more)
  BY DEF getEffectiveRulesForProject
<1>3. /\ \A l \in projRules : l[1] = p.a => l[2] \in direct
      /\ \A l \in projSets : l[1] = p.a => l[2] \in sets
      /\ \A l \in setRules : l[1] \in p.sets => l[2] \in more
  OBVIOUS
<1> HIDE DEF direct, sets, more
<1>4. ASSUME NEW got, Answer(s, 200, got)
      PROVE  req'[s].pc = "done" /\ req'[s].got = got
  BY <1>4 DEF Answer, Idle
<1>5. CASE p.pc = "direct" /\ req' = [req EXCEPT ![s].pc = "sets", ![s].read = direct]
  <2>1. /\ req'[s].pc = "sets" /\ req'[s].a = p.a /\ req'[s].ans = p.ans
        /\ req'[s].read = direct
    BY <1>5 DEF Fields
  <2>2. QED
    BY <1>1, <1>3, <1>5, <2>1
<1>6. CASE p.pc = "sets" /\ sets = {} /\ Answer(s, 200, p.read)
  BY <1>1, <1>3, <1>4, <1>6
<1>7. CASE p.pc = "sets" /\ req' = [req EXCEPT ![s].pc = "setRules", ![s].sets = sets]
  <2>1. /\ req'[s].pc = "setRules" /\ req'[s].a = p.a /\ req'[s].ans = p.ans
        /\ req'[s].read = p.read /\ req'[s].sets = sets
    BY <1>7 DEF Fields
  <2>2. QED
    BY <1>1, <1>3, <1>7, <2>1
<1>8. CASE p.pc = "setRules" /\ Answer(s, 200, p.read \cup more)
  <2>1. req'[s].pc = "done" /\ req'[s].got = p.read \cup more
    BY <1>4, <1>8
  <2>2. QED
    BY <1>1, <1>3, <1>8, <2>1
<1>9. QED
  BY <1>2, <1>5, <1>6, <1>7, <1>8

\* The history, as Watch keeps it.
LEMMA WatchFacts ==
    ASSUME Watch, NEW s \in Requests, req'[s].op = "EffectiveRules",
           req'[s].pc \in {"direct", "sets", "setRules"}
    PROVE  /\ attached'[s] \subseteq Paths(req[s].a)'
           /\ req'[s].pc # "direct" => attached'[s] \subseteq attached[s]
BY DEF Watch

LEMMA AttachedStep ==
    ASSUME WorkspacesInv, WorkspacesInv', AttachedInv, Next
    PROVE  AttachedInv'
<1>1. SUFFICES ASSUME NEW s \in Requests, req'[s].op = "EffectiveRules",
                      req'[s].pc \in {"direct", "sets", "setRules"}
               PROVE  /\ attached'[s] \subseteq Paths(req[s].a)'
                      /\ req'[s].pc \in {"sets", "setRules"} =>
                            \A y \in attached'[s] : y[2] = 0 => y[1] \in req'[s].read
                      /\ req'[s].pc = "setRules" =>
                            \A y \in attached'[s] : y[2] # 0 => y[2] \in req'[s].sets
  BY DEF AttachedInv
<1>2. /\ attached'[s] \subseteq Paths(req[s].a)'
      /\ req'[s].pc # "direct" => attached'[s] \subseteq attached[s]
  BY <1>1, WatchFacts DEF Next
<1>3. CASE req'[s].pc = "direct"
  BY <1>2, <1>3
<1>4. CASE req'[s].pc # "direct" /\ req'[s] = req[s]
  BY <1>1, <1>2, <1>4 DEF AttachedInv
<1>5. CASE req'[s].pc # "direct" /\ req'[s] # req[s]
  <2>1. /\ req[s].op = "EffectiveRules" /\ getEffectiveRulesForProject(s)
        /\ DOMAIN req[s] = Fields /\ s \in DOMAIN req
    BY <1>1, <1>5, EffectiveMove
  <2>2. TablesOK
    BY DEF WorkspacesInv
  <2>3. CASE /\ req[s].pc = "direct" /\ req'[s].pc = "sets"
             /\ \A l \in projRules : l[1] = req[s].a => l[2] \in req'[s].read
    <3>1. attached[s] \subseteq Paths(req[s].a)
      BY <2>1, <2>3 DEF AttachedInv
    <3>2. \A y \in attached[s] : y[2] = 0 => y[1] \in req'[s].read
      BY <2>2, <2>3, <3>1, PathFacts
    <3>3. QED
      BY <1>2, <2>3, <3>2
  <2>4. CASE /\ req[s].pc = "sets" /\ req'[s].pc = "setRules"
             /\ req'[s].read = req[s].read
             /\ \A l \in projSets : l[1] = req[s].a => l[2] \in req'[s].sets
    <3>1. /\ attached[s] \subseteq Paths(req[s].a)
          /\ \A y \in attached[s] : y[2] = 0 => y[1] \in req[s].read
      BY <2>1, <2>4 DEF AttachedInv
    <3>2. \A y \in attached[s] : y[2] # 0 => y[2] \in req'[s].sets
      BY <2>2, <2>4, <3>1, PathFacts
    <3>3. QED
      BY <1>2, <2>4, <3>1, <3>2
  <2>5. QED
    BY <1>1, <2>1, <2>3, <2>4, EffectiveQuery
<1>6. QED
  BY <1>3, <1>4, <1>5

\* The answer has every rule that stayed attached in one and the same way while
\* the three queries ran, whatever was linked and unlinked between them.
THEOREM EffectiveRulesComplete == Spec => EffectiveComplete
<1> DEFINE Complete ==
         \A r \in Requests :
            (req[r].op = "EffectiveRules" /\ req[r].pc # "done" /\ req'[r].ans = 200) =>
               {x[1] : x \in attached[r]} \subseteq req'[r].got
<1>1. Init => AttachedInv
  <2>1. Idle.op = "none"
    BY DEF Idle
  <2>2. QED
    BY <2>1 DEF Init, AttachedInv
<1>2. ASSUME AttachedInv, UNCHANGED vars PROVE AttachedInv'
  BY <1>2 DEF AttachedInv, vars, Paths
<1>3. WorkspacesInv /\ WorkspacesInv' /\ AttachedInv /\ [Next]_vars => AttachedInv'
  BY <1>2, AttachedStep
<1>4. ASSUME WorkspacesInv, AttachedInv, Next PROVE Complete
  <2>1. SUFFICES ASSUME NEW s \in Requests, req[s].op = "EffectiveRules",
                        req[s].pc # "done", req'[s].ans = 200, NEW y \in attached[s]
                 PROVE  y[1] \in req'[s].got
    OBVIOUS
  <2>2. req[s].ans = 0 /\ TablesOK
    BY <1>4, <2>1 DEF WorkspacesInv, Good, Base
  <2>3. getEffectiveRulesForProject(s) /\ DOMAIN req[s] = Fields /\ s \in DOMAIN req
    BY <1>4, <2>1, <2>2, EffectiveMove
  <2>4. CASE /\ req[s].pc = "sets" /\ \A l \in projSets : l[1] # req[s].a
             /\ req'[s].got = req[s].read
    <3>1. y \in Paths(req[s].a) /\ (y[2] = 0 => y[1] \in req[s].read)
      BY <1>4, <2>1, <2>4 DEF AttachedInv
    <3>2. QED
      BY <2>2, <2>4, <3>1, PathFacts
  <2>5. CASE /\ req[s].pc = "setRules" /\ req[s].read \subseteq req'[s].got
             /\ \A l \in setRules : l[1] \in req[s].sets => l[2] \in req'[s].got
    <3>1. /\ y \in Paths(req[s].a) /\ (y[2] = 0 => y[1] \in req[s].read)
          /\ y[2] # 0 => y[2] \in req[s].sets
      BY <1>4, <2>1, <2>5 DEF AttachedInv
    <3>2. QED
      BY <2>2, <2>5, <3>1, PathFacts
  <2>6. QED
    BY <2>1, <2>2, <2>3, <2>4, <2>5, EffectiveQuery
<1>5. WorkspacesInv /\ AttachedInv /\ [Next]_vars => [Complete]_vars
  BY <1>4
<1>6. QED
  BY <1>1, <1>3, <1>5, WorkspacesInvariant, PTL DEF Spec, EffectiveComplete
=============================================================================
