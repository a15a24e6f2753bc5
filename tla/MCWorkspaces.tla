---------------------------- MODULE MCWorkspaces ----------------------------
(***************************************************************************)
(* A small instance of Workspaces for TLC.  u1 owns workspace 1, with      *)
(* rule 1 and project 1; u2 has nothing yet.  Rule 1 is linked to the      *)
(* project and rule 2 reaches it by rule set 1.                            *)
(***************************************************************************)
EXTENDS Workspaces

CONSTANTS u1, u2, c1, c2, c3, r1, r2, r3

MCSeed ==
    [workspaces |-> [i \in Ids |-> IF i = 1 THEN [owner |-> u1, personal |-> FALSE, all |-> TRUE]
                                   ELSE NoRow],
     projects   |-> [i \in Ids |-> IF i = 1 THEN 1 ELSE 0],
     rules      |-> [i \in Ids |-> CASE i = 1 -> c1 [] i = 2 -> c2 [] OTHER -> NoCode],
     ruleSets   |-> {1},
     wsRules    |-> {<<1, 1>>},
     projRules  |-> {<<1, 1>>},
     projSets   |-> {<<1, 1>>},
     setRules   |-> {<<1, 2>>},
     next       |-> [ws |-> 2, project |-> 2, rule |-> 3, set |-> 2]]

AllOperations == {"Login", "ListWorkspaces", "CreateWorkspace", "CreateRule",
                  "ListRuleSets", "CreateRuleSet"}
                 \cup OnWorkspace \cup OnProject \cup OnRule \cup OnRuleSet

\* One request of any kind, against two that take away, add or start over.
MCOperations ==
    [r \in Requests |->
        CASE r = r1 -> AllOperations
          [] r = r2 -> {"DeleteWorkspace", "DeleteRule", "UnlinkProjectRuleSet"}
          [] OTHER  -> {"Login", "LinkProjectRule"}]
=============================================================================
