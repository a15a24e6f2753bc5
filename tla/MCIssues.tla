------------------------------ MODULE MCIssues ------------------------------
(***************************************************************************)
(* A small instance of Issues for TLC: one analysis, a request that        *)
(* consumes it, and one of any other kind, a second consumer included.     *)
(***************************************************************************)
EXTENDS Issues

CONSTANTS d1, d2, x1, x2, r1, r2, r3

MCFindings == <<[docs |-> {d1}, rules |-> {x1}], [docs |-> {d1, d2}, rules |-> {x2}]>>

MCOperations ==
    [r \in Requests |->
        CASE r = r1 -> {"Analyze"}
          [] r = r2 -> {"Consume"}
          [] OTHER  -> {"Consume", "JobStatus", "List", "Get", "Create", "Patch", "Delete"}]

MCSelections == [r \in Requests |-> IF r = r3 THEN {{d1}} ELSE {{}}]

MCBackends == {<<"anthropic", "own">>, <<"moonshot", "own">>}
=============================================================================
