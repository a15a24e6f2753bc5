---------------------------- MODULE MCDocuments -----------------------------
(***************************************************************************)
(* A small instance of Documents for TLC: one request of any kind, one     *)
(* upload or change of the configuration, and one analysis.                *)
(***************************************************************************)
EXTENDS Documents

CONSTANTS r1, r2, r3, u1, u2

MCOperations ==
    [r \in Requests |->
        CASE r = r1 -> {"Upload", "Status", "Content", "Results", "Analyze",
                        "Delete", "List", "SetConfig"}
          [] r = r2 -> {"Upload", "SetConfig"}
          [] OTHER  -> {"Analyze"}]

MCUsers == [r \in Requests |-> IF r = r1 THEN {u1, u2} ELSE {u1}]

\* Configured, and nothing set but a url put in by hand.
MCConfigs == {[max |-> "ok", url |-> "ok"], [max |-> "unset", url |-> "invalid"]}
=============================================================================
