---------------------------- MODULE MCSubmission ----------------------------
(***************************************************************************)
(* A small instance of Submission: r1 and its retry r2 carry message m1    *)
(* under one key, r3 submits a safety incident of the same actor without a *)
(* key.                                                                    *)
(***************************************************************************)
EXTENDS Submission

CONSTANTS r1, r2, r3, m1, m2, a1, a2, k1

MCMsgOf == [r \in Requests |-> IF r = r3 THEN m2 ELSE m1]
MCKeyOf == [r \in Requests |-> IF r = r3 THEN NoKey ELSE k1]
MCActorOf == [m \in Messages |-> a1]
=============================================================================
