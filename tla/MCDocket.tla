------------------------------ MODULE MCDocket ------------------------------
(***************************************************************************)
(* Small instances of Docket for TLC.  m1 is sent to two offices and needs *)
(* both; m2 is a blueprint change without destinations, behind the PBFT    *)
(* gate, that the routing law sends to both offices.                       *)
(***************************************************************************)
EXTENDS Docket, TLC

CONSTANTS m1, m2, o1, o2

MCDest == [m \in Msgs |-> IF m = m1 THEN {o1, o2} ELSE {}]
MCRouteTable == [m \in Msgs |-> {o1, o2}]
MCLawAcks == [m \in Msgs |-> 0]

\* Any call of any process may throw.
MCAnyCall == Procs \X Locations

\* Any call of the worker may throw, outside its catch block and epilogue.
MCPipelineCall ==
    {Worker} \X {"route", "review", "authorize", "seal", "sealing",
                 "snapshot", "sealFailed", "count", "append"}

Symmetry == Permutations(Handlers)
=============================================================================
