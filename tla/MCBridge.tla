------------------------------ MODULE MCBridge ------------------------------
(***************************************************************************)
(* Small instances of Bridge.  The breaker opens when more than half of    *)
(* the outcomes it keeps are failures.                                     *)
(***************************************************************************)
EXTENDS Bridge, TLC

CONSTANTS m1, m2, a1

\* m1 is routed to every adapter, m2 to a1 only.
MCMatches == [m \in Msgs |-> IF m = m1 THEN Adapters ELSE {a1}]

\* Each document is routed to an adapter of its own.
MCApart == [m \in Msgs |-> IF m = m1 THEN Adapters \ {a1} ELSE {a1}]

MCThreshold == <<1, 2>>

\* For bridge_run, where both documents are routed to the one adapter and none
\* is restricted.
Symmetry == Permutations(Syncs) \cup Permutations(Msgs)
=============================================================================
