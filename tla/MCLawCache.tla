----------------------------- MODULE MCLawCache -----------------------------
(***************************************************************************)
(* Small instances of LawCache: edict 2 supersedes edict 1 and takes       *)
(* effect later; edict 4 is a rival of 1 with the same rank; 3 defines a   *)
(* genre.                                                                  *)
(***************************************************************************)
EXTENDS LawCache, TLC

MCKey == [d \in Docs |-> IF d = 3 THEN "petition" ELSE "routing"]
MCEffective == [d \in Docs |-> IF d = 2 THEN 2 ELSE 0]
MCPrecedence == [d \in Docs |-> 0]
MCSupersedes == [d \in Docs |-> IF d = 2 THEN 1 ELSE 0]

Symmetry == Permutations(Readers)
=============================================================================
