---------------------------- MODULE MCD1Archive -----------------------------
(***************************************************************************)
(* A small instance of D1Archive: an edict, and an edict whose payload has *)
(* no law_type.  The writers of a message want to authorize and to         *)
(* archive it.                                                             *)
(***************************************************************************)
EXTENDS D1Archive, TLC

CONSTANTS e1, e2

MCGenre == [m \in Messages |-> "edict"]
MCEdges == {[from |-> "pending", to |-> "authorized"],
            [from |-> "authorized", to |-> "archived"]}

Symmetry == Permutations(Isolates)
=============================================================================
