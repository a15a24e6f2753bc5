----------------------------- MODULE ArchiveLog -----------------------------
(***************************************************************************)
(* The transition log an archive keeps for one message: the lifecycle      *)
(* table of packages/core/src/kinds.ts and the reads and the insert that   *)
(* the `transitions` table of packages/archive/src/sqlite.ts offers.       *)
(*                                                                         *)
(* A log is a function from sequence_no to rows.  A row keeps the columns  *)
(* from_state and to_state and, for prev_transition_hash, the sequence     *)
(* number of the row whose hash it stores (0 stands for 'GENESIS').        *)
(* Hashes, actors, reasons and timestamps are left out.                    *)
(***************************************************************************)
EXTENDS Integers, FiniteSets

MessageState ==
    {"pending", "validated", "reviewed", "authorized", "rejected", "archived"}

AllowedTransitions ==
    [s \in MessageState |->
        CASE s = "pending"    -> {"validated", "authorized", "rejected"}
          [] s = "validated"  -> {"reviewed", "rejected"}
          [] s = "reviewed"   -> {"pending", "authorized", "rejected"}
          [] s = "authorized" -> {"archived"}
          [] OTHER            -> {}]

CanTransition(fromState, toState) == toState \in AllowedTransitions[fromState]

Row == [from: MessageState, to: MessageState, prev: Nat]

\* The type of a log; UNIQUE(message_id, sequence_no) makes it a function.
IsLog(log) ==
    /\ DOMAIN log \in SUBSET Nat
    /\ IsFiniteSet(DOMAIN log)
    /\ log \in [DOMAIN log -> Row]

EmptyLog == [i \in {} |-> [from |-> "pending", to |-> "pending", prev |-> 0]]

\* SELECT ... ORDER BY sequence_no DESC LIMIT 1; 0 when there is no row.
LastSeq(log) ==
    IF DOMAIN log = {} THEN 0
    ELSE CHOOSE i \in DOMAIN log : \A j \in DOMAIN log : j <= i

\* snapshotState(id) ?? 'pending', as every caller reads it.
SnapshotState(log) ==
    IF DOMAIN log = {} THEN "pending" ELSE log[LastSeq(log)].to

\* getTransitions(id).length + 1, the number the writers give their next row.
NextSeq(log) == Cardinality(DOMAIN log) + 1

\* The guard of appendTransition, then the UNIQUE constraint of its INSERT.
\* The guard throws only when the edge is not in the table AND the row's
\* from_state is not the current state.
Accepts_mutant_noGuard(log, seqNo, edge) == seqNo \notin DOMAIN log

Accepts(log, seqNo, edge) ==
    /\ \/ CanTransition(SnapshotState(log), edge.to)
       \/ SnapshotState(log) = edge.from
    /\ seqNo \notin DOMAIN log

\* INSERT INTO transitions with the given prev_transition_hash.
InsertRow(log, seqNo, edge, prev) ==
    [i \in DOMAIN log \cup {seqNo} |->
        IF i = seqNo
        THEN [from |-> edge.from, to |-> edge.to, prev |-> prev]
        ELSE log[i]]

\* The rows of a log that enter a given state.
Entered(log, state) == {i \in DOMAIN log : log[i].to = state}
=============================================================================
