----------------------------- MODULE AtomicLog ------------------------------
(***************************************************************************)
(* What an archive promises the writers of transitions, whatever database  *)
(* it sits on: the rows of a message are a sequence that only grows at its *)
(* end, a new row is linked to the row before it, and the guard of         *)
(* appendTransition holds for the state the row is put on.  One append is  *)
(* one step; nothing else changes a log.                                   *)
(***************************************************************************)
EXTENDS Naturals, Sequences

CONSTANTS Messages,     \* message ids
          States,       \* message states
          Allowed,      \* Allowed[s]: the states the table lets s go to
          Edges         \* the [from, to] pairs the writers ask for

VARIABLE log            \* log[m]: the rows of message m, oldest first

LogRow == [from: States, to: States, prev: Nat]

StateOf(rows) == IF rows = <<>> THEN "pending" ELSE rows[Len(rows)].to

Init ==
    /\ log \in [Messages -> Seq(LogRow)]
    /\ \A m \in Messages : \A i \in DOMAIN log[m] : log[m][i].prev = i - 1

Write(m, edge) ==
    /\ \/ edge.to \in Allowed[StateOf(log[m])]
       \/ edge.from = StateOf(log[m])
    /\ log' = [log EXCEPT ![m] =
                  Append(@, [from |-> edge.from, to |-> edge.to,
                             prev |-> Len(@)])]

Next == \E m \in Messages, edge \in Edges : Write(m, edge)

Spec == Init /\ [][Next]_log
=============================================================================
