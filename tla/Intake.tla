------------------------------- MODULE Intake -------------------------------
(***************************************************************************)
(* What the gateway promises about the way of a message into the pipeline, *)
(* whatever requests, retries, exceptions and restarts do: an id is stored *)
(* once, put on the docket at most once after that, and leaves the docket  *)
(* from its head, one at a time.  Between the two writes of POST /messages *)
(* the id waits in the handler's memory only, and may be dropped there.    *)
(*                                                                         *)
(* Submission ends, and Docket begins, with this interface: both           *)
(* implement it.                                                           *)
(***************************************************************************)
EXTENDS Sequences

CONSTANT Messages       \* message ids

VARIABLES stored,       \* the ids in the archive
          waiting,      \* the ids stored by a handler that has yet to queue them
          docket        \* the queued ids, oldest first

vars == <<stored, waiting, docket>>

Init == stored = {} /\ waiting = {} /\ docket = <<>>

Store(m) ==
    /\ m \notin stored
    /\ stored' = stored \cup {m}
    /\ waiting' = waiting \cup {m}
    /\ UNCHANGED docket

Put(m) ==
    /\ m \in waiting
    /\ docket' = Append(docket, m)
    /\ waiting' = waiting \ {m}
    /\ UNCHANGED stored

Take ==
    /\ docket # <<>>
    /\ docket' = Tail(docket)
    /\ UNCHANGED <<stored, waiting>>

\* The handlers of some waiting ids are gone: an exception or a restart.
Drop ==
    /\ waiting' \in SUBSET waiting
    /\ UNCHANGED <<stored, docket>>

Next == (\E m \in Messages : Store(m) \/ Put(m)) \/ Take \/ Drop

Spec == Init /\ [][Next]_vars
=============================================================================
