--------------------------- MODULE PendingRequests ---------------------------
(***************************************************************************)
(* What a client of gpilotd may count on: a request it has queued stays    *)
(* pending until its completion has been signalled, or a client withdraws  *)
(* it.  Nothing else makes it disappear.                                   *)
(***************************************************************************)
CONSTANT Requests

VARIABLES
  pending,    \* queued, and found by the next synchronization
  answered,   \* RequestCompleted has been emitted
  withdrawn   \* removed by RemoveRequest

vars == <<pending, answered, withdrawn>>

Init == pending = {} /\ answered = {} /\ withdrawn = {}

Queue(r) ==
  /\ r \notin pending \cup answered \cup withdrawn
  /\ pending' = pending \cup {r}
  /\ UNCHANGED <<answered, withdrawn>>

(* The answer of a request that is pending still: a daemon that dies before *)
(* the request is dropped answers it again.                                 *)
Answer(r) ==
  /\ r \in pending
  /\ answered' = answered \cup {r}
  /\ UNCHANGED <<pending, withdrawn>>

Drop(r) ==
  /\ r \in pending \cap answered
  /\ pending' = pending \ {r}
  /\ UNCHANGED <<answered, withdrawn>>

Withdraw(r) ==
  /\ r \in pending
  /\ pending' = pending \ {r}
  /\ withdrawn' = withdrawn \cup {r}
  /\ UNCHANGED answered

Next == \E r \in Requests : Queue(r) \/ Answer(r) \/ Drop(r) \/ Withdraw(r)

Spec == Init /\ [][Next]_vars
=============================================================================
