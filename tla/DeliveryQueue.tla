--------------------------- MODULE DeliveryQueue ---------------------------
(***************************************************************************)
(* What a lane of internal/outbox promises its callers, without files,     *)
(* offsets or batches: a set of pending events from which nothing leaves   *)
(* before the backend has answered for it.  Delivery is at least once: a   *)
(* pending event may be answered again, and an answered event may return.  *)
(***************************************************************************)
CONSTANT Event

VARIABLES pending, accepted, answered

qvars == <<pending, accepted, answered>>

Init == pending = {} /\ accepted = {} /\ answered = {}

Accept(e) ==
  /\ accepted' = accepted \cup {e}
  /\ pending' = pending \cup {e}
  /\ UNCHANGED answered

Answer(S) ==
  /\ S \subseteq pending
  /\ answered' = answered \cup S
  /\ UNCHANGED <<pending, accepted>>

\* The queue may forget answered events, and may remember them again.
Forget(S) ==
  /\ S \subseteq pending \cap answered
  /\ pending' = pending \ S
  /\ UNCHANGED <<accepted, answered>>

Recall(S) ==
  /\ S \subseteq accepted \cap answered
  /\ pending' = pending \cup S
  /\ UNCHANGED <<accepted, answered>>

Next == \/ \E e \in Event \ accepted : Accept(e)
        \/ \E S \in SUBSET Event : Answer(S) \/ Forget(S) \/ Recall(S)

Spec == Init /\ [][Next]_qvars

=============================================================================
