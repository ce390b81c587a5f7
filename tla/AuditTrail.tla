----------------------------- MODULE AuditTrail -----------------------------
(***************************************************************************)
(* What the audit dispatcher promises its callers, whatever its workers,   *)
(* sinks and shutdown do: an event is accepted at most once, is refused    *)
(* only when at least Capacity events are waiting, and the accepted events *)
(* are settled one by one in the order in which they were accepted, as     *)
(* delivered or as undeliverable.  Nothing is duplicated or reordered; an  *)
(* accepted event disappears only with the process.                        *)
(***************************************************************************)
EXTENDS Naturals, Sequences

CONSTANTS Events, Capacity

VARIABLES pending,     \* accepted, not yet settled, in order
          delivered,   \* settled by at least one sink, in order
          undelivered, \* settled with every sink failing
          refused      \* turned away because the queue was full

trail == <<pending, delivered, undelivered, refused>>

Known == {pending[i] : i \in DOMAIN pending}
           \cup {delivered[i] : i \in DOMAIN delivered}
           \cup undelivered \cup refused

TrailInit ==
  /\ pending = <<>>
  /\ delivered = <<>>
  /\ undelivered = {}
  /\ refused = {}

(* One event may be in the hands of the worker besides those that wait. *)
Accept(e) ==
  /\ e \notin Known
  /\ Len(pending) <= Capacity
  /\ pending' = Append(pending, e)
  /\ UNCHANGED <<delivered, undelivered, refused>>

Refuse(e) ==
  /\ e \notin Known
  /\ Len(pending) >= Capacity
  /\ refused' = refused \cup {e}
  /\ UNCHANGED <<pending, delivered, undelivered>>

Settle ==
  /\ pending # <<>>
  /\ pending' = Tail(pending)
  /\ \/ /\ delivered' = Append(delivered, Head(pending))
        /\ UNCHANGED undelivered
     \/ /\ undelivered' = undelivered \cup {Head(pending)}
        /\ UNCHANGED delivered
  /\ UNCHANGED refused

TrailNext ==
  \/ \E e \in Events : Accept(e) \/ Refuse(e)
  \/ Settle

TrailSpec == TrailInit /\ [][TrailNext]_trail

=============================================================================
