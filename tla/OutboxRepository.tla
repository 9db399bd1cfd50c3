--------------------------- MODULE OutboxRepository ---------------------------
(***************************************************************************)
(* One row of the transactional outbox, and what each statement of         *)
(* app/outbox/repository.py does to it.  Two comparisons with the clock    *)
(* are kept instead of two timestamps:                                     *)
(*   due      next_attempt_at <= now                                       *)
(*   overdue  lease_expires_at <= now (of interest while the row is leased)*)
(*                                                                         *)
(* A definition whose name has a suffix (Claimable_PendingOnly) is a       *)
(* deliberate error, used to see that the properties notice it.            *)
(***************************************************************************)
EXTENDS Naturals

CONSTANTS Workers,     \* identities of dispatcher processes (worker_id)
          NoWorker  \* a NULL lease_owner

ASSUME NoWorkerAssumption == NoWorker \notin Workers

MessageStatus == {"none", "pending", "leased", "delivered", "terminal", "dead_letter"}

Message == [status: MessageStatus, attempts: Nat, owner: Workers \cup {NoWorker},
            token: Nat, due: BOOLEAN, overdue: BOOLEAN]

\* "none" is a row that has not been inserted yet.
NoMessage == [status |-> "none", attempts |-> 0, owner |-> NoWorker,
              token |-> 0, due |-> FALSE, overdue |-> FALSE]

Enqueued == [NoMessage EXCEPT !.status = "pending", !.due = TRUE]

Claimable_PendingOnly(m) == m.due /\ m.status = "pending"

\* _claimable; which of several claimable rows comes first is left open.
Claimable(m) == /\ m.due
                /\ m.status = "pending" \/ (m.status = "leased" /\ m.overdue)

ClaimNext_SameToken(m, w) ==
  [status |-> "leased", attempts |-> m.attempts + 1, owner |-> w,
   token |-> m.token, due |-> m.due, overdue |-> FALSE]

\* The lease starts anew, under the next token.
ClaimNext(m, w) ==
  [status |-> "leased", attempts |-> m.attempts + 1, owner |-> w,
   token |-> m.token + 1, due |-> m.due, overdue |-> FALSE]

\* The WHERE clause of every completion: note that it never asks whether the
\* lease is overdue.
HoldsLease(m, w, token) ==
  m.status = "leased" /\ m.owner = w /\ m.token = token

Release(m, status) ==
  [m EXCEPT !.status = status, !.owner = NoWorker, !.overdue = FALSE]

MarkDelivered(m) == Release(m, "delivered")
MarkTerminal(m, dead) == Release(m, IF dead THEN "dead_letter" ELSE "terminal")
ScheduleRetry_NotRequeued(m, due) == [Release(m, "terminal") EXCEPT !.due = due]
ScheduleRetry(m, due) == [Release(m, "pending") EXCEPT !.due = due]

\* The three statements that write a row from outside the repository: the
\* dispatcher's replay and the two buttons of the operations console.
Requeue(m) == [m EXCEPT !.status = "pending", !.attempts = 0, !.due = TRUE,
                        !.owner = NoWorker]
Discard(m) == [m EXCEPT !.status = "terminal", !.owner = NoWorker]
================================================================================
