--------------------------- MODULE GovernedDispatch ---------------------------
(***************************************************************************)
(* From a planned HR case to a governed write: approval, execution grant,  *)
(* outbox message, worker, completion.                                     *)
(*                                                                         *)
(*   browser / agent      request_approval, decide_approval, cancel,       *)
(*                        prepare_approved_write                           *)
(*   oauth                revoke_family                                    *)
(*   worker processes     OutboxDispatcher.dispatch_once                   *)
(*   operations console   resolve, replay, discard                         *)
(*                                                                         *)
(* An approval is consumed at most once, so an approval, its execution,    *)
(* its grant and its outbox message are one-to-one: all are indexed by the *)
(* approval.                                                               *)
(*                                                                         *)
(* Every action is one committed database transaction, with two            *)
(* exceptions.  The tool call runs outside any transaction and is a step   *)
(* of its own, between the claim and the completion.  And the handlers     *)
(* named in Overlap read rows without locking them and write later, under  *)
(* READ COMMITTED: each is two steps, a read (Begin, or ReadsCase and      *)
(* EffectReads of a worker) and a write (the handler's action) or a        *)
(* Rollback, between which anyone may commit.  A guarded UPDATE checks     *)
(* again when it writes; an ORM assignment does not, and what a handler    *)
(* writes to the case waits for the advisory lock of _append_event after   *)
(* the case was read.  Completions and rejections are one step always:     *)
(* they append an event, and so hold that lock, before they read the case. *)
(*                                                                         *)
(* A definition with a suffix (Claimable_PendingOnly) is a deliberate      *)
(* error, used to see that the properties notice it.                       *)
(***************************************************************************)
EXTENDS OutboxRepository, CaseStates

CONSTANTS
  Cases, Approvals,
  CaseOf,          \* the case an approval belongs to
  Installations,   \* authorised external agents (OAuth token families)
  NoInstallation,  \* an approval requested from the web
  InstallationOf,  \* what an approval was requested through
  StatusWrites,    \* approvals of the tool update_case_status
  Registered,      \* approvals whose tool has an executor
  MaxAttempts,     \* the tool's max_attempts
  MaxClaims,       \* BOUND: tool calls started per message
  Overlap,         \* handlers whose read and write are separate steps
  Replays          \* who may replay a dead letter: "dispatcher", "ops"

\* The desk, the console, the dispatcher's replay, and what a worker does to
\* the case: its claim and the tool update_case_status.
Handlers == {"plan", "request", "approve", "prepare", "cancel",
             "replay", "discard", "confirm", "refute",
             "redrive", "claim", "effect"}

ASSUME ConstantsAssumption ==
  /\ CaseOf \in [Approvals -> Cases]
  /\ NoInstallation \notin Installations
  /\ InstallationOf \in [Approvals -> Installations \cup {NoInstallation}]
  /\ StatusWrites \subseteq Approvals
  /\ Registered \subseteq Approvals
  /\ MaxAttempts \in Nat \ {0}
  /\ MaxClaims \in Nat \ {0}
  /\ Overlap \subseteq Handlers
  /\ Replays \subseteq {"dispatcher", "ops"}

VARIABLES
  caseStatus,  \* hr_cases.status
  approval,    \* approval_requests.status, "NONE" before it is requested
  lapsed,      \* expires_at of the approval, and of its grant, has passed
  revoked,     \* installations with a revocation record
  authorized,  \* the grant's subject has capability and object access now
  grant,       \* execution_grants.status
  execution,   \* tool_executions: status, claimed before, lease owner and token
  message,     \* outbox_messages
  worker,      \* each dispatcher process: what it is doing
  applied,     \* the tool's effect is in place (it is idempotent by request id)
  open         \* handlers of Overlap between their read and their write

people == <<lapsed, revoked, authorized>>
queue  == <<grant, execution, message>>
calls  == <<worker, applied>>
vars   == <<caseStatus, approval, people, queue, calls, open>>

ApprovalStatus == {"NONE", "PENDING", "APPROVED", "REJECTED", "EXPIRED",
                   "WITHDRAWN", "CONSUMED"}
GrantStatus == {"none", "active", "consumed", "revoked"}
ExecutionStatus == {"none", "PENDING", "RUNNING", "SUCCEEDED", "FAILED", "UNKNOWN"}
Outcomes == {"ok", "retryable", "terminal", "unknown", "unregistered"}

Execution == [status: ExecutionStatus, tried: BOOLEAN,
              owner: Workers \cup {NoWorker}, token: Nat]
NoExecution == [status |-> "none", tried |-> FALSE, owner |-> NoWorker, token |-> 0]

\* A worker is idle, in a claim and waiting to write the case it found, inside
\* the tool call (landing: waiting to write the case), back from it with an
\* outcome, or dead.
Idle == [phase |-> "idle"]
Down == [phase |-> "down"]
Claiming(a, found) == [phase |-> "claiming", on |-> a, found |-> found]
Calling(a, token) == [phase |-> "calling", on |-> a, token |-> token]
Landing(job) == [phase |-> "landing", on |-> job.on, token |-> job.token]
Returned(job, outcome) == [phase |-> "returned", on |-> job.on, token |-> job.token,
                           outcome |-> outcome]
Worker == {Idle, Down}
          \cup [phase: {"claiming"}, on: Approvals, found: CaseStatus]
          \cup [phase: {"calling", "landing"}, on: Approvals, token: Nat]
          \cup [phase: {"returned"}, on: Approvals, token: Nat, outcome: Outcomes]

Init ==
  /\ caseStatus = [c \in Cases |-> "NEW"]
  /\ approval = [a \in Approvals |-> "NONE"]
  /\ lapsed = [a \in Approvals |-> FALSE]
  /\ revoked = {}
  /\ authorized = [a \in Approvals |-> TRUE]
  /\ grant = [a \in Approvals |-> "none"]
  /\ execution = [a \in Approvals |-> NoExecution]
  /\ message = [a \in Approvals |-> NoMessage]
  /\ worker = [w \in Workers |-> Idle]
  /\ applied = [a \in Approvals |-> FALSE]
  /\ open = {}

MoveCase(a, status) == caseStatus' = [caseStatus EXCEPT ![CaseOf[a]] = status]
CaseStays == caseStatus' = caseStatus
CaseIs(a, statuses) == caseStatus[CaseOf[a]] \in statuses
CaseCanMove(a, status) == CanTransition(caseStatus[CaseOf[a]], status)

\* A claim that is under way, or a replay by the dispatcher, holds the row
\* locks of the message and its execution: everyone else's write waits.
Locked(a) == \/ \E w \in Workers : worker[w].phase = "claiming" /\ worker[w].on = a
             \/ <<"redrive", a>> \in open

(***************************************************************************)
(* Handlers that read without a lock.                                      *)
(***************************************************************************)

InstallationRevoked(a) == InstallationOf[a] \in revoked

\* save_plan and _ensure_plan_ready: from where they find a way to PLAN_READY.
\* Planners are told apart by the approval they will ask for.
PlanReads(a) == CaseIs(a, {"NEW", "TRIAGED", "EVIDENCE_READY"})

RequestReads_NoTransitionCheck(a) == approval[a] = "NONE" /\ ~InstallationRevoked(a)

\* request_approval makes a new record: no reusable one, a legal transition.
\* (A request that finds a reusable PENDING record changes nothing.)  A
\* revoked installation's token no longer passes authentication.
RequestReads(a) == /\ approval[a] = "NONE"
                   /\ ~InstallationRevoked(a)
                   /\ CaseCanMove(a, "AWAITING_APPROVAL")

\* AgentTaskService.cancel of a submitted task goes by the status it read.
CancelReads(a) == approval[a] = "PENDING"

\* _load of the operations console: the row by id and status, no FOR UPDATE.
DeadLetterRead(a) == message[a].status = "dead_letter"
UnknownRead(a) == execution[a].status = "UNKNOWN"

\* decide_approval: not revoked, not expired.
Decidable(a) == approval[a] = "PENDING" /\ ~InstallationRevoked(a)
ApproveReads(a) == Decidable(a) /\ ~lapsed[a]

\* prepare_approved_write and begin_tool_execution: policy, object access,
\* status, expiry, revocation.
PrepareReads(a) == /\ approval[a] = "APPROVED" /\ ~lapsed[a]
                   /\ ~InstallationRevoked(a)
                   /\ authorized[a]

\* _is_currently_authorized
AuthorizedNow(a) == grant[a] \in {"active", "consumed"} /\ ~lapsed[a] /\ authorized[a]

\* The rows replay_dead_letter locks, and what it reads besides.
Redrivable(a) == /\ "dispatcher" \in Replays
                 /\ message[a].status = "dead_letter" /\ execution[a].status = "FAILED"
                 /\ grant[a] = "consumed"
RedriveReads(a) == /\ ~Locked(a) /\ Redrivable(a)
                   /\ AuthorizedNow(a) /\ CaseIs(a, {"FAILED"})

Reads(h, a) == \/ h = "plan" /\ PlanReads(a)
               \/ h = "request" /\ RequestReads(a)
               \/ h = "approve" /\ ApproveReads(a)
               \/ h = "prepare" /\ PrepareReads(a)
               \/ h = "cancel" /\ CancelReads(a)
               \/ h = "replay" /\ "ops" \in Replays /\ DeadLetterRead(a)
               \/ h = "discard" /\ DeadLetterRead(a)
               \/ h \in {"confirm", "refute"} /\ UnknownRead(a)
               \/ h = "redrive" /\ RedriveReads(a)

\* The read half of a handler of Overlap.
Begin(h, a) ==
  /\ h \in Overlap
  /\ <<h, a>> \notin open
  /\ Reads(h, a)
  /\ open' = open \cup {<<h, a>>}
  /\ UNCHANGED <<caseStatus, approval, people, queue, calls>>

\* Nothing was written; a guarded UPDATE that found no row ends this way too.
Rollback(h, a) ==
  /\ <<h, a>> \in open
  /\ open' = open \ {<<h, a>>}
  /\ UNCHANGED <<caseStatus, approval, people, queue, calls>>

\* Handlers that may be in flight twice for one approval: two reviewers, or a
\* double click.  Their writes are guarded UPDATEs.
Repeatable == {"approve", "prepare"}

\* What a handler's write needs: a read earlier, or one in the same step.
MayWrite(h, a) ==
  \/ /\ h \in Overlap /\ <<h, a>> \in open
     /\ \/ open' = open \ {<<h, a>>}
        \/ h \in Repeatable /\ open' = open
  \/ h \notin Overlap /\ Reads(h, a) /\ open' = open

\* Every hop to PLAN_READY in one commit.
PlanCase(a) ==
  /\ MayWrite("plan", a)
  /\ MoveCase(a, "PLAN_READY")
  /\ UNCHANGED <<approval, people, queue, calls>>

RequestApproval(a) ==
  /\ MayWrite("request", a)
  /\ approval' = [approval EXCEPT ![a] = "PENDING"]
  /\ MoveCase(a, "AWAITING_APPROVAL")
  /\ UNCHANGED <<people, queue, calls>>

CancelTask_OtherStatus(a) ==
  /\ MayWrite("cancel", a)
  /\ approval' = [approval EXCEPT ![a] = "CANCELLED"]
  /\ IF CaseIs(a, {"AWAITING_APPROVAL"}) THEN MoveCase(a, "PLAN_READY") ELSE CaseStays
  /\ UNCHANGED <<people, queue, calls>>

CancelTask_ApprovalForgotten(a) ==
  /\ MayWrite("cancel", a)
  /\ IF CaseIs(a, {"AWAITING_APPROVAL"}) THEN MoveCase(a, "PLAN_READY") ELSE CaseStays
  /\ UNCHANGED <<approval, people, queue, calls>>

\* The case is read after the approval is written, in the same transaction.
\* The task's own transition to CANCELLED then raises; the REST route commits
\* in its finally block all the same.
CancelTask(a) ==
  /\ MayWrite("cancel", a)
  /\ approval' = [approval EXCEPT ![a] = "WITHDRAWN"]
  /\ IF CaseIs(a, {"AWAITING_APPROVAL"}) THEN MoveCase(a, "PLAN_READY") ELSE CaseStays
  /\ UNCHANGED <<people, queue, calls>>

OpsReplay(a) ==
  /\ MayWrite("replay", a) /\ ~Locked(a)
  /\ message' = [message EXCEPT ![a] = Requeue(@)]
  /\ UNCHANGED <<caseStatus, approval, people, grant, execution, calls>>

OpsDiscard(a) ==
  /\ MayWrite("discard", a) /\ ~Locked(a)
  /\ message' = [message EXCEPT ![a] = Discard(@)]
  /\ UNCHANGED <<caseStatus, approval, people, grant, execution, calls>>

\* An operator's verdict on an UNKNOWN execution; the case is left alone.
OpsResolve(a, h, verdict) ==
  /\ MayWrite(h, a) /\ ~Locked(a)
  /\ execution' = [execution EXCEPT ![a].status = verdict]
  /\ UNCHANGED <<caseStatus, approval, people, grant, message, calls>>

OpsConfirm(a) == OpsResolve(a, "confirm", "SUCCEEDED")
OpsRefute(a) == OpsResolve(a, "refute", "FAILED")

(***************************************************************************)
(* Decisions, revocation, acceptance.                                      *)
(***************************************************************************)

\* decide_approval: UPDATE ... WHERE status = 'PENDING'.
Approve(a) ==
  /\ MayWrite("approve", a)
  /\ approval[a] = "PENDING"
  /\ approval' = [approval EXCEPT ![a] = "APPROVED"]
  /\ UNCHANGED <<caseStatus, people, queue, calls>>

Reject(a) ==
  /\ Decidable(a) /\ ~lapsed[a]
  /\ CaseCanMove(a, "PLAN_READY")
  /\ approval' = [approval EXCEPT ![a] = "REJECTED"]
  /\ MoveCase(a, "PLAN_READY")
  /\ UNCHANGED <<people, queue, calls, open>>

\* A decision that comes too late records the expiry, and nothing else.
ExpireOnDecision(a) ==
  /\ Decidable(a) /\ lapsed[a]
  /\ approval' = [approval EXCEPT ![a] = "EXPIRED"]
  /\ UNCHANGED <<caseStatus, people, queue, calls, open>>

RevokeInstallation_ApprovalsForgotten(i) ==
  /\ i \notin revoked
  /\ revoked' = revoked \cup {i}
  /\ UNCHANGED <<caseStatus, approval, lapsed, authorized, queue, calls, open>>

\* revoke_family with _cancel_bound_approvals.
RevokeInstallation(i) ==
  /\ i \notin revoked
  /\ revoked' = revoked \cup {i}
  /\ approval' = [a \in Approvals |->
                    IF InstallationOf[a] = i /\ approval[a] \in {"PENDING", "APPROVED"}
                    THEN "EXPIRED" ELSE approval[a]]
  /\ UNCHANGED <<caseStatus, lapsed, authorized, queue, calls, open>>

PrepareApprovedWrite_AnyStatus(a) ==
  /\ approval[a] \in {"PENDING", "APPROVED"} /\ ~lapsed[a]
  /\ ~InstallationRevoked(a) /\ authorized[a]
  /\ approval' = [approval EXCEPT ![a] = "CONSUMED"]
  /\ grant' = [grant EXCEPT ![a] = "active"]
  /\ execution' = [execution EXCEPT ![a].status = "PENDING"]
  /\ message' = [message EXCEPT ![a] = Enqueued]
  /\ UNCHANGED <<caseStatus, people, calls, open>>

\* prepare_approved_write: consume the approval (UPDATE ... WHERE status =
\* 'APPROVED' and unexpired), issue the grant, record the execution and enqueue
\* the message, all in the route's commit.
PrepareApprovedWrite(a) ==
  /\ MayWrite("prepare", a)
  /\ approval[a] = "APPROVED" /\ ~lapsed[a]
  /\ approval' = [approval EXCEPT ![a] = "CONSUMED"]
  /\ grant' = [grant EXCEPT ![a] = "active"]
  /\ execution' = [execution EXCEPT ![a].status = "PENDING"]
  /\ message' = [message EXCEPT ![a] = Enqueued]
  /\ UNCHANGED <<caseStatus, people, calls>>

(***************************************************************************)
(* The clock, and the administration of roles and scopes.                  *)
(***************************************************************************)

Expire(a) ==
  /\ approval[a] # "NONE" /\ ~lapsed[a]
  /\ lapsed' = [lapsed EXCEPT ![a] = TRUE]
  /\ UNCHANGED <<caseStatus, approval, revoked, authorized, queue, calls, open>>

\* A role, an owner or an org scope changes: either way, any time.
AuthorityChanges(a) ==
  /\ authorized' = [authorized EXCEPT ![a] = ~@]
  /\ UNCHANGED <<caseStatus, approval, lapsed, revoked, queue, calls, open>>

LeaseLapses(a) ==
  /\ message[a].status = "leased" /\ ~message[a].overdue
  /\ message' = [message EXCEPT ![a].overdue = TRUE]
  /\ UNCHANGED <<caseStatus, approval, people, grant, execution, calls, open>>

RetryDue(a) ==
  /\ message[a].status = "pending" /\ ~message[a].due
  /\ message' = [message EXCEPT ![a].due = TRUE]
  /\ UNCHANGED <<caseStatus, approval, people, grant, execution, calls, open>>

(***************************************************************************)
(* OutboxDispatcher._claim                                                 *)
(***************************************************************************)

\* A grant is fresh, or consumed by an earlier attempt of the same execution.
GrantUsable(a) ==
  \/ grant[a] = "active"
  \/ /\ grant[a] = "consumed"
     /\ execution[a].status \in {"PENDING", "RUNNING"} /\ execution[a].tried

\* FOR UPDATE SKIP LOCKED hands out the rows nobody holds.
Idles(w, a) == worker[w] = Idle /\ ~Locked(a) /\ Claimable(message[a])

\* The read half of a claim: the rows are locked, the case is read.
ReadsCase(w, a) ==
  /\ "claim" \in Overlap
  /\ Idles(w, a)
  /\ worker' = [worker EXCEPT ![w] = Claiming(a, caseStatus[CaseOf[a]])]
  /\ UNCHANGED <<caseStatus, approval, people, queue, applied, open>>

\* The claim goes by the status it found, earlier or in the same step.
CanClaim(w, a) ==
  \/ /\ worker[w].phase = "claiming" /\ worker[w].on = a
     /\ Claimable(message[a])
  \/ "claim" \notin Overlap /\ Idles(w, a)
Found(w, a) == IF worker[w].phase = "claiming" THEN worker[w].found ELSE caseStatus[CaseOf[a]]

ClaimRevokes(w, a) ==
  /\ CanClaim(w, a) /\ ~AuthorizedNow(a)
  /\ grant' = [grant EXCEPT ![a] = "revoked"]
  /\ execution' = [execution EXCEPT ![a] =
                     [status |-> "FAILED", tried |-> TRUE, owner |-> NoWorker,
                      token |-> message[a].token + 1]]
  /\ IF Found(w, a) \in {"AWAITING_APPROVAL", "EXECUTING"} THEN MoveCase(a, "FAILED") ELSE CaseStays
  /\ message' = [message EXCEPT ![a] = MarkTerminal(ClaimNext(@, w), FALSE)]
  /\ worker' = [worker EXCEPT ![w] = Idle]
  /\ UNCHANGED <<approval, people, applied, open>>

ClaimAccepts_CaseForgotten(w, a) ==
  /\ CanClaim(w, a) /\ AuthorizedNow(a) /\ GrantUsable(a)
  /\ message[a].token < MaxClaims
  /\ grant' = [grant EXCEPT ![a] = "consumed"]
  /\ message' = [message EXCEPT ![a] = ClaimNext(@, w)]
  /\ execution' = [execution EXCEPT ![a] =
                     [status |-> "RUNNING", tried |-> TRUE, owner |-> w,
                      token |-> message[a].token + 1]]
  /\ CaseStays
  /\ worker' = [worker EXCEPT ![w] = Calling(a, message[a].token + 1)]
  /\ UNCHANGED <<approval, people, applied, open>>

ClaimAccepts_TokenReadEarly(w, a) ==
  /\ CanClaim(w, a) /\ AuthorizedNow(a) /\ GrantUsable(a)
  /\ message[a].token < MaxClaims
  /\ grant' = [grant EXCEPT ![a] = "consumed"]
  /\ message' = [message EXCEPT ![a] = ClaimNext(@, w)]
  /\ execution' = [execution EXCEPT ![a] =
                     [status |-> "RUNNING", tried |-> TRUE, owner |-> w,
                      token |-> message[a].token]]
  /\ IF Found(w, a) = "AWAITING_APPROVAL" THEN MoveCase(a, "EXECUTING") ELSE CaseStays
  /\ worker' = [worker EXCEPT ![w] = Calling(a, message[a].token + 1)]
  /\ UNCHANGED <<approval, people, applied, open>>

ClaimAccepts(w, a) ==
  /\ CanClaim(w, a) /\ AuthorizedNow(a) /\ GrantUsable(a)
  /\ message[a].token < MaxClaims
  /\ grant' = [grant EXCEPT ![a] = "consumed"]
  /\ message' = [message EXCEPT ![a] = ClaimNext(@, w)]
  /\ execution' = [execution EXCEPT ![a] =
                     [status |-> "RUNNING", tried |-> TRUE, owner |-> w,
                      token |-> message[a].token + 1]]
  /\ IF Found(w, a) = "AWAITING_APPROVAL" THEN MoveCase(a, "EXECUTING") ELSE CaseStays
  /\ worker' = [worker EXCEPT ![w] = Calling(a, message[a].token + 1)]
  /\ UNCHANGED <<approval, people, applied, open>>

\* RuntimeError: the transaction rolls back and, since run_worker catches
\* nothing, the process ends.
ClaimAborts(w, a) ==
  /\ CanClaim(w, a) /\ AuthorizedNow(a) /\ ~GrantUsable(a)
  /\ worker' = [worker EXCEPT ![w] = Down]
  /\ UNCHANGED <<caseStatus, approval, people, queue, applied, open>>

(***************************************************************************)
(* The tool call: the effect lands or not, and the executor returns or     *)
(* raises one of the dispatcher's exceptions.                              *)
(***************************************************************************)

InCall(w) == worker[w].phase \in {"calling", "landing"}
Return(w, outcome) == worker' = [worker EXCEPT ![w] = Returned(@, outcome)]

\* update_case_status changes the case in a transaction of its own, from a
\* status the table lets it; the read half.
EffectReads(w) ==
  /\ "effect" \in Overlap
  /\ worker[w].phase = "calling"
  /\ worker[w].on \in Registered \cap StatusWrites /\ CaseIs(worker[w].on, {"EXECUTING"})
  /\ worker' = [worker EXCEPT ![w] = Landing(@)]
  /\ UNCHANGED <<caseStatus, approval, people, queue, applied, open>>

\* Another tool leaves the case alone, and so does update_case_status where it
\* finds it RESOLVED.
MayLand(w, a) == \/ a \notin StatusWrites
                 \/ worker[w].phase = "landing"
                 \/ CaseIs(a, {"RESOLVED"})
                 \/ "effect" \notin Overlap /\ CaseIs(a, {"EXECUTING"})

EffectLands(w) ==
  /\ InCall(w)
  /\ LET a == worker[w].on IN
       /\ a \in Registered /\ MayLand(w, a)
       /\ IF a \in StatusWrites THEN MoveCase(a, "RESOLVED") ELSE CaseStays
       /\ applied' = [applied EXCEPT ![a] = TRUE]
  /\ \E outcome \in {"ok", "unknown"} : Return(w, outcome)
  /\ UNCHANGED <<approval, people, queue, open>>

EffectAbsent(w) ==
  /\ InCall(w)
  /\ \E outcome \in IF worker[w].on \in Registered
                    THEN {"retryable", "terminal", "unknown"} ELSE {"unregistered"} :
       Return(w, outcome)
  /\ UNCHANGED <<caseStatus, approval, people, queue, applied, open>>

(***************************************************************************)
(* The completions.  Each locks the message and the execution and goes on  *)
(* only if both still carry this worker's lease.                           *)
(***************************************************************************)

Fenced(w, a) ==
  /\ HoldsLease(message[a], w, worker[w].token)
  /\ execution[a].status = "RUNNING"
  /\ execution[a].owner = w /\ execution[a].token = worker[w].token

Completing(w, a, outcomes) ==
  /\ worker[w].phase = "returned" /\ worker[w].on = a /\ ~Locked(a)
  /\ worker[w].outcome \in outcomes

\* The execution gives up its lease; its token stays.
Settle(a, status) ==
  execution' = [execution EXCEPT ![a].status = status, ![a].owner = NoWorker]

GoesIdle(w) == worker' = [worker EXCEPT ![w] = Idle]

CompleteStale(w, a) ==
  /\ Completing(w, a, Outcomes) /\ ~Fenced(w, a)
  /\ GoesIdle(w)
  /\ UNCHANGED <<caseStatus, approval, people, queue, applied, open>>

CompleteSuccess_AnyOutcome(w, a) ==
  /\ Completing(w, a, {"ok", "unknown"}) /\ Fenced(w, a)
  /\ CaseIs(a, {"EXECUTING", "RESOLVED"})
  /\ Settle(a, "SUCCEEDED")
  /\ MoveCase(a, "RESOLVED")
  /\ message' = [message EXCEPT ![a] = MarkDelivered(@)]
  /\ GoesIdle(w)
  /\ UNCHANGED <<approval, people, grant, applied, open>>

CompleteSuccess(w, a) ==
  /\ Completing(w, a, {"ok"}) /\ Fenced(w, a)
  /\ CaseIs(a, {"EXECUTING", "RESOLVED"})
  /\ Settle(a, "SUCCEEDED")
  /\ MoveCase(a, "RESOLVED")
  /\ message' = [message EXCEPT ![a] = MarkDelivered(@)]
  /\ GoesIdle(w)
  /\ UNCHANGED <<approval, people, grant, applied, open>>

CompleteUnknown(w, a) ==
  /\ Completing(w, a, {"unknown"}) /\ Fenced(w, a)
  /\ Settle(a, "UNKNOWN")
  /\ message' = [message EXCEPT ![a] = MarkTerminal(@, FALSE)]
  /\ GoesIdle(w)
  /\ UNCHANGED <<caseStatus, approval, people, grant, applied, open>>

CompleteRetry(w, a) ==
  /\ Completing(w, a, {"retryable"}) /\ Fenced(w, a)
  /\ message[a].attempts < MaxAttempts
  /\ Settle(a, "PENDING")
  /\ \E due \in BOOLEAN : message' = [message EXCEPT ![a] = ScheduleRetry(@, due)]
  /\ GoesIdle(w)
  /\ UNCHANGED <<caseStatus, approval, people, grant, applied, open>>

\* A rejection is terminal; a missing executor and a last retryable failure go
\* to the dead-letter queue.
GivesUp(w, a) ==
  \/ Completing(w, a, {"terminal", "unregistered"})
  \/ Completing(w, a, {"retryable"}) /\ message[a].attempts >= MaxAttempts

CompleteFailed(w, a) ==
  /\ GivesUp(w, a) /\ Fenced(w, a)
  /\ CaseCanMove(a, "FAILED")
  /\ Settle(a, "FAILED")
  /\ MoveCase(a, "FAILED")
  /\ message' = [message EXCEPT ![a] = MarkTerminal(@, worker[w].outcome # "terminal")]
  /\ GoesIdle(w)
  /\ UNCHANGED <<approval, people, grant, applied, open>>

\* The case is not where the completion needs it: RuntimeError or
\* InvalidTransitionError, rollback, and the end of the process.
CompleteAborts(w, a) ==
  /\ \/ Completing(w, a, {"ok"}) /\ ~CaseIs(a, {"EXECUTING", "RESOLVED"})
     \/ GivesUp(w, a) /\ ~CaseCanMove(a, "FAILED")
  /\ Fenced(w, a)
  /\ worker' = [worker EXCEPT ![w] = Down]
  /\ UNCHANGED <<caseStatus, approval, people, queue, applied, open>>

(***************************************************************************)
(* Process failure, and OutboxDispatcher.replay_dead_letter.               *)
(***************************************************************************)

Crash(w) ==
  /\ worker[w] \notin {Idle, Down}
  /\ worker' = [worker EXCEPT ![w] = Down]
  /\ UNCHANGED <<caseStatus, approval, people, queue, applied, open>>

Restart(w) ==
  /\ worker[w] = Down
  /\ GoesIdle(w)
  /\ UNCHANGED <<caseStatus, approval, people, queue, applied, open>>

ReplayDeadLetter_ExecutionForgotten(a) ==
  /\ MayWrite("redrive", a) /\ Redrivable(a)
  /\ message' = [message EXCEPT ![a] = Requeue(@)]
  /\ MoveCase(a, "EXECUTING")
  /\ UNCHANGED <<approval, people, grant, execution, calls>>

ReplayDeadLetter(a) ==
  /\ MayWrite("redrive", a) /\ Redrivable(a)
  /\ message' = [message EXCEPT ![a] = Requeue(@)]
  /\ Settle(a, "PENDING")
  /\ MoveCase(a, "EXECUTING")
  /\ UNCHANGED <<approval, people, grant, calls>>

--------------------------------------------------------------------------------

Desk(a) == \/ \E h \in Handlers : Begin(h, a) \/ Rollback(h, a)
           \/ PlanCase(a) \/ RequestApproval(a) \/ CancelTask(a)
           \/ Approve(a) \/ Reject(a) \/ ExpireOnDecision(a)
           \/ PrepareApprovedWrite(a)
Console(a) == OpsReplay(a) \/ OpsDiscard(a) \/ OpsConfirm(a) \/ OpsRefute(a)
              \/ ReplayDeadLetter(a)
Clock(a) == Expire(a) \/ LeaseLapses(a) \/ RetryDue(a)
SettleClaim(w, a) == ClaimRevokes(w, a) \/ ClaimAccepts(w, a) \/ ClaimAborts(w, a)
Claim(w, a) == ReadsCase(w, a) \/ SettleClaim(w, a)
CallTool(w) == EffectReads(w) \/ EffectLands(w) \/ EffectAbsent(w)
Complete(w, a) == \/ CompleteStale(w, a) \/ CompleteSuccess(w, a)
                  \/ CompleteUnknown(w, a) \/ CompleteRetry(w, a)
                  \/ CompleteFailed(w, a) \/ CompleteAborts(w, a)

Next == \/ \E i \in Installations : RevokeInstallation(i)
        \/ \E a \in Approvals : Desk(a) \/ Console(a) \/ Clock(a) \/ AuthorityChanges(a)
        \/ \E w \in Workers : \/ CallTool(w) \/ Crash(w) \/ Restart(w)
                              \/ \E a \in Approvals : Claim(w, a) \/ Complete(w, a)

Spec == Init /\ [][Next]_vars

\* What keeps running: the clock, the polling workers and their supervisor.
\* A tool call returns, and no message has every claim of it cut off by a crash
\* between its read and its commit.  Nothing obliges a person to act.
Fairness ==
  /\ \A a \in Approvals : WF_vars(Expire(a)) /\ WF_vars(LeaseLapses(a)) /\ WF_vars(RetryDue(a))
  /\ \A w \in Workers : WF_vars(CallTool(w)) /\ WF_vars(Restart(w))
  /\ \A w \in Workers : WF_vars(\E a \in Approvals : Complete(w, a))
  /\ \A a \in Approvals : /\ WF_vars(\E w \in Workers : Claim(w, a))
                          /\ SF_vars(\E w \in Workers : SettleClaim(w, a))

FairSpec == Spec /\ Fairness
--------------------------------------------------------------------------------
(***************************************************************************)
(* Properties.                                                             *)
(***************************************************************************)

TypeOK ==
  /\ caseStatus \in [Cases -> CaseStatus]
  /\ approval \in [Approvals -> ApprovalStatus]
  /\ lapsed \in [Approvals -> BOOLEAN]
  /\ revoked \subseteq Installations
  /\ authorized \in [Approvals -> BOOLEAN]
  /\ grant \in [Approvals -> GrantStatus]
  /\ execution \in [Approvals -> Execution]
  /\ message \in [Approvals -> Message]
  /\ worker \in [Workers -> Worker]
  /\ applied \in [Approvals -> BOOLEAN]
  /\ open \subseteq Overlap \X Approvals

\* Fencing.  A leased message and its execution name the same worker and the
\* same token, so a completion that passes one fence passes the other.
LeaseFencesExecution ==
  \A a \in Approvals : message[a].status = "leased" =>
    /\ execution[a].status = "RUNNING"
    /\ execution[a].owner = message[a].owner
    /\ execution[a].token = message[a].token

\* A worker has taken a message on and not settled it.
Working(w) == worker[w].phase \in {"calling", "landing", "returned"}

\* Fencing.  Two workers that work on one message, both believing they own it
\* (a lease lapsed under the first), never hold the same token.
TokensSeparateWorkers ==
  \A v, w \in Workers : \A a \in Approvals :
    /\ v # w
    /\ Working(v) /\ worker[v].on = a
    /\ Working(w) /\ worker[w].on = a
    => worker[v].token # worker[w].token

Unsettled(a) == execution[a].status \in {"PENDING", "RUNNING"}

\* No execution is left behind: while one is unsettled, its message is where a
\* worker will find it.
NoOrphanExecution ==
  \A a \in Approvals :
    /\ execution[a].status = "PENDING" => message[a].status = "pending"
    /\ execution[a].status = "RUNNING" => message[a].status = "leased"

\* Two reviewers never hold two undecided or running writes of one case.
Live(a) == approval[a] \in {"PENDING", "APPROVED"} \/ Unsettled(a)
OneLivePerCase ==
  \A a, b \in Approvals :
    a # b /\ CaseOf[a] = CaseOf[b] => ~(Live(a) /\ Live(b))

\* The status of a case follows its live write through decision, dispatch and
\* retry.  A late call of update_case_status may have resolved it already.
CaseTracksWrite ==
  \A a \in Approvals :
    /\ approval[a] \in {"PENDING", "APPROVED"} => CaseIs(a, {"AWAITING_APPROVAL"})
    /\ Unsettled(a) =>
         \/ CaseIs(a, {IF execution[a].tried THEN "EXECUTING" ELSE "AWAITING_APPROVAL"})
         \/ /\ CaseIs(a, {"RESOLVED"})
            /\ \E b \in StatusWrites : CaseOf[b] = CaseOf[a] /\ applied[b]

\* A case is RESOLVED only once some approved write of it has taken effect.
ResolvedHasEffect ==
  \A c \in Cases : caseStatus[c] = "RESOLVED" =>
    \E a \in Approvals : CaseOf[a] = c /\ applied[a]

\* A message the queue would hand out, for a subject that is still authorized,
\* is one the claim accepts: no message can stop the workers.
ClaimNeverAborts ==
  \A a \in Approvals : Claimable(message[a]) /\ AuthorizedNow(a) => GrantUsable(a)

\* From the moment an installation is revoked, nothing it asked for is
\* accepted, not even a request that was under way.
RevokedNeverAccepted ==
  [][\A a \in Approvals : InstallationOf[a] \in revoked /\ approval[a] # "CONSUMED"
         => approval'[a] # "CONSUMED"]_approval

\* The chain implements the contract of ApprovedWrite.  What counts as accepted
\* is the execution record: a late withdrawal may overwrite the approval.
DecisionOf(a) ==
  IF execution[a].status # "none" THEN "accepted"
  ELSE IF approval[a] \in {"NONE", "PENDING"} THEN "open"
  ELSE IF approval[a] = "APPROVED" THEN "approved"
  ELSE "closed"
VerdictOf(a) ==
  CASE execution[a].status = "SUCCEEDED" -> "succeeded"
    [] execution[a].status = "FAILED" -> "failed"
    [] execution[a].status = "UNKNOWN" -> "unknown"
    [] OTHER -> "none"
Contract == INSTANCE ApprovedWrite WITH
  Writes <- Approvals,
  decision <- [a \in Approvals |-> DecisionOf(a)],
  verdict <- [a \in Approvals |-> VerdictOf(a)],
  effect <- applied
ImplementsContract == Contract!Spec

(***************************************************************************)
(* What a comment, a document or a message says, and the code does not do. *)
(***************************************************************************)

\* "On an expired approval run plan/run again to get a new one."
ExpiredIsReplaceable ==
  \A a, b \in Approvals :
    /\ CaseOf[a] = CaseOf[b]
    /\ approval[a] = "EXPIRED" /\ lapsed[a] /\ InstallationOf[a] \notin revoked
    /\ approval[b] = "NONE"
    => CaseCanMove(b, "AWAITING_APPROVAL")

\* "All transitions go through transition, which validates against this table":
\* each commit moves a case one hop along it, but for planning, which takes all
\* its hops at once, and a write refused before its first attempt, which goes
\* through EXECUTING to FAILED.  The code validates a status it read without a
\* lock.
LegalMove(from, to) == \/ to \in Within1(from)
                       \/ to = "PLAN_READY" /\ to \in Within3(from)
                       \/ to = "FAILED" /\ to \in Within2(from)
LegalCaseMoves ==
  [][\A c \in Cases : LegalMove(caseStatus[c], caseStatus'[c])]_caseStatus

\* "Withdrawn before approval: the task will not be executed."
WithdrawnNeverExecutes ==
  \A a \in Approvals : approval[a] = "WITHDRAWN" => execution[a].status = "none"

\* "A lost worker must not be reported as FAILED; only a determinate failure is
\* FAILED": the dispatcher never turns an execution into FAILED whose effect is
\* in place.
LostWorkerIsNotFailed ==
  [][\A a \in Approvals :
       execution[a].status = "RUNNING" /\ execution'[a].status = "FAILED"
         => ~applied[a]]_execution

\* An accepted write gets a verdict.
EveryWriteSettles == \A a \in Approvals : Unsettled(a) ~> ~Unsettled(a)
================================================================================
