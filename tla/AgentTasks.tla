------------------------------ MODULE AgentTasks ------------------------------
(***************************************************************************)
(* The intent-to-task gateway: an external agent, or the workbench, turns  *)
(* a sentence into a frozen draft, a person confirms one version of it,    *)
(* submitting it asks for an approval, and the task's status is from then  *)
(* on a projection of that approval and of its execution.                  *)
(*                                                                         *)
(*   AgentTaskService     prepare, provide_input, submit, cancel,          *)
(*                        get_status, list_tasks                           *)
(*   the governed chain   decision, expiry, consumption, execution, replay *)
(*                        and verdicts: what GovernedDispatch does to a    *)
(*                        request and its case, without queue and leases   *)
(*                                                                         *)
(* Handlers that load the task FOR UPDATE are one step.  list_tasks reads  *)
(* its rows without a lock and writes them back later: two steps.          *)
(*                                                                         *)
(* A definition with a suffix (Submit_AnyVersion) is a deliberate error,   *)
(* used to see that the properties notice it.                              *)
(***************************************************************************)
EXTENDS CaseStates, Sequences, Integers

CONSTANTS
  Tasks, Cases,
  CaseOf,      \* the case a task is about
  Names,       \* what users call people
  NoName,
  Members,     \* names that resolve to exactly one active user
  Goals,       \* what sentences compile to: a task type and a first draft
  Answers,     \* what its user may fill in later
  PutBack,     \* operators also put back the message alone of a write that failed
  MaxVersion,  \* BOUND: versions of a draft
  MaxRequests  \* BOUND: approvals ever requested

Kinds == {"followup", "owner_change"}
Drafts == [caseRef: BOOLEAN, owner: Names \cup {NoName}, ownerId: Names \cup {NoName}]

ASSUME AgentTasksAssumption ==
  /\ CaseOf \in [Tasks -> Cases]
  /\ NoName \notin Names /\ Members \subseteq Names
  /\ Goals \in [Tasks -> SUBSET (Kinds \X {d \in Drafts : d.ownerId = NoName})]
  /\ Answers \in [Tasks -> SUBSET ({"case_ref"} \cup Names \cup {NoName})]
  /\ PutBack \in BOOLEAN /\ MaxVersion \in Nat \ {0} /\ MaxRequests \in Nat

VARIABLES
  cases,      \* hr_cases.status
  sensitive,  \* cases whose category or risk level needs human review
  requests,   \* approval_requests in the order of their creation
  task,       \* agent_tasks
  card,       \* the confirmation card the user looked at last
  listing     \* a list_tasks between reading a row and writing it back

vars == <<cases, sensitive, requests, task, card, listing>>

Draftish == {"input_required", "ready_for_confirmation"}
PostSubmit == {"awaiting_approval", "queued", "running", "succeeded", "failed"}
Terminal == {"succeeded", "failed", "cancelled", "expired"}
TaskStatus == Draftish \cup PostSubmit \cup Terminal

TaskTransitions_QueuedMustRun ==
  [ input_required         |-> {"input_required", "ready_for_confirmation", "cancelled", "expired"},
    ready_for_confirmation |-> {"awaiting_approval", "ready_for_confirmation", "cancelled", "expired"},
    awaiting_approval      |-> {"queued", "running", "failed", "expired"},
    queued                 |-> {"running", "failed"},
    running                |-> {"succeeded", "failed"},
    succeeded |-> {}, failed |-> {}, cancelled |-> {}, expired |-> {} ]

\* TRANSITIONS; no code path creates a task in status "draft".
TaskTransitions ==
  [ input_required         |-> {"input_required", "ready_for_confirmation", "cancelled", "expired"},
    ready_for_confirmation |-> {"awaiting_approval", "ready_for_confirmation", "cancelled", "expired"},
    awaiting_approval      |-> {"queued", "running", "failed", "expired"},
    queued                 |-> {"running", "succeeded", "failed"},
    running                |-> {"succeeded", "failed"},
    succeeded |-> {}, failed |-> {}, cancelled |-> {}, expired |-> {} ]

CanMove(from, to) == to \in TaskTransitions[from]
Advance(from, to) == IF CanMove(from, to) THEN to ELSE from

Task == [status: TaskStatus, kind: Kinds, version: 1..MaxVersion, draft: Drafts,
         missing: SUBSET {"case_ref", "owner"}, lapsed: BOOLEAN, request: 0..MaxRequests,
         named: SUBSET (Names \cup {NoName})]  \* history: the owners its versions named
NoTask == [status |-> "none"]
Verdicts == {"SUCCEEDED", "FAILED"}
Request == [status: {"PENDING", "APPROVED", "REJECTED", "EXPIRED", "WITHDRAWN", "CONSUMED"},
            lapsed: BOOLEAN, execution: {"none", "PENDING", "RUNNING", "SUCCEEDED", "FAILED", "UNKNOWN"},
            case: Cases, kind: Kinds, owner: Names \cup {NoName},
            doubted: BOOLEAN,           \* its execution has been UNKNOWN
            verdicts: SUBSET Verdicts]  \* history: those it has had
Card == [version: 1..MaxVersion, draft: Drafts]
NoCard == [version |-> 0]

Init ==
  /\ cases = [c \in Cases |-> "NEW"]
  /\ sensitive \in SUBSET Cases
  /\ requests = <<>>
  /\ task = [t \in Tasks |-> NoTask]
  /\ card = [t \in Tasks |-> NoCard]
  /\ listing = [t \in Tasks |-> "idle"]

Status(t) == task[t].status
RequestOf(t) == requests[task[t].request]
SetTask(t, row) == task' = [task EXCEPT ![t] = row]
SetStatus(t, status) == task' = [task EXCEPT ![t].status = status]
Show(t) == card' = [card EXCEPT ![t] = [version |-> task'[t].version, draft |-> task'[t].draft]]

(***************************************************************************)
(* The draft.                                                              *)
(***************************************************************************)

\* The required public fields a draft leaves blank, in compile_goal.
Missing(kind, draft) == {f \in {"case_ref", "owner"} :
  \/ f = "case_ref" /\ ~draft.caseRef
  \/ f = "owner" /\ kind = "owner_change" /\ draft.owner = NoName}

Readiness(missing) == IF missing = {} THEN "ready_for_confirmation" ELSE "input_required"

\* _resolve_user_id: exactly one active member of that name, or nothing.
Resolve(name) == IF name \in Members THEN name ELSE NoName

Prepare(t) ==
  /\ task[t] = NoTask
  /\ \E goal \in Goals[t] :
       LET missing == Missing(goal[1], goal[2]) IN
       SetTask(t, [status |-> Readiness(missing), kind |-> goal[1], version |-> 1, draft |-> goal[2],
                   missing |-> missing, lapsed |-> FALSE, request |-> 0, named |-> {goal[2].owner}])
  /\ Show(t)
  /\ UNCHANGED <<sensitive, cases, requests, listing>>

\* A followup keeps the id it resolved first; an owner change resolves anew.
ResolvedOwner(t, draft) ==
  IF draft.owner = NoName \/ (task[t].kind = "followup" /\ draft.ownerId # NoName)
  THEN draft.ownerId ELSE Resolve(draft.owner)

\* _guard_editable
Editable(t) == Status(t) \in Draftish /\ ~task[t].lapsed

\* What was missing at first is asked for; a field blanked later is not.
ProvideInput(t) ==
  /\ Editable(t) /\ task[t].version < MaxVersion
  /\ \E answer \in Answers[t] :
       LET draft == IF answer = "case_ref" THEN [task[t].draft EXCEPT !.caseRef = TRUE]
                    ELSE [task[t].draft EXCEPT !.owner = answer]
           resolved == [draft EXCEPT !.ownerId = ResolvedOwner(t, draft)]
           missing == task[t].missing \cap Missing(task[t].kind, draft)
       IN /\ task[t].kind = "owner_change" /\ draft.owner # NoName => resolved.ownerId # NoName
          /\ SetTask(t, [task[t] EXCEPT !.draft = resolved, !.missing = missing,
                                        !.version = @ + 1, !.status = Readiness(missing),
                                        !.named = @ \cup {draft.owner}])
  /\ \/ Show(t)             \* the surface that answered sees the new card
     \/ UNCHANGED card      \* another surface still shows the old one
  /\ UNCHANGED <<sensitive, cases, requests, listing>>

\* Input, submission or cancellation of a draft that has outlived DRAFT_TTL.
ExpireDraft(t) ==
  /\ Status(t) \in Draftish /\ task[t].lapsed
  /\ SetStatus(t, "expired")
  /\ UNCHANGED <<sensitive, cases, requests, card, listing>>

CancelDraft(t) ==
  /\ Editable(t)
  /\ SetStatus(t, "cancelled")
  /\ UNCHANGED <<sensitive, cases, requests, card, listing>>

(***************************************************************************)
(* Submission.                                                             *)
(***************************************************************************)

\* _ensure_plan_ready
Planned(status) == IF status \in {"NEW", "TRIAGED", "EVIDENCE_READY"} THEN "PLAN_READY" ELSE status

\* _approval_params: an unresolved owner of a followup goes into the text.
ApprovalParams(t) ==
  LET id == IF task[t].draft.ownerId # NoName THEN task[t].draft.ownerId ELSE Resolve(task[t].draft.owner)
  IN [case |-> CaseOf[t], kind |-> task[t].kind,
      owner |-> IF id # NoName THEN id ELSE task[t].draft.owner]

ParamsComplete(t) ==
  task[t].kind = "owner_change" => ApprovalParams(t).owner \in Members

Carries(r, params) ==
  r.case = params.case /\ r.kind = params.kind /\ r.owner = params.owner

\* _find_reusable_approval: same subject, tool and parameters, still pending.
Reusable(params) ==
  {n \in DOMAIN requests : /\ Carries(requests[n], params)
                           /\ requests[n].status = "PENDING" /\ ~requests[n].lapsed}

NewRequest(params) ==
  [status |-> "PENDING", lapsed |-> FALSE, execution |-> "none", doubted |-> FALSE, verdicts |-> {},
   case |-> params.case, kind |-> params.kind, owner |-> params.owner]

Submitted(t, n) ==
  task' = [task EXCEPT ![t].status = "awaiting_approval", ![t].request = n]

Submittable_AnyVersion(t) ==
  /\ Status(t) = "ready_for_confirmation" /\ ~task[t].lapsed
  /\ card[t] # NoCard
  /\ task[t].draft.caseRef /\ ParamsComplete(t)

\* Ready, unexpired, and at the version the user confirmed.
Submittable(t) ==
  /\ Status(t) = "ready_for_confirmation" /\ ~task[t].lapsed
  /\ card[t].version = task[t].version
  /\ task[t].draft.caseRef /\ ParamsComplete(t)

SubmitReuses(t) ==
  /\ Submittable(t) /\ CaseOf[t] \notin sensitive
  /\ \E n \in Reusable(ApprovalParams(t)) : Submitted(t, n)
  /\ cases' = [cases EXCEPT ![CaseOf[t]] = Planned(@)]
  /\ UNCHANGED <<sensitive, requests, card, listing>>

SubmitRequests(t) ==
  /\ Submittable(t) /\ CaseOf[t] \notin sensitive
  /\ Reusable(ApprovalParams(t)) = {}
  /\ CanTransition(Planned(cases[CaseOf[t]]), "AWAITING_APPROVAL")
  /\ Len(requests) < MaxRequests
  /\ requests' = Append(requests, NewRequest(ApprovalParams(t)))
  /\ Submitted(t, Len(requests) + 1)
  /\ cases' = [cases EXCEPT ![CaseOf[t]] = "AWAITING_APPROVAL"]
  /\ UNCHANGED <<sensitive, card, listing>>

\* request_approval refuses: the refusal is an answer, not an exception, so the
\* hops of _ensure_plan_ready are committed all the same.
SubmitRefused(t) ==
  /\ Submittable(t)
  /\ \/ CaseOf[t] \in sensitive
     \/ /\ Reusable(ApprovalParams(t)) = {}
        /\ ~CanTransition(Planned(cases[CaseOf[t]]), "AWAITING_APPROVAL")
  /\ cases' = [cases EXCEPT ![CaseOf[t]] = Planned(@)]
  /\ UNCHANGED <<sensitive, requests, task, card, listing>>

CancelSubmitted_OtherStatus(t) ==
  /\ Status(t) = "awaiting_approval" /\ RequestOf(t).status = "PENDING"
  /\ requests' = [requests EXCEPT ![task[t].request].status = "CANCELLED"]
  /\ cases' = [cases EXCEPT ![CaseOf[t]] = IF @ = "AWAITING_APPROVAL" THEN "PLAN_READY" ELSE @]
  /\ UNCHANGED <<sensitive, task, card, listing>>

\* POST /cancel of a submitted task: the approval is withdrawn, the case goes
\* back, then the task's own transition raises and the route's `finally`
\* commits what was written so far.  (Over MCP the exception rolls back.)
CancelSubmitted(t) ==
  /\ Status(t) = "awaiting_approval" /\ RequestOf(t).status = "PENDING"
  /\ requests' = [requests EXCEPT ![task[t].request].status = "WITHDRAWN"]
  /\ cases' = [cases EXCEPT ![CaseOf[t]] = IF @ = "AWAITING_APPROVAL" THEN "PLAN_READY" ELSE @]
  /\ UNCHANGED <<sensitive, task, card, listing>>

(***************************************************************************)
(* The projection.                                                         *)
(***************************************************************************)

\* datetime.now(UTC) > approval.expires_at
PastDeadline_NotChecked(r) == TRUE
PastDeadline(r) == r.lapsed

\* What each execution status means for the task; UNKNOWN means nothing yet.
ExecutionShows_UnknownFails ==
  [PENDING |-> "running", RUNNING |-> "running", SUCCEEDED |-> "succeeded",
   FAILED |-> "failed", UNKNOWN |-> "failed"]
ExecutionShows ==
  [PENDING |-> "running", RUNNING |-> "running", SUCCEEDED |-> "succeeded", FAILED |-> "failed"]

\* _refresh_projection: what a submitted task shows of its approval and of its
\* execution, as far as the table lets it move.
Projection(s, r) ==
  CASE r.status = "PENDING" ->
         IF PastDeadline(r) /\ s = "awaiting_approval" THEN "expired" ELSE s
    [] r.status = "REJECTED" -> Advance(s, "failed")
    [] r.status = "EXPIRED" ->
         IF CanMove(s, "expired") THEN "expired" ELSE Advance(s, "failed")
    [] r.status = "APPROVED" /\ r.execution = "none" -> Advance(s, "queued")
    [] r.execution \in DOMAIN ExecutionShows -> Advance(s, ExecutionShows[r.execution])
    [] OTHER -> s

Projected(t) == Status(t) \in {"awaiting_approval", "queued", "running"}

GetStatus(t) ==
  /\ Projected(t)
  /\ SetStatus(t, Projection(Status(t), RequestOf(t)))
  /\ UNCHANGED <<sensitive, cases, requests, card, listing>>

\* list_tasks: the row is read without a lock ...
ListReads(t) ==
  /\ Projected(t) /\ listing[t] = "idle"
  /\ Projection(Status(t), RequestOf(t)) # Status(t)
  /\ listing' = [listing EXCEPT ![t] = Projection(Status(t), RequestOf(t))]
  /\ UNCHANGED <<sensitive, cases, requests, task, card>>

\* ... and written later, over whatever it says by then.
ListWrites(t) ==
  /\ listing[t] # "idle"
  /\ SetStatus(t, listing[t])
  /\ listing' = [listing EXCEPT ![t] = "idle"]
  /\ UNCHANGED <<sensitive, cases, requests, card>>

(***************************************************************************)
(* The clock, the people and the governed chain.                           *)
(***************************************************************************)

DraftLapses(t) ==
  /\ Status(t) \in Draftish /\ ~task[t].lapsed
  /\ task' = [task EXCEPT ![t].lapsed = TRUE]
  /\ UNCHANGED <<sensitive, cases, requests, card, listing>>

RequestLapses(n) ==
  /\ requests[n].status \in {"PENDING", "APPROVED"} /\ ~requests[n].lapsed
  /\ requests' = [requests EXCEPT ![n].lapsed = TRUE]
  /\ UNCHANGED <<sensitive, cases, task, card, listing>>

\* The other surface, or the same user later, reads the draft.
ReadCard(t) ==
  /\ Status(t) \in Draftish
  /\ card' = [card EXCEPT ![t] = [version |-> task[t].version, draft |-> task[t].draft]]
  /\ UNCHANGED <<sensitive, cases, requests, task, listing>>

\* decide_approval, revocation of the installation, prepare_approved_write.
Decide(n) ==
  /\ \/ /\ requests[n].status = "PENDING" /\ ~requests[n].lapsed
        /\ \/ /\ requests' = [requests EXCEPT ![n].status = "APPROVED"]
              /\ UNCHANGED cases
           \/ /\ CanTransition(cases[requests[n].case], "PLAN_READY")
              /\ requests' = [requests EXCEPT ![n].status = "REJECTED"]
              /\ cases' = [cases EXCEPT ![requests[n].case] = "PLAN_READY"]
     \/ /\ requests[n].status \in {"PENDING", "APPROVED"}
        /\ requests' = [requests EXCEPT ![n].status = "EXPIRED"]
        /\ UNCHANGED cases
  /\ UNCHANGED <<sensitive, task, card, listing>>

Consume(n) ==
  /\ requests[n].status = "APPROVED" /\ ~requests[n].lapsed
  /\ requests' = [requests EXCEPT ![n].status = "CONSUMED", ![n].execution = "PENDING"]
  /\ UNCHANGED <<sensitive, cases, task, card, listing>>

ExecutionBecomes(n, status) ==
  requests' = [requests EXCEPT ![n].execution = status,
                               ![n].doubted = @ \/ status = "UNKNOWN",
                               ![n].verdicts = @ \cup (Verdicts \cap {status})]
CaseBecomes(n, status) == cases' = [cases EXCEPT ![requests[n].case] = status]

\* _claim of a new or retried write, or of one whose worker's lease ran out: accepted, or
\* refused since the authorization is gone; only refused where nothing but its message
\* was put back, after it had failed.
ClaimWrite(n) ==
  LET found == cases[requests[n].case]
      open == requests[n].execution \in {"PENDING", "RUNNING"} IN
    \/ /\ open /\ ExecutionBecomes(n, "RUNNING")
       /\ CaseBecomes(n, IF found = "AWAITING_APPROVAL" THEN "EXECUTING" ELSE found)
    \/ /\ open \/ (PutBack /\ "FAILED" \in requests[n].verdicts)
       /\ ExecutionBecomes(n, "FAILED")
       /\ CaseBecomes(n, IF found \in {"AWAITING_APPROVAL", "EXECUTING"} THEN "FAILED" ELSE found)

\* _complete: done, given up, to be retried, or nobody can tell.
CompleteWrite(n) ==
  /\ requests[n].execution = "RUNNING"
  /\ LET found == cases[requests[n].case] IN
       \/ /\ ExecutionBecomes(n, "SUCCEEDED")
          /\ found \in {"EXECUTING", "RESOLVED"} /\ CaseBecomes(n, "RESOLVED")
       \/ /\ ExecutionBecomes(n, "FAILED")
          /\ CanTransition(found, "FAILED") /\ CaseBecomes(n, "FAILED")
       \/ /\ \E status \in {"PENDING", "UNKNOWN"} : ExecutionBecomes(n, status)
          /\ UNCHANGED cases

\* replay_dead_letter of a write that was given up, not of one with an operator's verdict.
ReplayWrite(n) ==
  /\ requests[n].execution = "FAILED" /\ ~requests[n].doubted
  /\ cases[requests[n].case] = "FAILED"
  /\ ExecutionBecomes(n, "PENDING") /\ CaseBecomes(n, "EXECUTING")

\* An operator's verdict on a write read as UNKNOWN, without a lock: another's
\* verdict may have come first.
ResolveUnknown(n) ==
  /\ requests[n].doubted
  /\ \E verdict \in Verdicts : ExecutionBecomes(n, verdict)
  /\ UNCHANGED cases

Execute(n) ==
  /\ ClaimWrite(n) \/ CompleteWrite(n) \/ ReplayWrite(n) \/ ResolveUnknown(n)
  /\ UNCHANGED <<sensitive, task, card, listing>>

--------------------------------------------------------------------------------

Submit(t) == SubmitReuses(t) \/ SubmitRequests(t) \/ SubmitRefused(t)
Cancel(t) == CancelDraft(t) \/ CancelSubmitted(t)
List(t) == ListReads(t) \/ ListWrites(t)

Next ==
  \/ \E t \in Tasks : \/ Prepare(t) \/ ProvideInput(t) \/ ExpireDraft(t) \/ Submit(t)
                      \/ Cancel(t) \/ GetStatus(t) \/ List(t)
                      \/ DraftLapses(t) \/ ReadCard(t)
  \/ \E n \in DOMAIN requests : RequestLapses(n) \/ Decide(n) \/ Consume(n) \/ Execute(n)

Spec == Init /\ [][Next]_vars

\* The caller polls, as every answer tells it to, and list_tasks returns.
Fairness == \A t \in Tasks : WF_vars(GetStatus(t)) /\ WF_vars(ListWrites(t))
FairSpec == Spec /\ Fairness
--------------------------------------------------------------------------------
(***************************************************************************)
(* Properties.                                                             *)
(***************************************************************************)

TypeOK ==
  /\ cases \in [Cases -> CaseStatus]
  /\ sensitive \subseteq Cases
  /\ requests \in Seq(Request) /\ Len(requests) <= MaxRequests
  /\ task \in [Tasks -> Task \cup {NoTask}]
  /\ card \in [Tasks -> Card \cup {NoCard}]
  /\ listing \in [Tasks -> {"idle"} \cup PostSubmit \cup Terminal]

HasRequest(t) == task[t] # NoTask /\ task[t].request # 0

\* The approval of a task asks for the case, the action and the owner of the card that its
\* user confirmed, however many surfaces edited the draft in between.  The exceptions: a
\* followup whose owner was changed, and an owner change whose owner was blanked, keep the
\* member that an earlier version named.
ConfirmedIsRequested ==
  \A t \in Tasks : HasRequest(t) =>
    /\ card[t].draft = task[t].draft
    /\ RequestOf(t).case = CaseOf[t] /\ RequestOf(t).kind = task[t].kind
    /\ RequestOf(t).owner # card[t].draft.owner =>
         /\ task[t].kind = "followup" \/ card[t].draft.owner = NoName
         /\ RequestOf(t).owner \in task[t].named \cap Members

\* A task that ended as expired never executes, in whatever order the deadline,
\* the decision, the poll and the consumption come.
ExpiredNeverExecutes ==
  \A t \in Tasks : HasRequest(t) /\ Status(t) = "expired" => RequestOf(t).execution = "none"

\* "succeeded" and "failed" are never guesses: the write has had that verdict, or it was
\* refused before it could start.  A write that was replayed since, or that two operators
\* judged differently, may have another one now.
FinalAgreesWithWrite ==
  \A t \in Tasks :
    /\ Status(t) = "succeeded" => "SUCCEEDED" \in RequestOf(t).verdicts
    /\ Status(t) = "failed" => \/ "FAILED" \in RequestOf(t).verdicts
                               \/ RequestOf(t).status \in {"REJECTED", "EXPIRED"}

\* A polled task that was seen on its way ends as its write ended, even when a stale
\* list_tasks takes it back from its final status; as failed only if the write had that
\* verdict too, before a replay or from another operator.
PolledTaskSettles ==
  \A t \in Tasks :
    (Status(t) \in {"queued", "running"} /\ RequestOf(t).execution = "SUCCEEDED")
      ~> \/ Status(t) = "succeeded"
         \/ Status(t) = "failed" /\ "FAILED" \in RequestOf(t).verdicts
================================================================================
