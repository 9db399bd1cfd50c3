------------------------------ MODULE CaseTimeline ------------------------------
(***************************************************************************)
(* One HR case, its numbered timeline, and the transactions that append to *)
(* it: planning, agent agentRuns, requests, decisions and executions.      *)
(*                                                                         *)
(*   hr_case_agent/service       _append_event, save_plan, request_approval*)
(*   hr_case_agent/agent_loop    run_plan                                  *)
(*   hr_case_agent/planner       what a plan may hold                      *)
(*   hr_case_agent/read_executors   the reads of a run                     *)
(*   routes/hr_case              one transaction for each request          *)
(*                                                                         *)
(* A transaction reads the case once: every later get_case of its session  *)
(* finds the same object.  An event is numbered under an advisory lock     *)
(* that is held until the commit; the row of the case is locked when the   *)
(* ORM flushes a new status, which request_approval does before the event. *)
(* PostgreSQL, READ COMMITTED.                                             *)
(***************************************************************************)
EXTENDS Integers, Sequences, FiniteSets, SequencesExt, CaseStates

CONSTANTS
  Handlers,   \* requests, each with a transaction of its own
  PlanSteps,  \* MAX_PLAN_STEPS
  MaxEvents   \* BOUND: events of the timeline

ASSUME TimelineAssumption ==
  PlanSteps \in Nat \ {0} /\ MaxEvents \in Nat \ {0} /\ "nobody" \notin Handlers

VARIABLES
  review,      \* requires_human_review of the case: no write is ever asked for
  caseStatus,  \* hr_cases.status
  timeline,    \* case_events, as committed: [seq, status]; "same" where it leaves the case
               \* alone, "owner" where it only changes owner_id
  pending,     \* approval_requests that wait for a decision
  approved,    \* ... that wait to be executed
  advisory,    \* who holds the advisory lock
  rowLock,     \* who holds the row of the case
  tx,          \* the transaction of each request
  agentRuns    \* agent_runs.status, of the runs there are

timelineVars == <<review, caseStatus, timeline, pending, approved, advisory, rowLock, tx, agentRuns>>

Nobody == "nobody"
NoTx == [at |-> "none"]

Event(status) == [op |-> "event", status |-> status]
ReadTool == [op |-> "read"]
AskStep == [op |-> "ask"]

\* Planner.validate: at most one write, and it comes last.
ValidPlan(plan) == plan # <<>> /\ \A i \in 1..Len(plan) - 1 : plan[i] = ReadTool

\* What plan_case can save: a case that needs a person gets its default plan, which reads.
SavedPlans ==
  IF review THEN {<<ReadTool>>}
  ELSE {plan \in BoundedSeq({ReadTool, AskStep}, PlanSteps) : ValidPlan(plan)}

\* transition_case, and an event that has the row of the case written for another reason.
Moves(status) == status \notin {"same", "owner"}

TimelineInit ==
  /\ review \in BOOLEAN
  /\ caseStatus = "NEW" /\ timeline = {[seq |-> 1, status |-> "NEW"]}
  /\ pending = 0 /\ approved = 0 /\ advisory = Nobody /\ rowLock = Nobody
  /\ tx = [r \in Handlers |-> NoTx] /\ agentRuns = {}

(***************************************************************************)
(* What each handler does, from the status it read.                        *)
(***************************************************************************)

\* save_plan walks the case to EVIDENCE_READY before it moves it on.
Hops(status) ==
  CASE status = "NEW" -> <<Event("TRIAGED"), Event("EVIDENCE_READY")>>
    [] status = "TRIAGED" -> <<Event("EVIDENCE_READY")>>
    [] OTHER -> <<>>

Plannable == {"NEW", "TRIAGED", "EVIDENCE_READY"}

Open(r, todo, run, takes, gives) ==
  /\ tx[r] = NoTx
  /\ tx' = [tx EXCEPT ![r] =
       [at |-> "open", status |-> caseStatus, todo |-> todo, seq |-> 0, own |-> {},
        takes |-> takes, gives |-> gives, run |-> run]]
  /\ UNCHANGED <<review, caseStatus, timeline, pending, approved, advisory, rowLock, agentRuns>>

\* Approvals of a status that no open transaction has updated.
Untaken(number, of) == number > Cardinality({r \in Handlers : tx[r] # NoTx /\ tx[r].takes = of})

\* plan_case: a plan is saved with the events of its hops. The run it starts is never finished.
PlanCase(r) ==
  /\ caseStatus \in Plannable
  /\ Open(r, Hops(caseStatus) \o <<Event("PLAN_READY")>>, "RUNNING", "none", "none")

\* run_case_plan of the plan that was saved.  A case with a plan is past EVIDENCE_READY,
\* so the hops run_plan has for younger cases are never taken.
RunCasePlan(r) ==
  /\ \E e \in timeline : e.status = "PLAN_READY"
  /\ \E plan \in SavedPlans : Open(r, plan, "COMPLETED", "none", "none")

\* _create_approval_via_mcp asks without a run.
RequestOverMcp(r) == Open(r, <<AskStep>>, "none", "none", "none")

\* decide_approval takes the approval with a guarded UPDATE; a rejection moves the case.
Decide(r) ==
  /\ Untaken(pending, "pending")
  /\ \/ Open(r, <<Event("same")>>, "none", "pending", "approved")
     \/ /\ CanTransition(caseStatus, "PLAN_READY")
        /\ Open(r, <<Event("same"), Event("PLAN_READY")>>, "none", "pending", "none")

\* prepare_approved_write consumes the approval; the case moves when the worker claims.
PrepareWrite(r) ==
  /\ Untaken(approved, "approved")
  /\ Open(r, <<Event("same")>>, "none", "approved", "none")

\* The worker's transactions: the execution begins, or has an outcome.
WorkerMoves(r) ==
  \E target \in {"EXECUTING", "RESOLVED", "FAILED"} :
    /\ CanTransition(caseStatus, target)
    /\ Open(r, (IF target = "EXECUTING" THEN <<>> ELSE <<Event("same")>>) \o <<Event(target)>>,
            "none", "none", "none")

\* The tool that assigns the case to somebody, in a transaction of the worker's own.
AssignCaseOwner(r) ==
  /\ caseStatus = "EXECUTING"
  /\ Open(r, <<Event("owner")>>, "none", "none", "none")

(***************************************************************************)
(* The steps of a transaction.                                             *)
(***************************************************************************)

Busy(r) == tx[r].at = "open"
Doing(r, op) == Busy(r) /\ tx[r].todo # <<>> /\ Head(tx[r].todo).op = op
Steps(r, next) == tx' = [tx EXCEPT ![r] = next]
Rest(r) == [tx[r] EXCEPT !.todo = Tail(@)]

\* pg_advisory_xact_lock.
MayNumber_NoLock(r) == TRUE
MayNumber(r) == advisory \in {Nobody, r}

Numbers == {e.seq : e \in timeline}
MaxSeq(r) == Cardinality(timeline \cup tx[r].own)

\* _append_event up to the number it computes; the flush before it writes the status.
NumberEvent(r) ==
  /\ Doing(r, "event") /\ tx[r].seq = 0 /\ MayNumber(r)
  /\ LET to == Head(tx[r].todo).status
         moves == to \notin {"same", tx[r].status} IN
       IF moves /\ rowLock \notin {Nobody, r}
       THEN \* it waits for the row, and holds the advisory lock
            advisory # r /\ advisory' = r /\ UNCHANGED <<rowLock, tx>>
       ELSE /\ advisory' = r
            /\ rowLock' = IF moves THEN r ELSE rowLock
            /\ Steps(r, [tx[r] EXCEPT !.seq = MaxSeq(r) + 1,
                                      !.status = IF Moves(to) THEN to ELSE @])
  /\ UNCHANGED <<review, caseStatus, timeline, pending, approved, agentRuns>>

OtherHandlers(r) == Handlers \ {r}
OwnSeqs(q) == IF Busy(q) THEN {e.seq : e \in tx[q].own} ELSE {}
Taken(r) == tx[r].seq \in Numbers \cup UNION {OwnSeqs(q) : q \in OtherHandlers(r)}

\* The INSERT, which the unique constraint may refuse.
InsertEvent(r) ==
  /\ Doing(r, "event") /\ tx[r].seq # 0 /\ ~Taken(r)
  /\ Steps(r, [Rest(r) EXCEPT !.seq = 0,
                              !.own = @ \cup {[seq |-> tx[r].seq, status |-> Head(tx[r].todo).status]}])
  /\ UNCHANGED <<review, caseStatus, timeline, pending, approved, advisory, rowLock, agentRuns>>

\* A read tool answers, or fails twice and the run hands the case to a person.
RunReadTool(r) ==
  /\ Doing(r, "read")
  /\ \/ Steps(r, Rest(r))
     \/ Steps(r, [tx[r] EXCEPT !.todo = <<>>, !.run = "HANDED_OFF"])
  /\ UNCHANGED <<review, caseStatus, timeline, pending, approved, advisory, rowLock, agentRuns>>

\* request_approval: the requester's approval that still waits is used again; ...
ReuseApproval(r) ==
  /\ Doing(r, "ask") /\ pending > 0
  /\ Steps(r, [Rest(r) EXCEPT !.run = IF @ = "none" THEN @ ELSE "AWAITING_APPROVAL"])
  /\ UNCHANGED <<review, caseStatus, timeline, pending, approved, advisory, rowLock, agentRuns>>

\* ... one of another requester is not, and the status is flushed with the new approval
\* before any lock is asked for.
FlushApproval(r) ==
  /\ Doing(r, "ask") /\ ~review /\ CanTransition(tx[r].status, "AWAITING_APPROVAL")
  /\ rowLock \in {Nobody, r} /\ rowLock' = r
  /\ Steps(r, [tx[r] EXCEPT !.todo = <<Event("AWAITING_APPROVAL")>>, !.gives = "pending",
                            !.status = "AWAITING_APPROVAL",
                            !.run = IF @ = "none" THEN @ ELSE "AWAITING_APPROVAL"])
  /\ UNCHANGED <<review, caseStatus, timeline, pending, approved, advisory, agentRuns>>

Released(lock, r) == IF lock = r THEN Nobody ELSE lock

Moved(r, what) == (IF tx[r].gives = what THEN 1 ELSE 0) - (IF tx[r].takes = what THEN 1 ELSE 0)

Commit(r) ==
  /\ Busy(r) /\ tx[r].todo = <<>>
  /\ timeline' = timeline \cup tx[r].own
  /\ caseStatus' = IF \E e \in tx[r].own : Moves(e.status) THEN tx[r].status ELSE caseStatus
  /\ pending' = pending + Moved(r, "pending") /\ approved' = approved + Moved(r, "approved")
  /\ agentRuns' = IF tx[r].run = "none" THEN agentRuns ELSE agentRuns \cup {tx[r].run}
  /\ advisory' = Released(advisory, r) /\ rowLock' = Released(rowLock, r)
  /\ Steps(r, NoTx) /\ UNCHANGED review

\* A step that the state machine refuses, a number that is taken, a deadlock that
\* PostgreSQL resolves: nothing of the request remains.
Refused(r) ==
  /\ Doing(r, "ask")
  /\ review \/ ~CanTransition(tx[r].status, "AWAITING_APPROVAL")
Deadlocked(r) ==
  /\ advisory = r /\ rowLock \in OtherHandlers(r) /\ Doing(r, "event") /\ tx[r].seq = 0
  /\ Head(tx[r].todo).status \notin {"same", tx[r].status}
  /\ Doing(rowLock, "event") /\ tx[rowLock].seq = 0

Rollback(r) ==
  /\ Refused(r) \/ Deadlocked(r) \/ (Doing(r, "event") /\ tx[r].seq # 0 /\ Taken(r))
  /\ advisory' = Released(advisory, r) /\ rowLock' = Released(rowLock, r)
  /\ Steps(r, NoTx)
  /\ UNCHANGED <<review, caseStatus, timeline, pending, approved, agentRuns>>

TimelineNext ==
  \E r \in Handlers :
    \/ /\ Cardinality(timeline) < MaxEvents
       /\ PlanCase(r) \/ RunCasePlan(r) \/ RequestOverMcp(r) \/ Decide(r) \/ PrepareWrite(r)
          \/ WorkerMoves(r) \/ AssignCaseOwner(r)
    \/ NumberEvent(r) \/ InsertEvent(r) \/ RunReadTool(r) \/ ReuseApproval(r)
    \/ FlushApproval(r) \/ Commit(r) \/ Rollback(r)

TimelineSpec == TimelineInit /\ [][TimelineNext]_timelineVars
--------------------------------------------------------------------------------

TimelineTypeOK ==
  /\ caseStatus \in CaseStatus /\ pending \in Nat /\ approved \in Nat
  /\ \A e \in timeline : e.seq \in Nat /\ e.status \in CaseStatus \cup {"same", "owner"}
  /\ advisory \in Handlers \cup {Nobody} /\ rowLock \in Handlers \cup {Nobody}
  /\ agentRuns \subseteq {"RUNNING", "COMPLETED", "HANDED_OFF", "AWAITING_APPROVAL"}

\* Every number is used once ("Two concurrent appends cannot observe the same max(seq)
\* and both write seq N"), and the last event that moves the case says where the case is,
\* although every request decides from a status it read before it held any lock.
TimelineInOrder ==
  /\ \A r \in Handlers : Busy(r) /\ tx[r].seq # 0 => ~Taken(r)
  /\ \E e \in timeline :
       /\ e.status = caseStatus
       /\ \A f \in timeline : f.seq > e.seq => ~Moves(f.status)
================================================================================
