------------------------ MODULE GovernedDispatchProofs -------------------------
(***************************************************************************)
(* What holds of GovernedDispatch for every set of cases, approvals and    *)
(* workers, every bound, and every choice of overlapping handlers: types,  *)
(* leases, the one call of a claim; then the queue.  Two results on the    *)
(* queue need a hypothesis on Replays: a replay from an operator's screen  *)
(* that is stale when the button is pressed breaks them: TLC shows how.    *)
(***************************************************************************)
EXTENDS GovernedDispatch, TLAPS

--------------------------------------------------------------------------------
(* The statements of the outbox repository, on one row.                    *)

\* A row that is inserted is a row.
LEMMA NoMessageType == NoMessage \in Message /\ Enqueued \in Message
BY NoWorkerAssumption DEF NoMessage, Enqueued, Message, MessageStatus

\* The claim: a row stays a row, leased to w under the next token.
LEMMA ClaimedMessage ==
  ASSUME NEW m \in Message, NEW w \in Workers
  PROVE  /\ ClaimNext(m, w) \in Message
         /\ ClaimNext(m, w).status = "leased"
         /\ ClaimNext(m, w).owner = w
         /\ ClaimNext(m, w).token = m.token + 1
BY DEF ClaimNext, Message, MessageStatus

\* The end of a lease: a row stays a row, keeps its token, and is leased no more.
LEMMA ReleasedMessage ==
  ASSUME NEW m \in Message
  PROVE  /\ MarkDelivered(m) \in Message
         /\ MarkDelivered(m).status = "delivered"
         /\ MarkDelivered(m).token = m.token
         /\ \A dead \in BOOLEAN :
              /\ MarkTerminal(m, dead) \in Message
              /\ MarkTerminal(m, dead).status \in {"terminal", "dead_letter"}
              /\ dead = FALSE => MarkTerminal(m, dead).status = "terminal"
              /\ MarkTerminal(m, dead).token = m.token
         /\ \A due \in BOOLEAN :
              /\ ScheduleRetry(m, due) \in Message
              /\ ScheduleRetry(m, due).status = "pending"
              /\ ScheduleRetry(m, due).token = m.token
BY DEF MarkDelivered, MarkTerminal, ScheduleRetry, Release, Message, MessageStatus

\* The console: a row stays a row and keeps its token.
LEMMA OtherMessage ==
  ASSUME NEW m \in Message
  PROVE  /\ Requeue(m) \in Message
         /\ Requeue(m).status = "pending"
         /\ Requeue(m).token = m.token
         /\ Discard(m) \in Message
         /\ Discard(m).status = "terminal"
         /\ Discard(m).token = m.token
BY DEF Requeue, Discard, Message, MessageStatus

\* A move of the case stays among its statuses.
LEMMA CaseMoveType ==
  ASSUME TypeOK, NEW a \in Approvals, NEW s \in CaseStatus,
         MoveCase(a, s) \/ CaseStays
  PROVE  caseStatus' \in [Cases -> CaseStatus]
BY ConstantsAssumption DEF TypeOK, MoveCase, CaseStays

\* A handler's write closes the handler, or leaves it open.
LEMMA MayWriteOpen ==
  ASSUME TypeOK, NEW h, NEW a, MayWrite(h, a)
  PROVE  open' \subseteq open
BY DEF MayWrite

\* A worker inside a call, or back from it, has a job; one that is idle or dead
\* has neither.
LEMMA JobType ==
  ASSUME TypeOK, NEW w \in Workers, Working(w)
  PROVE  /\ worker[w].on \in Approvals /\ worker[w].token \in Nat
         /\ worker[w] \notin {Idle, Down}
BY DEF TypeOK, Worker, Working, Idle, Down

\* The end of an execution's lease.
LEMMA SettleType ==
  ASSUME TypeOK, NEW a \in Approvals, NEW s \in ExecutionStatus, Settle(a, s)
  PROVE  execution' \in [Approvals -> Execution]
BY DEF Settle, TypeOK, Execution

\* What the tool call returns with.
LEMMA ReturnType ==
  ASSUME TypeOK, NEW w \in Workers, InCall(w),
         NEW outcome \in Outcomes
  PROVE  Returned(worker[w], outcome) \in Worker
BY JobType DEF Returned, Worker, InCall, Working

--------------------------------------------------------------------------------
(* Type correctness.                                                       *)

\* The initial state is well typed ...
LEMMA TypeInit == Init => TypeOK
BY NoMessageType, ConstantsAssumption
   DEF Init, TypeOK, CaseStatus, ApprovalStatus, GrantStatus, Execution,
       NoExecution, ExecutionStatus, Worker, Idle, Handlers

\* ... and every step keeps it so.
LEMMA TypeStep == TypeOK /\ [Next]_vars => TypeOK'
<1>. SUFFICES ASSUME TypeOK, [Next]_vars PROVE TypeOK'
  OBVIOUS
<1>. USE ConstantsAssumption
<1>2. ASSUME NEW i \in Installations, RevokeInstallation(i) PROVE TypeOK'
  BY <1>2 DEF RevokeInstallation, TypeOK, ApprovalStatus, queue, calls
<1>3. ASSUME NEW a \in Approvals, Desk(a) PROVE TypeOK'
  <2>1. ASSUME NEW h \in Handlers, Begin(h, a) \/ Rollback(h, a) PROVE TypeOK'
    BY <2>1 DEF Begin, Rollback, TypeOK, people, queue, calls
  <2>2. CASE RequestApproval(a)
    <3>1. caseStatus' \in [Cases -> CaseStatus]
      BY <2>2, CaseMoveType DEF RequestApproval, CaseStatus
    <3>2. open' \subseteq open
      BY <2>2, MayWriteOpen DEF RequestApproval
    <3>. QED  BY <2>2, <3>1, <3>2 DEF RequestApproval, TypeOK, ApprovalStatus, people, queue, calls
  <2>3. CASE CancelTask(a)
    <3>1. caseStatus' \in [Cases -> CaseStatus]
      BY <2>3, CaseMoveType DEF CancelTask, CaseStatus
    <3>2. open' \subseteq open
      BY <2>3, MayWriteOpen DEF CancelTask
    <3>. QED  BY <2>3, <3>1, <3>2 DEF CancelTask, TypeOK, ApprovalStatus, people, queue, calls
  <2>4. CASE Approve(a)
    <3>1. open' \subseteq open
      BY <2>4, MayWriteOpen DEF Approve
    <3>. QED  BY <2>4, <3>1 DEF Approve, TypeOK, ApprovalStatus, people, queue, calls
  <2>5. CASE Reject(a)
    <3>1. caseStatus' \in [Cases -> CaseStatus]
      BY <2>5, CaseMoveType DEF Reject, CaseStatus
    <3>. QED  BY <2>5, <3>1 DEF Reject, TypeOK, ApprovalStatus, people, queue, calls
  <2>6. CASE ExpireOnDecision(a)
    BY <2>6 DEF ExpireOnDecision, TypeOK, ApprovalStatus, people, queue, calls
  <2>7. CASE PrepareApprovedWrite(a)
    <3>1. open' \subseteq open
      BY <2>7, MayWriteOpen DEF PrepareApprovedWrite
    <3>2. execution' \in [Approvals -> Execution]
      BY <2>7 DEF PrepareApprovedWrite, TypeOK, Execution, ExecutionStatus
    <3>. QED
      BY <2>7, <3>1, <3>2, NoMessageType
         DEF PrepareApprovedWrite, TypeOK, ApprovalStatus, GrantStatus, people, calls
  <2>8. CASE PlanCase(a)
    <3>1. caseStatus' \in [Cases -> CaseStatus]
      BY <2>8, CaseMoveType DEF PlanCase, CaseStatus
    <3>2. open' \subseteq open
      BY <2>8, MayWriteOpen DEF PlanCase
    <3>. QED  BY <2>8, <3>1, <3>2 DEF PlanCase, TypeOK, people, queue, calls
  <2>. QED  BY <1>3, <2>1, <2>2, <2>3, <2>4, <2>5, <2>6, <2>7, <2>8 DEF Desk
<1>4. ASSUME NEW a \in Approvals, Console(a) PROVE TypeOK'
  <2>1. CASE OpsReplay(a)
    <3>1. open' \subseteq open
      BY <2>1, MayWriteOpen DEF OpsReplay
    <3>2. message' \in [Approvals -> Message]
      BY <2>1, OtherMessage DEF OpsReplay, TypeOK
    <3>. QED  BY <2>1, <3>1, <3>2 DEF OpsReplay, TypeOK, people, calls
  <2>2. CASE OpsDiscard(a)
    <3>1. open' \subseteq open
      BY <2>2, MayWriteOpen DEF OpsDiscard
    <3>2. message' \in [Approvals -> Message]
      BY <2>2, OtherMessage DEF OpsDiscard, TypeOK
    <3>. QED  BY <2>2, <3>1, <3>2 DEF OpsDiscard, TypeOK, people, calls
  <2>3. ASSUME NEW h, NEW verdict \in ExecutionStatus, OpsResolve(a, h, verdict)
        PROVE  TypeOK'
    <3>1. open' \subseteq open
      BY <2>3, MayWriteOpen DEF OpsResolve
    <3>2. execution' \in [Approvals -> Execution]
      BY <2>3 DEF OpsResolve, TypeOK, Execution
    <3>. QED  BY <2>3, <3>1, <3>2 DEF OpsResolve, TypeOK, people, calls
  <2>4. CASE ReplayDeadLetter(a)
    <3>1. caseStatus' \in [Cases -> CaseStatus]
      BY <2>4, CaseMoveType DEF ReplayDeadLetter, CaseStatus
    <3>2. message' \in [Approvals -> Message]
      BY <2>4, OtherMessage DEF ReplayDeadLetter, TypeOK
    <3>3. execution' \in [Approvals -> Execution]
      BY <2>4, SettleType DEF ReplayDeadLetter, ExecutionStatus
    <3>4. open' \subseteq open
      BY <2>4, MayWriteOpen DEF ReplayDeadLetter
    <3>. QED  BY <2>4, <3>1, <3>2, <3>3, <3>4 DEF ReplayDeadLetter, TypeOK, people, calls
  <2>. QED
    BY <1>4, <2>1, <2>2, <2>3, <2>4 DEF Console, OpsConfirm, OpsRefute, ExecutionStatus
<1>5. ASSUME NEW a \in Approvals, Clock(a) \/ AuthorityChanges(a) PROVE TypeOK'
  <2>1. CASE Expire(a) \/ AuthorityChanges(a)
    BY <2>1 DEF Expire, AuthorityChanges, TypeOK, queue, calls
  <2>2. CASE LeaseLapses(a) \/ RetryDue(a)
    <3>1. message' \in [Approvals -> Message]
      <4>1. PICK m \in {[message[a] EXCEPT !.overdue = TRUE], [message[a] EXCEPT !.due = TRUE]} :
              message' = [message EXCEPT ![a] = m]
        BY <2>2 DEF LeaseLapses, RetryDue
      <4>2. m \in Message
        <5>1. message[a] \in Message
          BY DEF TypeOK
        <5>. QED  BY <4>1, <5>1 DEF Message
      <4>. QED  BY <4>1, <4>2 DEF TypeOK
    <3>. QED  BY <2>2, <3>1 DEF LeaseLapses, RetryDue, TypeOK, people, calls
  <2>. QED  BY <1>5, <2>1, <2>2 DEF Clock
<1>6. ASSUME NEW w \in Workers, CallTool(w) \/ Crash(w) \/ Restart(w) PROVE TypeOK'
  <2>1. CASE EffectLands(w)
    <3>. DEFINE a == worker[w].on
    <3>1. a \in Approvals
      BY <2>1, JobType DEF EffectLands, InCall, Working
    <3>2. caseStatus' \in [Cases -> CaseStatus]
      BY <2>1, <3>1, CaseMoveType DEF EffectLands, CaseStatus
    <3>3. worker' \in [Workers -> Worker]
      BY <2>1, ReturnType DEF EffectLands, Return, Outcomes, TypeOK
    <3>4. applied' \in [Approvals -> BOOLEAN]
      BY <2>1, <3>1 DEF EffectLands, TypeOK
    <3>. QED  BY <2>1, <3>2, <3>3, <3>4 DEF EffectLands, TypeOK, people, queue
  <2>2. CASE EffectAbsent(w)
    <3>1. worker' \in [Workers -> Worker]
      BY <2>2, ReturnType DEF EffectAbsent, Return, Outcomes, TypeOK
    <3>. QED  BY <2>2, <3>1 DEF EffectAbsent, TypeOK, people, queue
  <2>3. CASE Crash(w) \/ Restart(w)
    BY <2>3 DEF Crash, Restart, GoesIdle, TypeOK, Worker, people, queue
  <2>4. CASE EffectReads(w)
    <3>1. worker[w].on \in Approvals /\ worker[w].token \in Nat
      BY <2>4, JobType DEF EffectReads, Working
    <3>2. worker' \in [Workers -> Worker]
      BY <2>4, <3>1 DEF EffectReads, Landing, Worker, TypeOK
    <3>. QED  BY <2>4, <3>2 DEF EffectReads, TypeOK, people, queue
  <2>. QED  BY <1>6, <2>1, <2>2, <2>3, <2>4 DEF CallTool
<1>7. ASSUME NEW w \in Workers, NEW a \in Approvals, Claim(w, a) PROVE TypeOK'
  <2>1. CASE ClaimRevokes(w, a)
    <3>1. caseStatus' \in [Cases -> CaseStatus]
      BY <2>1, CaseMoveType DEF ClaimRevokes, CaseStatus
    <3>2. message' \in [Approvals -> Message]
      BY <2>1, ClaimedMessage, ReleasedMessage DEF ClaimRevokes, TypeOK
    <3>3. execution' \in [Approvals -> Execution]
      BY <2>1 DEF ClaimRevokes, TypeOK, Execution, ExecutionStatus, Message
    <3>. QED
      BY <2>1, <3>1, <3>2, <3>3 DEF ClaimRevokes, TypeOK, GrantStatus, Worker, people
  <2>2. CASE ClaimAccepts(w, a)
    <3>1. caseStatus' \in [Cases -> CaseStatus]
      BY <2>2, CaseMoveType DEF ClaimAccepts, CaseStatus
    <3>2. message' \in [Approvals -> Message]
      BY <2>2, ClaimedMessage DEF ClaimAccepts, TypeOK
    <3>3. execution' \in [Approvals -> Execution]
      BY <2>2 DEF ClaimAccepts, TypeOK, Execution, ExecutionStatus, Message
    <3>4. worker' \in [Workers -> Worker]
      BY <2>2 DEF ClaimAccepts, Calling, TypeOK, Worker, Message
    <3>. QED
      BY <2>2, <3>1, <3>2, <3>3, <3>4 DEF ClaimAccepts, TypeOK, GrantStatus, people
  <2>3. CASE ClaimAborts(w, a)
    BY <2>3 DEF ClaimAborts, TypeOK, Worker, people, queue
  <2>4. CASE ReadsCase(w, a)
    <3>1. worker' \in [Workers -> Worker]
      BY <2>4 DEF ReadsCase, Claiming, Worker, TypeOK
    <3>. QED  BY <2>4, <3>1 DEF ReadsCase, TypeOK, people, queue
  <2>. QED  BY <1>7, <2>1, <2>2, <2>3, <2>4 DEF Claim, SettleClaim
<1>8. ASSUME NEW w \in Workers, NEW a \in Approvals, Complete(w, a) PROVE TypeOK'
  <2>1. CASE CompleteStale(w, a) \/ CompleteAborts(w, a)
    BY <2>1 DEF CompleteStale, CompleteAborts, GoesIdle, TypeOK, Worker, people, queue
  <2>2. CASE CompleteSuccess(w, a)
    <3>1. caseStatus' \in [Cases -> CaseStatus]
      BY <2>2, CaseMoveType DEF CompleteSuccess, CaseStatus
    <3>2. message' \in [Approvals -> Message]
      BY <2>2, ReleasedMessage DEF CompleteSuccess, TypeOK
    <3>. QED
      BY <2>2, <3>1, <3>2, SettleType
         DEF CompleteSuccess, ExecutionStatus, GoesIdle, TypeOK, Worker, people
  <2>3. CASE CompleteUnknown(w, a)
    <3>1. message' \in [Approvals -> Message]
      BY <2>3, ReleasedMessage DEF CompleteUnknown, TypeOK
    <3>. QED
      BY <2>3, <3>1, SettleType
         DEF CompleteUnknown, ExecutionStatus, GoesIdle, TypeOK, Worker, people
  <2>4. CASE CompleteRetry(w, a)
    <3>1. message' \in [Approvals -> Message]
      <4>1. PICK due \in BOOLEAN : message' = [message EXCEPT ![a] = ScheduleRetry(@, due)]
        BY <2>4 DEF CompleteRetry
      <4>. QED  BY <4>1, ReleasedMessage DEF TypeOK
    <3>. QED
      BY <2>4, <3>1, SettleType
         DEF CompleteRetry, ExecutionStatus, GoesIdle, TypeOK, Worker, people
  <2>5. CASE CompleteFailed(w, a)
    <3>1. caseStatus' \in [Cases -> CaseStatus]
      BY <2>5, CaseMoveType DEF CompleteFailed, CaseStatus
    <3>2. message' \in [Approvals -> Message]
      BY <2>5, ReleasedMessage DEF CompleteFailed, TypeOK
    <3>. QED
      BY <2>5, <3>1, <3>2, SettleType
         DEF CompleteFailed, ExecutionStatus, GoesIdle, TypeOK, Worker, people
  <2>. QED  BY <1>8, <2>1, <2>2, <2>3, <2>4, <2>5 DEF Complete
<1>9. CASE UNCHANGED vars
  BY <1>9 DEF vars, people, queue, calls, TypeOK
<1>. QED
  BY <1>2, <1>3, <1>4, <1>5, <1>6, <1>7, <1>8, <1>9 DEF Next

\* The variables of the model stay in their types.
THEOREM TypeCorrect == Spec => []TypeOK
<1>1. Init => TypeOK
  BY TypeInit
<1>2. TypeOK /\ [Next]_vars => TypeOK'
  BY TypeStep
<1>. QED  BY <1>1, <1>2, PTL DEF Spec

--------------------------------------------------------------------------------
(* What is written for an approval, and when; what an open handler can rely*)
(* on, although others have committed since it read.                       *)

\* Handlers of the operations console.
Console4 == {"replay", "discard", "confirm", "refute"}

\* No worker has been offered the write yet.
Undecided(a) == approval[a] \in {"NONE", "PENDING", "APPROVED"}

\* Nothing is written for an approval before it is consumed; and what an open
\* handler read still tells something about the approval.
ApprovalInv ==
  \A a \in Approvals :
    /\ Undecided(a) => execution[a].status = "none" /\ message[a].status = "none"
    /\ <<"request", a>> \in open => approval[a] = "NONE"
    /\ <<"approve", a>> \in open \/ <<"cancel", a>> \in open => approval[a] # "NONE"
    /\ \A h \in Console4 : <<h, a>> \in open => ~Undecided(a)
    /\ InstallationRevoked(a) => approval[a] # "APPROVED"
    /\ InstallationRevoked(a) /\ <<"approve", a>> \in open => approval[a] # "PENDING"

\* Nothing has happened yet.
LEMMA ApprovalInit == Init => ApprovalInv
BY DEF Init, ApprovalInv, NoExecution, NoMessage, InstallationRevoked

\* What a handler that writes can rely on, whether it reads now or read earlier.
LEMMA WriterKnows ==
  ASSUME TypeOK, ApprovalInv, NEW h \in Handlers, NEW a \in Approvals, MayWrite(h, a)
  PROVE  /\ open' \subseteq open
         /\ h = "request" => approval[a] = "NONE" /\ <<h, a>> \notin open'
         /\ h \in {"approve", "cancel"} => approval[a] # "NONE"
         /\ h = "approve" /\ approval[a] = "PENDING" => ~InstallationRevoked(a)
         /\ h \in Console4 => ~Undecided(a)
<1>1. CASE h \in Overlap
  <2>1. <<h, a>> \in open /\ open' \subseteq open
    BY <1>1 DEF MayWrite
  <2>2. h = "request" => open' = open \ {<<h, a>>}
    BY <1>1 DEF MayWrite, Repeatable
  <2>. QED  BY <2>1, <2>2 DEF ApprovalInv
<1>2. CASE h \notin Overlap
  <2>1. Reads(h, a) /\ open' = open
    BY <1>2 DEF MayWrite
  <2>2. h = "request" => approval[a] = "NONE" /\ <<h, a>> \notin open
    BY <1>2, <2>1 DEF Reads, RequestReads, TypeOK
  <2>3. h \in {"approve", "cancel"} => approval[a] = "PENDING"
    BY <2>1 DEF Reads, ApproveReads, Decidable, CancelReads
  <2>4. h = "approve" => ~InstallationRevoked(a)
    BY <2>1 DEF Reads, ApproveReads, Decidable
  <2>5. h \in Console4 => ~Undecided(a)
    BY <2>1 DEF Reads, DeadLetterRead, UnknownRead, Console4, ApprovalInv
  <2>. QED  BY <2>1, <2>2, <2>3, <2>4, <2>5
<1>. QED  BY <1>1, <1>2

\* Every step keeps it so.
LEMMA ApprovalStep == TypeOK /\ ApprovalInv /\ [Next]_vars => ApprovalInv'
<1>. SUFFICES ASSUME TypeOK, ApprovalInv, [Next]_vars PROVE ApprovalInv'
  OBVIOUS
<1>2. ASSUME NEW i \in Installations, RevokeInstallation(i) PROVE ApprovalInv'
  BY <1>2 DEF RevokeInstallation, ApprovalInv, Undecided, InstallationRevoked, TypeOK, queue
<1>3. ASSUME NEW a \in Approvals, Desk(a) PROVE ApprovalInv'
  <2>1. ASSUME NEW h \in Handlers, Begin(h, a) PROVE ApprovalInv'
    BY <2>1 DEF Begin, Reads, RequestReads, ApproveReads, Decidable, CancelReads,
       DeadLetterRead, UnknownRead, Console4, ApprovalInv, Undecided,
       InstallationRevoked, people, queue
  <2>2. ASSUME NEW h \in Handlers, Rollback(h, a) PROVE ApprovalInv'
    BY <2>2 DEF Rollback, ApprovalInv, Undecided, InstallationRevoked, people, queue
  <2>3. CASE RequestApproval(a)
    <3>1. approval[a] = "NONE" /\ <<"request", a>> \notin open' /\ open' \subseteq open
      BY <2>3, WriterKnows DEF RequestApproval, Handlers
    <3>. QED
      BY <2>3, <3>1 DEF RequestApproval, ApprovalInv, Undecided, InstallationRevoked,
         TypeOK, people, queue
  <2>4. CASE CancelTask(a)
    <3>1. approval[a] # "NONE" /\ open' \subseteq open
      BY <2>4, WriterKnows DEF CancelTask, Handlers
    <3>. QED
      BY <2>4, <3>1 DEF CancelTask, ApprovalInv, Undecided, InstallationRevoked,
         TypeOK, people, queue
  <2>5. CASE Approve(a)
    <3>1. ~InstallationRevoked(a) /\ open' \subseteq open
      BY <2>5, WriterKnows DEF Approve, Handlers
    <3>. QED
      BY <2>5, <3>1 DEF Approve, ApprovalInv, Undecided, InstallationRevoked,
         TypeOK, people, queue
  <2>6. CASE Reject(a) \/ ExpireOnDecision(a)
    BY <2>6 DEF Reject, ExpireOnDecision, Decidable, ApprovalInv, Undecided,
       InstallationRevoked, TypeOK, people, queue
  <2>7. CASE PrepareApprovedWrite(a)
    <3>1. open' \subseteq open
      BY <2>7, MayWriteOpen DEF PrepareApprovedWrite
    <3>. QED
      BY <2>7, <3>1 DEF PrepareApprovedWrite, ApprovalInv, Undecided, InstallationRevoked,
         TypeOK, people
  <2>8. CASE PlanCase(a)
    <3>1. open' \subseteq open
      BY <2>8, MayWriteOpen DEF PlanCase
    <3>. QED
      BY <2>8, <3>1 DEF PlanCase, ApprovalInv, Undecided, InstallationRevoked, people, queue
  <2>. QED  BY <1>3, <2>1, <2>2, <2>3, <2>4, <2>5, <2>6, <2>7, <2>8 DEF Desk
<1>4. ASSUME NEW a \in Approvals, Console(a) PROVE ApprovalInv'
  <2>1. CASE OpsReplay(a) \/ OpsDiscard(a)
    <3>1. ~Undecided(a) /\ open' \subseteq open
      BY <2>1, WriterKnows DEF OpsReplay, OpsDiscard, Handlers, Console4
    <3>. QED
      BY <2>1, <3>1 DEF OpsReplay, OpsDiscard, ApprovalInv, Undecided, InstallationRevoked,
         TypeOK, people
  <2>2. CASE OpsConfirm(a) \/ OpsRefute(a)
    <3>1. ~Undecided(a) /\ open' \subseteq open
      BY <2>2, WriterKnows DEF OpsConfirm, OpsRefute, OpsResolve, Handlers, Console4
    <3>. QED
      BY <2>2, <3>1 DEF OpsConfirm, OpsRefute, OpsResolve, ApprovalInv, Undecided,
         InstallationRevoked, TypeOK, people
  <2>3. CASE ReplayDeadLetter(a)
    <3>1. open' \subseteq open
      BY <2>3, MayWriteOpen DEF ReplayDeadLetter
    <3>. QED
      BY <2>3, <3>1 DEF ReplayDeadLetter, Redrivable, Settle, ApprovalInv, Undecided,
         InstallationRevoked, TypeOK, people
  <2>. QED  BY <1>4, <2>1, <2>2, <2>3 DEF Console
<1>5. ASSUME NEW a \in Approvals, Clock(a) \/ AuthorityChanges(a) PROVE ApprovalInv'
  BY <1>5 DEF Clock, Expire, LeaseLapses, RetryDue, AuthorityChanges, ApprovalInv,
     Undecided, InstallationRevoked, TypeOK, Message, people, queue
<1>6. ASSUME NEW w \in Workers, CallTool(w) \/ Crash(w) \/ Restart(w) PROVE ApprovalInv'
  BY <1>6 DEF CallTool, EffectReads, EffectLands, EffectAbsent, Crash, Restart, ApprovalInv,
     Undecided, InstallationRevoked, people, queue
<1>7. ASSUME NEW w \in Workers, NEW a \in Approvals, Claim(w, a) PROVE ApprovalInv'
  <2>1. CASE ReadsCase(w, a)
    BY <2>1 DEF ReadsCase, ApprovalInv, Undecided, InstallationRevoked, people, queue
  <2>2. CASE SettleClaim(w, a)
    <3>1. CanClaim(w, a)
      BY <2>2 DEF SettleClaim, ClaimRevokes, ClaimAccepts, ClaimAborts
    <3>2. message[a].status # "none"
      BY <3>1 DEF CanClaim, Idles, Claimable
    <3>. QED
      BY <2>2, <3>2 DEF SettleClaim, ClaimRevokes, ClaimAccepts, ClaimAborts, ApprovalInv,
         Undecided, InstallationRevoked, TypeOK, people, queue
  <2>. QED  BY <1>7, <2>1, <2>2 DEF Claim
<1>8. ASSUME NEW w \in Workers, NEW a \in Approvals, Complete(w, a) PROVE ApprovalInv'
  <2>1. CASE CompleteStale(w, a) \/ CompleteAborts(w, a)
    BY <2>1 DEF CompleteStale, CompleteAborts, ApprovalInv, Undecided,
       InstallationRevoked, people, queue
  <2>2. CASE ~(CompleteStale(w, a) \/ CompleteAborts(w, a))
    <3>1. message[a].status # "none"
      BY <1>8, <2>2 DEF Complete, CompleteSuccess, CompleteUnknown, CompleteRetry,
         CompleteFailed, Fenced, HoldsLease
    <3>. QED
      BY <1>8, <2>2, <3>1 DEF Complete, CompleteSuccess, CompleteUnknown, CompleteRetry,
         CompleteFailed, Settle, ApprovalInv, Undecided, InstallationRevoked, TypeOK, people
  <2>. QED  BY <2>1, <2>2
<1>9. CASE UNCHANGED vars
  BY <1>9 DEF vars, people, queue, ApprovalInv, Undecided, InstallationRevoked
<1>. QED
  BY <1>2, <1>3, <1>4, <1>5, <1>6, <1>7, <1>8, <1>9 DEF Next

\* Once an installation is revoked, nothing it asked for is accepted: not even
\* a request or an approval that was under way.
THEOREM RevocationIsFinal == Spec => RevokedNeverAccepted
<1>1. TypeOK /\ ApprovalInv /\ [Next]_vars =>
        [\A a \in Approvals : InstallationOf[a] \in revoked /\ approval[a] # "CONSUMED"
           => approval'[a] # "CONSUMED"]_approval
  <2>. SUFFICES ASSUME TypeOK, ApprovalInv, [Next]_vars,
                       NEW a \in Approvals, InstallationOf[a] \in revoked,
                       approval[a] # "CONSUMED", approval'[a] = "CONSUMED"
                PROVE  FALSE
    OBVIOUS
  <2>1. approval[a] # "APPROVED"
    BY DEF ApprovalInv, InstallationRevoked
  <2>2. \A b \in Approvals : PrepareApprovedWrite(b) => b # a
    BY <2>1 DEF PrepareApprovedWrite
  <2>3. ASSUME NEW b \in Approvals, Desk(b) PROVE approval'[a] # "CONSUMED"
    BY <2>2, <2>3 DEF Desk, Begin, Rollback, PlanCase, RequestApproval, CancelTask, Approve,
       Reject, ExpireOnDecision, PrepareApprovedWrite, TypeOK
  <2>4. ASSUME NEW i \in Installations, RevokeInstallation(i) PROVE approval'[a] # "CONSUMED"
    BY <2>4 DEF RevokeInstallation
  <2>5. CASE approval' = approval
    BY <2>5
  <2>6. ASSUME NEW b \in Approvals, Console(b) \/ Clock(b) \/ AuthorityChanges(b)
        PROVE  approval' = approval
    BY <2>6 DEF Console, OpsReplay, OpsDiscard, OpsConfirm, OpsRefute, OpsResolve,
       ReplayDeadLetter, Clock, Expire, LeaseLapses, RetryDue, AuthorityChanges
  <2>7. ASSUME NEW w \in Workers, CallTool(w) \/ Crash(w) \/ Restart(w)
        PROVE  approval' = approval
    BY <2>7 DEF CallTool, EffectReads, EffectLands, EffectAbsent, Crash, Restart
  <2>8. ASSUME NEW w \in Workers, NEW b \in Approvals, Claim(w, b) \/ Complete(w, b)
        PROVE  approval' = approval
    BY <2>8 DEF Claim, ReadsCase, SettleClaim, ClaimRevokes, ClaimAccepts, ClaimAborts,
       Complete, CompleteStale, CompleteSuccess, CompleteUnknown, CompleteRetry, CompleteFailed, CompleteAborts
  <2>9. CASE UNCHANGED vars
    BY <2>9, <2>5 DEF vars
  <2>. QED
    BY <2>3, <2>4, <2>5, <2>6, <2>7, <2>8, <2>9 DEF Next
<1>2. Init => ApprovalInv
  BY ApprovalInit
<1>3. TypeOK /\ ApprovalInv /\ [Next]_vars => ApprovalInv'
  BY ApprovalStep
<1>. QED  BY <1>1, <1>2, <1>3, TypeCorrect, PTL DEF Spec, RevokedNeverAccepted

--------------------------------------------------------------------------------
(* Fencing: the lease of a message and the lease of its execution.         *)

\* A lease covers its execution; and a verdict that an operator is about to
\* write will find no lease, and no way to one.
FenceInv ==
  \A a \in Approvals :
    /\ message[a].status = "leased" =>
         /\ execution[a].status = "RUNNING"
         /\ execution[a].owner = message[a].owner
         /\ execution[a].token = message[a].token
    /\ grant[a] = "active" => execution[a].status = "PENDING"
    /\ message[a].status = "dead_letter" => execution[a].status = "FAILED"
    /\ <<"confirm", a>> \in open \/ <<"refute", a>> \in open =>
         /\ grant[a] # "active"
         /\ execution[a].status \in {"UNKNOWN", "SUCCEEDED", "FAILED"}
         /\ message[a].status \notin {"leased", "dead_letter"}

\* Nothing has happened yet.
LEMMA FenceInit == Init => FenceInv
BY DEF Init, FenceInv, NoExecution, NoMessage

\* An operator's verdict finds an execution no worker holds, now or later.
LEMMA VerdictIsLate ==
  ASSUME TypeOK, FenceInv, NEW h \in {"confirm", "refute"}, NEW a \in Approvals,
         MayWrite(h, a)
  PROVE  /\ grant[a] # "active"
         /\ execution[a].status \in {"UNKNOWN", "SUCCEEDED", "FAILED"}
         /\ message[a].status \notin {"leased", "dead_letter"}
<1>1. CASE <<h, a>> \in open
  BY <1>1 DEF FenceInv
<1>2. CASE Reads(h, a)
  BY <1>2 DEF Reads, UnknownRead, FenceInv
<1>. QED  BY <1>1, <1>2 DEF MayWrite

\* Every step keeps it so.
LEMMA FenceStep == TypeOK /\ ApprovalInv /\ FenceInv /\ [Next]_vars => FenceInv'
<1>. SUFFICES ASSUME TypeOK, ApprovalInv, FenceInv, [Next]_vars PROVE FenceInv'
  OBVIOUS
<1>2. ASSUME NEW i \in Installations, RevokeInstallation(i) PROVE FenceInv'
  BY <1>2 DEF RevokeInstallation, FenceInv, queue
<1>3. ASSUME NEW a \in Approvals, Desk(a) PROVE FenceInv'
  <2>1. ASSUME NEW h \in Handlers, Begin(h, a) PROVE FenceInv'
    BY <2>1 DEF Begin, Reads, UnknownRead, FenceInv, queue
  <2>2. ASSUME NEW h \in Handlers, Rollback(h, a) PROVE FenceInv'
    BY <2>2 DEF Rollback, FenceInv, queue
  <2>3. CASE \/ PlanCase(a) \/ RequestApproval(a) \/ CancelTask(a)
             \/ Approve(a) \/ Reject(a) \/ ExpireOnDecision(a)
    <3>1. open' \subseteq open /\ UNCHANGED queue
      BY <2>3, MayWriteOpen DEF PlanCase, RequestApproval, CancelTask, Approve, Reject,
         ExpireOnDecision
    <3>. QED  BY <3>1 DEF FenceInv, queue
  <2>4. CASE PrepareApprovedWrite(a)
    <3>1. open' \subseteq open
      BY <2>4, MayWriteOpen DEF PrepareApprovedWrite
    <3>2. <<"confirm", a>> \notin open /\ <<"refute", a>> \notin open
      BY <2>4 DEF PrepareApprovedWrite, ApprovalInv, Undecided, Console4
    <3>3. message'[a].status = "pending" /\ execution'[a].status = "PENDING"
      BY <2>4 DEF PrepareApprovedWrite, TypeOK, Execution, Enqueued, NoMessage
    <3>4. \A b \in Approvals : b # a =>
            /\ message'[b] = message[b] /\ execution'[b] = execution[b] /\ grant'[b] = grant[b]
      BY <2>4 DEF PrepareApprovedWrite, TypeOK
    <3>. QED  BY <3>1, <3>2, <3>3, <3>4 DEF FenceInv
  <2>. QED  BY <1>3, <2>1, <2>2, <2>3, <2>4 DEF Desk
<1>4. ASSUME NEW a \in Approvals, Console(a) PROVE FenceInv'
  <2>1. CASE OpsReplay(a) \/ OpsDiscard(a)
    <3>1. open' \subseteq open
      BY <2>1, MayWriteOpen DEF OpsReplay, OpsDiscard
    <3>2. message'[a].status \in {"pending", "terminal"}
      BY <2>1, OtherMessage DEF OpsReplay, OpsDiscard, TypeOK
    <3>. QED  BY <2>1, <3>1, <3>2 DEF OpsReplay, OpsDiscard, FenceInv, TypeOK
  <2>2. ASSUME NEW h \in {"confirm", "refute"}, NEW verdict \in {"SUCCEEDED", "FAILED"},
               OpsResolve(a, h, verdict)
        PROVE  FenceInv'
    <3>1. open' \subseteq open
      BY <2>2, MayWriteOpen DEF OpsResolve
    <3>2. /\ grant[a] # "active"
          /\ message[a].status \notin {"leased", "dead_letter"}
      BY <2>2, VerdictIsLate DEF OpsResolve
    <3>3. UNCHANGED <<grant, message>>
      BY <2>2 DEF OpsResolve
    <3>4. execution'[a].status = verdict
      BY <2>2 DEF OpsResolve, TypeOK, Execution
    <3>5. \A b \in Approvals : b # a => execution'[b] = execution[b]
      BY <2>2 DEF OpsResolve, TypeOK
    <3>. QED  BY <3>1, <3>2, <3>3, <3>4, <3>5 DEF FenceInv
  <2>3. CASE ReplayDeadLetter(a)
    <3>1. message'[a].status = "pending"
      BY <2>3, OtherMessage DEF ReplayDeadLetter, TypeOK
    <3>2. <<"confirm", a>> \notin open /\ <<"refute", a>> \notin open
      BY <2>3 DEF ReplayDeadLetter, Redrivable, FenceInv
    <3>3. grant[a] = "consumed" /\ grant' = grant /\ open' \subseteq open
      BY <2>3, MayWriteOpen DEF ReplayDeadLetter, Redrivable
    <3>4. \A b \in Approvals : b # a =>
            message'[b] = message[b] /\ execution'[b] = execution[b]
      BY <2>3 DEF ReplayDeadLetter, Settle, TypeOK
    <3>. QED  BY <3>1, <3>2, <3>3, <3>4 DEF FenceInv
  <2>. QED  BY <1>4, <2>1, <2>2, <2>3 DEF Console, OpsConfirm, OpsRefute
<1>5. ASSUME NEW a \in Approvals, Clock(a) \/ AuthorityChanges(a) PROVE FenceInv'
  <2>1. UNCHANGED <<grant, execution, open>>
    BY <1>5 DEF Clock, Expire, LeaseLapses, RetryDue, AuthorityChanges, queue
  <2>2. \A b \in Approvals : /\ message'[b].status = message[b].status
                             /\ message'[b].owner = message[b].owner
                             /\ message'[b].token = message[b].token
    <3>1. CASE LeaseLapses(a)
      BY <3>1 DEF LeaseLapses, TypeOK, Message
    <3>2. CASE RetryDue(a)
      BY <3>2 DEF RetryDue, TypeOK, Message
    <3>3. CASE Expire(a) \/ AuthorityChanges(a)
      BY <3>3 DEF Expire, AuthorityChanges, queue
    <3>. QED  BY <1>5, <3>1, <3>2, <3>3 DEF Clock
  <2>. QED  BY <2>1, <2>2 DEF FenceInv
<1>6. ASSUME NEW w \in Workers, CallTool(w) \/ Crash(w) \/ Restart(w) PROVE FenceInv'
  BY <1>6 DEF CallTool, EffectReads, EffectLands, EffectAbsent, Crash, Restart, FenceInv, queue
<1>7. ASSUME NEW w \in Workers, NEW a \in Approvals, Claim(w, a) PROVE FenceInv'
  <2>1. CASE ClaimRevokes(w, a)
    <3>1. message'[a].status = "terminal"
      BY <2>1, ClaimedMessage, ReleasedMessage DEF ClaimRevokes, TypeOK
    <3>. QED  BY <2>1, <3>1 DEF ClaimRevokes, FenceInv, TypeOK
  <2>2. CASE ClaimAccepts(w, a)
    <3>1. /\ message'[a].status = "leased" /\ message'[a].owner = w
          /\ message'[a].token = message[a].token + 1
      BY <2>2, ClaimedMessage DEF ClaimAccepts, TypeOK
    <3>2. <<"confirm", a>> \notin open /\ <<"refute", a>> \notin open
      BY <2>2 DEF ClaimAccepts, GrantUsable, FenceInv
    <3>. QED  BY <2>2, <3>1, <3>2 DEF ClaimAccepts, FenceInv, TypeOK
  <2>3. CASE ClaimAborts(w, a)
    BY <2>3 DEF ClaimAborts, FenceInv, queue
  <2>4. CASE ReadsCase(w, a)
    BY <2>4 DEF ReadsCase, FenceInv, queue
  <2>. QED  BY <1>7, <2>1, <2>2, <2>3, <2>4 DEF Claim, SettleClaim
<1>8. ASSUME NEW w \in Workers, NEW a \in Approvals, Complete(w, a) PROVE FenceInv'
  <2>1. CASE CompleteStale(w, a) \/ CompleteAborts(w, a)
    BY <2>1 DEF CompleteStale, CompleteAborts, FenceInv, queue
  <2>2. CASE ~(CompleteStale(w, a) \/ CompleteAborts(w, a))
    <3>1. message[a].status = "leased" /\ execution[a].status = "RUNNING"
      BY <1>8, <2>2 DEF Complete, CompleteSuccess, CompleteUnknown, CompleteRetry,
         CompleteFailed, Fenced, HoldsLease
    <3>2. PICK s \in {"SUCCEEDED", "UNKNOWN", "PENDING", "FAILED"} : Settle(a, s)
      BY <1>8, <2>2 DEF Complete, CompleteSuccess, CompleteUnknown, CompleteRetry,
         CompleteFailed
    <3>3. /\ message'[a].status # "leased"
          /\ message'[a].status = "dead_letter" => CompleteFailed(w, a)
          /\ \A b \in Approvals : b # a => message'[b] = message[b]
      <4>1. CASE CompleteSuccess(w, a) \/ CompleteUnknown(w, a)
        BY <4>1, ReleasedMessage DEF CompleteSuccess, CompleteUnknown, TypeOK
      <4>2. CASE CompleteRetry(w, a)
        <5>1. PICK due \in BOOLEAN : message' = [message EXCEPT ![a] = ScheduleRetry(@, due)]
          BY <4>2 DEF CompleteRetry
        <5>. QED  BY <5>1, ReleasedMessage DEF TypeOK
      <4>3. CASE CompleteFailed(w, a)
        BY <4>3, ReleasedMessage DEF CompleteFailed, TypeOK
      <4>. QED  BY <1>8, <2>2, <4>1, <4>2, <4>3 DEF Complete
    <3>4. UNCHANGED <<grant, open>>
      BY <1>8, <2>2 DEF Complete, CompleteSuccess, CompleteUnknown, CompleteRetry,
         CompleteFailed
    <3>5. CompleteFailed(w, a) => execution'[a].status = "FAILED"
      BY DEF CompleteFailed, Settle, TypeOK, Execution
    <3>. QED  BY <3>1, <3>2, <3>3, <3>4, <3>5 DEF Settle, FenceInv, TypeOK, Execution
  <2>. QED  BY <2>1, <2>2
<1>9. CASE UNCHANGED vars
  BY <1>9 DEF vars, queue, FenceInv
<1>. QED
  BY <1>2, <1>3, <1>4, <1>5, <1>6, <1>7, <1>8, <1>9 DEF Next

\* The inductive invariant of the chain.
LEMMA ChainInv == Spec => [](TypeOK /\ ApprovalInv /\ FenceInv)
<1>1. Init => TypeOK /\ ApprovalInv /\ FenceInv
  BY TypeInit, ApprovalInit, FenceInit
<1>2. TypeOK /\ ApprovalInv /\ FenceInv /\ [Next]_vars => (TypeOK /\ ApprovalInv /\ FenceInv)'
  BY TypeStep, ApprovalStep, FenceStep
<1>. QED  BY <1>1, <1>2, PTL DEF Spec

\* A leased message and its execution carry the same lease, whatever workers
\* and operators do to them.
THEOREM Fencing == Spec => []LeaseFencesExecution
<1>1. FenceInv => LeaseFencesExecution
  BY DEF FenceInv, LeaseFencesExecution
<1>. QED  BY <1>1, ChainInv, PTL

--------------------------------------------------------------------------------
(* Tokens: a worker that lost its lease never holds a current one.         *)

\* A worker's token is one the message has reached, and no other's.
TokenInv ==
  /\ \A w \in Workers : Working(w) =>
       /\ message[worker[w].on].status # "none"
       /\ worker[w].token <= message[worker[w].on].token
  /\ \A v, w \in Workers :
       v # w /\ Working(v) /\ Working(w) /\ worker[v].on = worker[w].on
         => worker[v].token # worker[w].token

\* A row that exists keeps existing, and its token never goes back.
TokensGrow ==
  \A a \in Approvals : message[a].status # "none" =>
    message'[a].status # "none" /\ message[a].token <= message'[a].token

\* A worker keeps its job, or drops it.
JobsStay ==
  \A w \in Workers : Working(w)' =>
    Working(w) /\ worker'[w].on = worker[w].on /\ worker'[w].token = worker[w].token

\* No step takes a token back: not a replay, not a discard.
LEMMA TokensNeverGoBack == TypeOK /\ ApprovalInv /\ [Next]_vars => TokensGrow
<1>. SUFFICES ASSUME TypeOK, ApprovalInv, [Next]_vars PROVE TokensGrow
  OBVIOUS
<1>0. \A a \in Approvals : message[a] \in Message /\ message[a].token \in Nat
  BY DEF TypeOK, Message
<1>1. CASE message' = message
  BY <1>0, <1>1 DEF TokensGrow
<1>2. ASSUME NEW a \in Approvals, PrepareApprovedWrite(a) PROVE TokensGrow
  <2>1. message[a].status = "none"
    BY <1>2 DEF PrepareApprovedWrite, ApprovalInv, Undecided
  <2>. QED  BY <1>0, <1>2, <2>1 DEF PrepareApprovedWrite, TokensGrow, TypeOK
<1>3. ASSUME NEW a \in Approvals, OpsReplay(a) \/ OpsDiscard(a) \/ ReplayDeadLetter(a)
      PROVE  TokensGrow
  BY <1>0, <1>3, OtherMessage DEF OpsReplay, OpsDiscard, ReplayDeadLetter, TokensGrow, TypeOK
<1>4. ASSUME NEW a \in Approvals, LeaseLapses(a) PROVE TokensGrow
  BY <1>0, <1>4 DEF LeaseLapses, TokensGrow, TypeOK, Message
<1>5. ASSUME NEW a \in Approvals, RetryDue(a) PROVE TokensGrow
  BY <1>0, <1>5 DEF RetryDue, TokensGrow, TypeOK, Message
<1>6. ASSUME NEW w \in Workers, NEW a \in Approvals, ClaimRevokes(w, a) \/ ClaimAccepts(w, a)
      PROVE  TokensGrow
  <2>1. message'[a].status # "none" /\ message'[a].token = message[a].token + 1
    <3>1. CASE ClaimAccepts(w, a)
      BY <1>0, <3>1, ClaimedMessage DEF ClaimAccepts, TypeOK
    <3>2. CASE ClaimRevokes(w, a)
      <4>1. message'[a] = MarkTerminal(ClaimNext(message[a], w), FALSE)
        BY <3>2 DEF ClaimRevokes, TypeOK
      <4>2. message'[a].status = "terminal"
        BY <3>2, ClaimedMessage, ReleasedMessage DEF ClaimRevokes, TypeOK
      <4>3. message'[a].token = message[a].token + 1
        BY <1>0, <4>1 DEF MarkTerminal, Release, ClaimNext
      <4>. QED  BY <4>2, <4>3
    <3>. QED  BY <1>6, <3>1, <3>2
  <2>2. \A b \in Approvals : b # a => message'[b] = message[b]
    BY <1>6 DEF ClaimRevokes, ClaimAccepts, TypeOK
  <2>. QED  BY <1>0, <2>1, <2>2 DEF TokensGrow
<1>7. ASSUME NEW w \in Workers, NEW a \in Approvals,
             CompleteSuccess(w, a) \/ CompleteUnknown(w, a) \/ CompleteFailed(w, a)
      PROVE  TokensGrow
  <2>1. message'[a].status # "none" /\ message'[a].token = message[a].token
    <3>1. \/ message'[a] = MarkDelivered(message[a])
          \/ \E dead \in BOOLEAN : message'[a] = MarkTerminal(message[a], dead)
      BY <1>7 DEF CompleteSuccess, CompleteUnknown, CompleteFailed, TypeOK
    <3>. QED  BY <1>0, <3>1 DEF MarkDelivered, MarkTerminal, Release, Message
  <2>2. \A b \in Approvals : b # a => message'[b] = message[b]
    BY <1>7 DEF CompleteSuccess, CompleteUnknown, CompleteFailed, TypeOK
  <2>. QED  BY <1>0, <2>1, <2>2 DEF TokensGrow
<1>8. ASSUME NEW w \in Workers, NEW a \in Approvals, CompleteRetry(w, a) PROVE TokensGrow
  <2>1. PICK due \in BOOLEAN : message' = [message EXCEPT ![a] = ScheduleRetry(@, due)]
    BY <1>8 DEF CompleteRetry
  <2>2. message'[a] = ScheduleRetry(message[a], due)
    BY <2>1 DEF TypeOK
  <2>3. message'[a].status # "none" /\ message'[a].token = message[a].token
    BY <1>0, <2>2 DEF ScheduleRetry, Release, Message
  <2>4. \A b \in Approvals : b # a => message'[b] = message[b]
    BY <2>1 DEF TypeOK
  <2>. QED  BY <1>0, <2>3, <2>4 DEF TokensGrow
<1>9. ASSUME NEW a \in Approvals, Desk(a) PROVE TokensGrow
  BY <1>1, <1>2, <1>9 DEF Desk, Begin, Rollback, PlanCase, RequestApproval, CancelTask,
     Approve, Reject, ExpireOnDecision, queue
<1>10. ASSUME NEW a \in Approvals, Console(a) \/ Clock(a) \/ AuthorityChanges(a) PROVE TokensGrow
  BY <1>1, <1>3, <1>4, <1>5, <1>10 DEF Console, Clock, OpsConfirm, OpsRefute, OpsResolve,
     Expire, AuthorityChanges, queue
<1>11. ASSUME NEW w \in Workers, CallTool(w) \/ Crash(w) \/ Restart(w) PROVE TokensGrow
  BY <1>1, <1>11 DEF CallTool, EffectReads, EffectLands, EffectAbsent, Crash, Restart, queue
<1>12. ASSUME NEW w \in Workers, NEW a \in Approvals, Claim(w, a) \/ Complete(w, a)
       PROVE  TokensGrow
  BY <1>1, <1>6, <1>7, <1>8, <1>12 DEF Claim, SettleClaim, ReadsCase, Complete, ClaimAborts,
     CompleteStale, CompleteAborts, queue
<1>14. ASSUME NEW i \in Installations, RevokeInstallation(i) PROVE TokensGrow
  BY <1>1, <1>14 DEF RevokeInstallation, queue
<1>15. CASE UNCHANGED vars
  BY <1>1, <1>15 DEF vars, queue
<1>. QED
  BY <1>9, <1>10, <1>11, <1>12, <1>14, <1>15 DEF Next

\* Only a claim gives a worker a job.
LEMMA JobsComeFromClaims ==
  ASSUME TypeOK, [Next]_vars
  PROVE  JobsStay \/ \E w \in Workers, a \in Approvals : ClaimAccepts(w, a)
<1>1. ASSUME worker' = worker PROVE JobsStay
  BY <1>1 DEF JobsStay, Working
<1>2. ASSUME NEW w \in Workers, Crash(w) \/ Restart(w) PROVE JobsStay
  BY <1>2 DEF Crash, Restart, GoesIdle, JobsStay, Working, TypeOK, Idle, Down
<1>3. ASSUME NEW w \in Workers, CallTool(w) PROVE JobsStay
  <2>1. CASE EffectReads(w)
    BY <2>1 DEF EffectReads, Landing, JobsStay, Working, TypeOK
  <2>2. CASE EffectLands(w) \/ EffectAbsent(w)
    <3>1. PICK outcome \in Outcomes : Return(w, outcome)
      BY <2>2 DEF EffectLands, EffectAbsent, Outcomes
    <3>2. Working(w)
      BY <2>2 DEF EffectLands, EffectAbsent, InCall, Working
    <3>. QED  BY <3>1, <3>2 DEF Return, Returned, JobsStay, Working, TypeOK
  <2>. QED  BY <1>3, <2>1, <2>2 DEF CallTool
<1>4. ASSUME NEW w \in Workers, NEW a \in Approvals,
             Complete(w, a) \/ ClaimRevokes(w, a) \/ ClaimAborts(w, a)
      PROVE  JobsStay
  <2>1. PICK p \in {Idle, Down} : worker' = [worker EXCEPT ![w] = p]
    BY <1>4 DEF Complete, CompleteStale, CompleteSuccess, CompleteUnknown, CompleteRetry,
       CompleteFailed, CompleteAborts, ClaimRevokes, ClaimAborts, GoesIdle
  <2>. QED  BY <2>1 DEF JobsStay, Working, TypeOK, Idle, Down
<1>5. ASSUME NEW w \in Workers, NEW a \in Approvals, ReadsCase(w, a) PROVE JobsStay
  BY <1>5 DEF ReadsCase, Claiming, JobsStay, Working, TypeOK
<1>6. ASSUME NEW a \in Approvals, Desk(a) PROVE JobsStay
  BY <1>1, <1>6 DEF Desk, Begin, Rollback, PlanCase, RequestApproval, CancelTask, Approve,
     Reject, ExpireOnDecision, PrepareApprovedWrite, calls
<1>7. ASSUME NEW a \in Approvals, Console(a) \/ Clock(a) \/ AuthorityChanges(a) PROVE JobsStay
  BY <1>1, <1>7 DEF Console, OpsReplay, OpsDiscard, OpsConfirm, OpsRefute, OpsResolve,
     ReplayDeadLetter, Clock, Expire, LeaseLapses, RetryDue, AuthorityChanges, calls
<1>9. ASSUME NEW i \in Installations, RevokeInstallation(i) PROVE JobsStay
  BY <1>1, <1>9 DEF RevokeInstallation, calls
<1>10. CASE UNCHANGED vars
  BY <1>1, <1>10 DEF vars, calls
<1>. QED
  BY <1>2, <1>3, <1>4, <1>5, <1>6, <1>7, <1>9, <1>10 DEF Next, Claim, SettleClaim

\* Every step keeps tokens apart.
LEMMA TokenStep == TypeOK /\ ApprovalInv /\ TokenInv /\ [Next]_vars => TokenInv'
<1>. SUFFICES ASSUME TypeOK, ApprovalInv, TokenInv, [Next]_vars PROVE TokenInv'
  OBVIOUS
<1>1. TokensGrow /\ TypeOK'
  BY TokensNeverGoBack, TypeStep
<1>2. \A w \in Workers : Working(w) => worker[w].on \in Approvals /\ worker[w].token \in Nat
  BY JobType DEF Working
<1>3. \A a \in Approvals : message[a].token \in Nat /\ message'[a].token \in Nat
  BY <1>1 DEF TypeOK, Message
<1>4. CASE JobsStay
  BY <1>1, <1>2, <1>3, <1>4 DEF JobsStay, TokensGrow, TokenInv, Working
<1>5. ASSUME NEW w \in Workers, NEW a \in Approvals, ClaimAccepts(w, a) PROVE TokenInv'
  <2>1. /\ message'[a].status # "none" /\ message'[a].token = message[a].token + 1
    BY <1>5, ClaimedMessage DEF ClaimAccepts, TypeOK
  <2>2. worker'[w].on = a /\ worker'[w].token = message[a].token + 1
    BY <1>5 DEF ClaimAccepts, Calling, TypeOK
  <2>3. \A v \in Workers : v # w => worker'[v] = worker[v]
    BY <1>5 DEF ClaimAccepts, TypeOK
  <2>. QED  BY <1>1, <1>2, <1>3, <2>1, <2>2, <2>3 DEF TokensGrow, TokenInv, Working
<1>. QED  BY <1>4, <1>5, JobsComeFromClaims

\* Two workers on one message never hold the same token.
THEOREM TokensAreDistinct == Spec => []TokensSeparateWorkers
<1>1. Init => TokenInv
  BY DEF Init, TokenInv, Working, Idle
<1>2. TypeOK /\ TokenInv => TokensSeparateWorkers
  BY DEF TypeOK, Worker, TokenInv, Working, TokensSeparateWorkers
<1>. QED  BY <1>1, <1>2, TokenStep, ChainInv, PTL DEF Spec

--------------------------------------------------------------------------------
(* What a step may do to the grant, the execution and the message of one   *)
(* approval: the next-state relation, seen from there.                     *)

SameGrant(a) == grant'[a] = grant[a]
SameExecution(a) == execution'[a] = execution[a]
MessageIs(a, status) == message'[a].status = status

\* The execution gets a status; whether it was ever claimed stays on record.
ExecutionIs(a, status) == /\ execution'[a].status = status
                          /\ execution'[a].tried = execution[a].tried

Untouched(a) == SameGrant(a) /\ SameExecution(a) /\ MessageIs(a, message[a].status)
Prepared(a) == /\ approval[a] = "APPROVED"
               /\ grant'[a] = "active"
               /\ ExecutionIs(a, "PENDING") /\ MessageIs(a, "pending")
Requeued(a) == /\ MayWrite("replay", a)
               /\ SameGrant(a) /\ SameExecution(a) /\ MessageIs(a, "pending")
Discarded(a) == /\ MayWrite("discard", a)
                /\ SameGrant(a) /\ SameExecution(a) /\ MessageIs(a, "terminal")
Judged(a) == /\ \E h \in {"confirm", "refute"} : MayWrite(h, a)
             /\ \E s \in {"SUCCEEDED", "FAILED"} : ExecutionIs(a, s)
             /\ SameGrant(a) /\ MessageIs(a, message[a].status)
Replayed(a) == /\ "dispatcher" \in Replays
               /\ message[a].status = "dead_letter" /\ execution[a].status = "FAILED"
               /\ grant[a] = "consumed"
               /\ SameGrant(a) /\ ExecutionIs(a, "PENDING") /\ MessageIs(a, "pending")
Refused(a) == /\ Claimable(message[a]) /\ ~AuthorizedNow(a)
              /\ grant'[a] = "revoked"
              /\ execution'[a].status = "FAILED" /\ execution'[a].tried
              /\ MessageIs(a, "terminal")
Claimed(a) == /\ Claimable(message[a]) /\ AuthorizedNow(a) /\ GrantUsable(a)
              /\ grant'[a] = "consumed"
              /\ execution'[a].status = "RUNNING" /\ execution'[a].tried
              /\ MessageIs(a, "leased")
Ends == {<<"SUCCEEDED", "delivered">>, <<"UNKNOWN", "terminal">>, <<"PENDING", "pending">>,
         <<"FAILED", "terminal">>, <<"FAILED", "dead_letter">>}
Completed(a) == /\ message[a].status = "leased" /\ execution[a].status = "RUNNING"
                /\ SameGrant(a)
                /\ \E end \in Ends : ExecutionIs(a, end[1]) /\ MessageIs(a, end[2])

RowStep(a) == \/ Untouched(a) \/ Prepared(a) \/ Requeued(a) \/ Discarded(a) \/ Judged(a)
              \/ Replayed(a) \/ Refused(a) \/ Claimed(a) \/ Completed(a)


\* Every step is one of these, for every approval.
LEMMA RowSteps == TypeOK /\ [Next]_vars => \A a \in Approvals : RowStep(a)
<1>. SUFFICES ASSUME TypeOK, [Next]_vars, NEW a \in Approvals PROVE RowStep(a)
  OBVIOUS
<1>0. message[a] \in Message /\ execution[a] \in Execution
  BY DEF TypeOK
<1>1. CASE UNCHANGED queue
  BY <1>1 DEF queue, RowStep, Untouched, SameGrant, SameExecution, MessageIs
<1>2. ASSUME NEW b \in Approvals, b # a,
             \/ PrepareApprovedWrite(b) \/ Console(b) \/ Clock(b)
             \/ \E w \in Workers : Claim(w, b) \/ Complete(w, b)
      PROVE  RowStep(a)
  <2>1. grant'[a] = grant[a] /\ execution'[a] = execution[a] /\ message'[a] = message[a]
    <3>1. CASE PrepareApprovedWrite(b)
      BY <1>2, <3>1 DEF PrepareApprovedWrite, TypeOK
    <3>2. CASE Console(b)
      BY <1>2, <3>2 DEF Console, OpsReplay, OpsDiscard, OpsConfirm, OpsRefute, OpsResolve,
         ReplayDeadLetter, Settle, TypeOK
    <3>3. CASE Clock(b)
      BY <1>2, <3>3 DEF Clock, Expire, LeaseLapses, RetryDue, queue, TypeOK
    <3>4. ASSUME NEW w \in Workers, Claim(w, b)
          PROVE  grant'[a] = grant[a] /\ execution'[a] = execution[a] /\ message'[a] = message[a]
      BY <1>2, <3>4 DEF Claim, SettleClaim, ReadsCase, ClaimRevokes, ClaimAccepts, ClaimAborts,
         queue, TypeOK
    <3>5. ASSUME NEW w \in Workers, Complete(w, b)
          PROVE  grant'[a] = grant[a] /\ execution'[a] = execution[a] /\ message'[a] = message[a]
      BY <1>2, <3>5 DEF Complete, CompleteStale, CompleteSuccess, CompleteUnknown,
         CompleteRetry, CompleteFailed, CompleteAborts, Settle, queue, TypeOK
    <3>. QED  BY <1>2, <3>1, <3>2, <3>3, <3>4, <3>5
  <2>. QED  BY <2>1 DEF RowStep, Untouched, SameGrant, SameExecution, MessageIs
<1>3. CASE PrepareApprovedWrite(a)
  <2>1. Prepared(a)
    BY <1>0, <1>3 DEF PrepareApprovedWrite, Prepared, ExecutionIs, MessageIs, Enqueued,
       NoMessage, Execution, TypeOK
  <2>. QED  BY <2>1 DEF RowStep
<1>4. CASE Console(a)
  <2>1. OpsReplay(a) => Requeued(a)
    BY <1>0, OtherMessage DEF OpsReplay, Requeued, SameGrant, SameExecution, MessageIs, TypeOK
  <2>2. OpsDiscard(a) => Discarded(a)
    BY <1>0, OtherMessage DEF OpsDiscard, Discarded, SameGrant, SameExecution, MessageIs, TypeOK
  <2>3. OpsConfirm(a) \/ OpsRefute(a) => Judged(a)
    BY <1>0 DEF OpsConfirm, OpsRefute, OpsResolve, Judged, ExecutionIs, SameGrant, MessageIs,
       Execution, TypeOK
  <2>4. ReplayDeadLetter(a) => Replayed(a)
    BY <1>0, OtherMessage DEF ReplayDeadLetter, Redrivable, Settle, Replayed, ExecutionIs, SameGrant,
       MessageIs, Execution, TypeOK
  <2>. QED  BY <1>4, <2>1, <2>2, <2>3, <2>4 DEF Console, RowStep
<1>5. CASE Clock(a)
  <2>1. grant' = grant /\ execution' = execution
    BY <1>5 DEF Clock, Expire, LeaseLapses, RetryDue, queue
  <2>2. message'[a].status = message[a].status
    BY <1>0, <1>5 DEF Clock, Expire, LeaseLapses, RetryDue, queue, Message, TypeOK
  <2>. QED  BY <2>1, <2>2 DEF RowStep, Untouched, SameGrant, SameExecution, MessageIs
<1>6. ASSUME NEW w \in Workers, Claim(w, a) PROVE RowStep(a)
  <2>1. CASE ClaimRevokes(w, a)
    <3>1. message'[a].status = "terminal"
      BY <1>0, <2>1, ClaimedMessage, ReleasedMessage DEF ClaimRevokes, TypeOK
    <3>2. Refused(a)
      BY <2>1, <3>1 DEF ClaimRevokes, CanClaim, Idles, Refused, MessageIs, TypeOK
    <3>. QED  BY <3>2 DEF RowStep
  <2>2. CASE ClaimAccepts(w, a)
    <3>1. message'[a].status = "leased"
      BY <1>0, <2>2, ClaimedMessage DEF ClaimAccepts, TypeOK
    <3>2. Claimed(a)
      BY <2>2, <3>1 DEF ClaimAccepts, CanClaim, Idles, Claimed, MessageIs, TypeOK
    <3>. QED  BY <3>2 DEF RowStep
  <2>3. CASE ClaimAborts(w, a)
    BY <2>3, <1>1 DEF ClaimAborts
  <2>4. CASE ReadsCase(w, a)
    BY <2>4, <1>1 DEF ReadsCase
  <2>. QED  BY <1>6, <2>1, <2>2, <2>3, <2>4 DEF Claim, SettleClaim
<1>7. ASSUME NEW w \in Workers, Complete(w, a) PROVE RowStep(a)
  <2>1. CASE CompleteStale(w, a) \/ CompleteAborts(w, a)
    BY <2>1, <1>1 DEF CompleteStale, CompleteAborts
  <2>2. ASSUME NEW end \in Ends, Settle(a, end[1]), message'[a].status = end[2],
               grant' = grant, Fenced(w, a)
        PROVE  RowStep(a)
    <3>1. execution'[a] = [execution[a] EXCEPT !.status = end[1], !.owner = NoWorker]
      BY <2>2 DEF Settle, TypeOK
    <3>2. Completed(a)
      BY <1>0, <2>2, <3>1 DEF Fenced, HoldsLease, Completed, ExecutionIs, SameGrant, MessageIs,
         Execution
    <3>. QED  BY <3>2 DEF RowStep
  <2>3. CASE CompleteSuccess(w, a)
    <3>1. message'[a].status = "delivered"
      BY <1>0, <2>3, ReleasedMessage DEF CompleteSuccess, TypeOK
    <3>. QED  BY <2>2, <2>3, <3>1 DEF CompleteSuccess, Ends
  <2>4. CASE CompleteUnknown(w, a)
    <3>1. message'[a].status = "terminal"
      BY <1>0, <2>4, ReleasedMessage DEF CompleteUnknown, TypeOK
    <3>. QED  BY <2>2, <2>4, <3>1 DEF CompleteUnknown, Ends
  <2>5. CASE CompleteRetry(w, a)
    <3>1. PICK due \in BOOLEAN : message' = [message EXCEPT ![a] = ScheduleRetry(@, due)]
      BY <2>5 DEF CompleteRetry
    <3>2. message'[a].status = "pending"
      BY <1>0, <3>1, ReleasedMessage DEF TypeOK
    <3>. QED  BY <2>2, <2>5, <3>2 DEF CompleteRetry, Ends
  <2>6. CASE CompleteFailed(w, a)
    <3>1. message'[a].status \in {"terminal", "dead_letter"}
      BY <1>0, <2>6, ReleasedMessage DEF CompleteFailed, TypeOK
    <3>. QED  BY <2>2, <2>6, <3>1 DEF CompleteFailed, Ends
  <2>. QED  BY <1>7, <2>1, <2>3, <2>4, <2>5, <2>6 DEF Complete
<1>8. ASSUME NEW b \in Approvals, Desk(b) PROVE RowStep(a)
  BY <1>1, <1>2, <1>3, <1>8 DEF Desk, Begin, Rollback, PlanCase, RequestApproval, CancelTask,
     Approve, Reject, ExpireOnDecision
<1>9. ASSUME NEW b \in Approvals, Console(b) \/ Clock(b) \/ AuthorityChanges(b) PROVE RowStep(a)
  BY <1>1, <1>2, <1>4, <1>5, <1>9 DEF AuthorityChanges
<1>10. ASSUME NEW w \in Workers, CallTool(w) \/ Crash(w) \/ Restart(w) PROVE RowStep(a)
  BY <1>1, <1>10 DEF CallTool, EffectReads, EffectLands, EffectAbsent, Crash, Restart
<1>11. ASSUME NEW w \in Workers, NEW b \in Approvals, Claim(w, b) \/ Complete(w, b)
       PROVE  RowStep(a)
  BY <1>2, <1>6, <1>7, <1>11
<1>13. ASSUME NEW i \in Installations, RevokeInstallation(i) PROVE RowStep(a)
  BY <1>1, <1>13 DEF RevokeInstallation
<1>14. CASE UNCHANGED vars
  BY <1>1, <1>14 DEF vars
<1>. QED
  BY <1>8, <1>9, <1>10, <1>11, <1>13, <1>14 DEF Next

\* A handler is open because it was, or because it reads in this step, which
\* then changes nothing else.
LEMMA OpenSteps ==
  ASSUME TypeOK, [Next]_vars, NEW h, NEW a \in Approvals, <<h, a>> \in open', <<h, a>> \notin open
  PROVE  Reads(h, a) /\ UNCHANGED queue
<1>1. ASSUME NEW b \in Approvals, Desk(b) PROVE Reads(h, a) /\ UNCHANGED queue
  <2>1. ASSUME NEW g \in Handlers, Begin(g, b) PROVE Reads(h, a) /\ UNCHANGED queue
    BY <2>1 DEF Begin
  <2>. QED
    BY <1>1, <2>1, MayWriteOpen DEF Desk, Rollback, PlanCase, RequestApproval, CancelTask,
       Approve, Reject, ExpireOnDecision, PrepareApprovedWrite
<1>2. ASSUME NEW b \in Approvals, Console(b) PROVE FALSE
  BY <1>2, MayWriteOpen DEF Console, OpsReplay, OpsDiscard, OpsConfirm, OpsRefute, OpsResolve,
     ReplayDeadLetter
<1>3. ASSUME NEW b \in Approvals, Clock(b) \/ AuthorityChanges(b) PROVE FALSE
  BY <1>3 DEF Clock, Expire, LeaseLapses, RetryDue, AuthorityChanges
<1>4. ASSUME NEW w \in Workers, CallTool(w) \/ Crash(w) \/ Restart(w) PROVE FALSE
  BY <1>4 DEF CallTool, EffectReads, EffectLands, EffectAbsent, Crash, Restart
<1>5. ASSUME NEW w \in Workers, NEW b \in Approvals, Claim(w, b) \/ Complete(w, b) PROVE FALSE
  BY <1>5 DEF Claim, SettleClaim, ReadsCase, ClaimRevokes, ClaimAccepts, ClaimAborts, Complete,
     CompleteStale, CompleteSuccess, CompleteUnknown, CompleteRetry, CompleteFailed, CompleteAborts
<1>7. ASSUME NEW i \in Installations, RevokeInstallation(i) PROVE FALSE
  BY <1>7 DEF RevokeInstallation
<1>. QED
  BY <1>1, <1>2, <1>3, <1>4, <1>5, <1>7 DEF Next, vars

--------------------------------------------------------------------------------
(* The queue never hands out a message that the claim then refuses.        *)

\* The console offers no replay of its own: what is left is the dispatcher's.
NoConsoleReplay == "ops" \notin Replays

\* A waiting message has a waiting execution, and a grant is consumed by a
\* claim that marks the execution as tried.
ClaimInv ==
  \A a \in Approvals :
    /\ <<"replay", a>> \notin open
    /\ message[a].status = "pending" => execution[a].status = "PENDING"
    /\ grant[a] = "consumed" => execution[a].tried

\* Every step keeps it so.
LEMMA ClaimStep ==
  ASSUME NoConsoleReplay, TypeOK, FenceInv, ClaimInv, [Next]_vars
  PROVE  ClaimInv'
<1>. SUFFICES ASSUME NEW a \in Approvals
              PROVE  /\ <<"replay", a>> \notin open'
                     /\ message'[a].status = "pending" => execution'[a].status = "PENDING"
                     /\ grant'[a] = "consumed" => execution'[a].tried
  BY DEF ClaimInv
<1>1. <<"replay", a>> \notin open'
  BY OpenSteps DEF ClaimInv, Reads, NoConsoleReplay
<1>2. ~MayWrite("replay", a)
  BY DEF MayWrite, ClaimInv, Reads, NoConsoleReplay
<1>3. RowStep(a)
  BY RowSteps
<1>4. CASE Untouched(a)
  BY <1>1, <1>4 DEF Untouched, SameGrant, SameExecution, MessageIs, ClaimInv
<1>5. CASE Judged(a)
  <2>1. execution[a].status # "PENDING"
    BY <1>5, VerdictIsLate DEF Judged
  <2>. QED  BY <1>1, <1>5, <2>1 DEF Judged, ExecutionIs, SameGrant, MessageIs, ClaimInv
<1>6. CASE Completed(a)
  BY <1>1, <1>6 DEF Completed, Ends, ExecutionIs, SameGrant, MessageIs, ClaimInv
<1>7. CASE Prepared(a) \/ Discarded(a) \/ Replayed(a) \/ Refused(a) \/ Claimed(a)
  BY <1>1, <1>7 DEF Prepared, Discarded, Replayed, Refused, Claimed, ExecutionIs,
     SameGrant, SameExecution, MessageIs, ClaimInv
<1>. QED  BY <1>2, <1>3, <1>4, <1>5, <1>6, <1>7 DEF RowStep, Requeued

\* As long as no dead letter is replayed from the console, no message can stop
\* the workers.  (With that replay one can: the run ops_replay.)
THEOREM ClaimsGoThrough == NoConsoleReplay => (Spec => []ClaimNeverAborts)
<1>. SUFFICES ASSUME NoConsoleReplay PROVE Spec => []ClaimNeverAborts
  OBVIOUS
<1>1. Init => ClaimInv
  BY DEF Init, ClaimInv, NoMessage
<1>2. FenceInv /\ ClaimInv => ClaimNeverAborts
  BY DEF FenceInv, ClaimInv, ClaimNeverAborts, Claimable, AuthorizedNow, GrantUsable
<1>3. TypeOK /\ FenceInv /\ ClaimInv /\ [Next]_vars => ClaimInv'
  BY ClaimStep
<1>. QED  BY <1>1, <1>2, <1>3, ChainInv, PTL DEF Spec

--------------------------------------------------------------------------------
(* No execution is left behind.                                            *)

\* An operator's stale screen cannot touch a dead letter that the dispatcher
\* has meanwhile sent back to the queue.
ConsoleSeesReplays ==
  "dispatcher" \in Replays => /\ "discard" \notin Overlap
                              /\ "replay" \notin Overlap \/ "ops" \notin Replays

\* What is to be found by a worker is found; and an operator about to move a
\* dead letter still finds its execution settled, for good.
OrphanInv ==
  \A a \in Approvals :
    /\ execution[a].status = "PENDING" => message[a].status = "pending"
    /\ execution[a].status = "RUNNING" => message[a].status = "leased"
    /\ <<"replay", a>> \in open => "ops" \in Replays
    /\ \A h \in {"replay", "discard"} : <<h, a>> \in open =>
         h \in Overlap /\ ~Unsettled(a) /\ grant[a] # "active"

\* An operator who moves a dead letter finds its execution settled.
LEMMA MoveIsLate ==
  ASSUME FenceInv, OrphanInv, NEW h \in {"replay", "discard"}, NEW a \in Approvals, MayWrite(h, a)
  PROVE  ~Unsettled(a)
<1>1. CASE <<h, a>> \in open
  BY <1>1 DEF OrphanInv
<1>2. CASE Reads(h, a)
  BY <1>2 DEF Reads, DeadLetterRead, FenceInv, Unsettled
<1>. QED  BY <1>1, <1>2 DEF MayWrite

\* Every step keeps it so.
LEMMA OrphanStep ==
  ASSUME ConsoleSeesReplays, TypeOK, ApprovalInv, FenceInv, OrphanInv, [Next]_vars
  PROVE  OrphanInv'
<1>. SUFFICES ASSUME NEW a \in Approvals
              PROVE  /\ execution'[a].status = "PENDING" => message'[a].status = "pending"
                     /\ execution'[a].status = "RUNNING" => message'[a].status = "leased"
                     /\ <<"replay", a>> \in open' => "ops" \in Replays
                     /\ \A h \in {"replay", "discard"} : <<h, a>> \in open' =>
                          h \in Overlap /\ execution'[a].status \notin {"PENDING", "RUNNING"}
                          /\ grant'[a] # "active"
  BY DEF OrphanInv, Unsettled
<1>. DEFINE Waiting == \E h \in {"replay", "discard"} : <<h, a>> \in open
<1>1. RowStep(a)
  BY RowSteps
<1>2. /\ execution'[a].status = "PENDING" => message'[a].status = "pending"
      /\ execution'[a].status = "RUNNING" => message'[a].status = "leased"
  <2>1. CASE Untouched(a)
    BY <2>1 DEF Untouched, SameExecution, MessageIs, OrphanInv
  <2>2. CASE Requeued(a) \/ Discarded(a)
    <3>1. ~Unsettled(a)
      BY <2>2, MoveIsLate DEF Requeued, Discarded
    <3>. QED  BY <2>2, <3>1 DEF Requeued, Discarded, SameExecution, Unsettled
  <2>3. CASE Completed(a)
    BY <2>3 DEF Completed, Ends, ExecutionIs, MessageIs
  <2>4. CASE Prepared(a) \/ Judged(a) \/ Replayed(a) \/ Refused(a) \/ Claimed(a)
    BY <2>4 DEF Prepared, Judged, Replayed, Refused, Claimed, ExecutionIs, MessageIs
  <2>. QED  BY <1>1, <2>1, <2>2, <2>3, <2>4 DEF RowStep
<1>3. Waiting => execution'[a].status \notin {"PENDING", "RUNNING"} /\ grant'[a] # "active"
  <2>. SUFFICES ASSUME Waiting
                PROVE  execution'[a].status \notin {"PENDING", "RUNNING"} /\ grant'[a] # "active"
    OBVIOUS
  <2>1. ~Unsettled(a) /\ grant[a] # "active" /\ ~Undecided(a)
    BY DEF OrphanInv, ApprovalInv, Console4
  <2>2. "dispatcher" \notin Replays
    BY DEF OrphanInv, ConsoleSeesReplays
  <2>3. ~Prepared(a) /\ ~Replayed(a) /\ ~Claimed(a) /\ ~Completed(a)
    BY <2>1, <2>2 DEF Prepared, Replayed, Claimed, Completed, GrantUsable, Unsettled, Undecided
  <2>4. CASE Untouched(a) \/ Requeued(a) \/ Discarded(a) \/ Judged(a) \/ Refused(a)
    BY <2>1, <2>4 DEF Untouched, Requeued, Discarded, Judged, Refused, SameGrant, SameExecution,
       ExecutionIs, Unsettled
  <2>. QED  BY <1>1, <2>3, <2>4 DEF RowStep
<1>4. ASSUME NEW h \in {"replay", "discard"}, <<h, a>> \in open', <<h, a>> \notin open
      PROVE  /\ h = "replay" => "ops" \in Replays
             /\ execution'[a].status \notin {"PENDING", "RUNNING"} /\ grant'[a] # "active"
  <2>1. message[a].status = "dead_letter" /\ UNCHANGED queue /\ (h = "replay" => "ops" \in Replays)
    BY <1>4, OpenSteps DEF Reads, DeadLetterRead
  <2>. QED  BY <2>1 DEF queue, FenceInv
<1>5. ASSUME NEW h \in {"replay", "discard"}, <<h, a>> \in open' PROVE h \in Overlap
  BY <1>5, TypeStep DEF TypeOK
<1>. QED  BY <1>2, <1>3, <1>4, <1>5 DEF OrphanInv

\* An unsettled execution is where a worker will find it, through crashes,
\* retries, replays and discards.
THEOREM NoExecutionIsLost == ConsoleSeesReplays => (Spec => []NoOrphanExecution)
<1>. SUFFICES ASSUME ConsoleSeesReplays PROVE Spec => []NoOrphanExecution
  OBVIOUS
<1>1. Init => OrphanInv
  BY DEF Init, OrphanInv, NoExecution
<1>2. OrphanInv => NoOrphanExecution
  BY DEF OrphanInv, NoOrphanExecution
<1>3. TypeOK /\ ApprovalInv /\ FenceInv /\ OrphanInv /\ [Next]_vars => OrphanInv'
  BY OrphanStep
<1>. QED  BY <1>1, <1>2, <1>3, ChainInv, PTL DEF Spec
================================================================================
