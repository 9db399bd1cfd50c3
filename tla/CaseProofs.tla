------------------------------- MODULE CaseProofs -------------------------------
(***************************************************************************)
(* The HR case and its approved writes in GovernedDispatch, for every set  *)
(* of cases, approvals and workers and every bound.  What is said of the   *)
(* case needs whoever writes it to read it in the same step: a planner, a  *)
(* request, a claim, a replay or a call of update_case_status that goes by *)
(* a status read earlier does break it.  What is said of the effects, and  *)
(* the contract of ApprovedWrite, does not.                                *)
(***************************************************************************)
EXTENDS GovernedDispatchProofs

--------------------------------------------------------------------------------
(* The table.                                                              *)

\* The moves the handlers make are legal ones.
LEMMA TableMoves ==
  /\ \A s \in CaseStatus : LegalMove(s, s)
  /\ \A s \in {"NEW", "TRIAGED", "EVIDENCE_READY"} : LegalMove(s, "PLAN_READY")
  /\ \A s, t \in CaseStatus : CanTransition(s, t) => LegalMove(s, t)
  /\ LegalMove("AWAITING_APPROVAL", "PLAN_READY")
  /\ LegalMove("AWAITING_APPROVAL", "EXECUTING")
  /\ LegalMove("AWAITING_APPROVAL", "FAILED")
  /\ LegalMove("EXECUTING", "FAILED")
  /\ LegalMove("EXECUTING", "RESOLVED")
  /\ LegalMove("FAILED", "EXECUTING")
<1>1. \A s \in CaseStatus : s \in Within1(s)
  BY DEF Within1
<1>2. \A s, t \in CaseStatus : CanTransition(s, t) => t \in Within1(s)
  BY DEF Within1, CanTransition
<1>3. \A s \in {"NEW", "TRIAGED", "EVIDENCE_READY"} : "PLAN_READY" \in Within3(s)
  <2>1. "TRIAGED" \in Within1("NEW") /\ "EVIDENCE_READY" \in Within1("TRIAGED")
        /\ "PLAN_READY" \in Within1("EVIDENCE_READY")
    BY DEF Within1, Transitions
  <2>2. \A s : s \in Within1(s)
    BY DEF Within1
  <2>3. "EVIDENCE_READY" \in Within2("NEW") /\ "EVIDENCE_READY" \in Within2("TRIAGED")
        /\ "EVIDENCE_READY" \in Within2("EVIDENCE_READY")
    BY <2>1, <2>2 DEF Within2
  <2>. QED  BY <2>1, <2>3 DEF Within3
<1>4. "FAILED" \in Within2("AWAITING_APPROVAL")
  <2>1. "EXECUTING" \in Within1("AWAITING_APPROVAL") /\ "FAILED" \in Within1("EXECUTING")
    BY DEF Within1, Transitions
  <2>. QED  BY <2>1 DEF Within2
<1>5. /\ "PLAN_READY" \in Within1("AWAITING_APPROVAL") /\ "EXECUTING" \in Within1("AWAITING_APPROVAL")
      /\ "FAILED" \in Within1("EXECUTING") /\ "RESOLVED" \in Within1("EXECUTING")
      /\ "EXECUTING" \in Within1("FAILED")
  BY DEF Within1, Transitions
<1>. QED  BY <1>1, <1>2, <1>3, <1>4, <1>5 DEF LegalMove

\* Where a request may come: nowhere an approval or an execution is under way.
LEMMA RequestsComeAfter ==
  ASSUME NEW s \in CaseStatus, CanTransition(s, "AWAITING_APPROVAL")
  PROVE  s \in {"PLAN_READY", "FAILED"}
BY DEF CaseStatus, CanTransition, Transitions

--------------------------------------------------------------------------------
(* What the workers are doing, and the effects.                            *)

\* A worker waits between a read and a write only if they are separate steps.
WaitInv ==
  \A w \in Workers : /\ worker[w].phase = "claiming" => "claim" \in Overlap
                     /\ worker[w].phase = "landing" => "effect" \in Overlap

\* What a worker holds after a step it held before, unless it claims, calls or
\* returns in this step; and an effect does not go away.
CallsStay ==
  /\ JobsStay
  /\ \A w \in Workers : worker'[w].phase = "returned" /\ worker'[w].outcome = "ok" =>
       worker[w].phase = "returned" /\ worker[w].outcome = "ok"
  /\ applied' = applied
  /\ WaitInv => WaitInv'

\* Only a claim and a tool call change what the workers are doing, other than
\* by dropping it.
LEMMA CallSteps ==
  ASSUME TypeOK, [Next]_vars
  PROVE  \/ CallsStay
         \/ \E w \in Workers, a \in Approvals : ClaimAccepts(w, a)
         \/ \E w \in Workers : EffectLands(w)
<1>1. ASSUME worker' = worker, applied' = applied PROVE CallsStay
  BY <1>1 DEF CallsStay, JobsStay, Working, WaitInv
<1>2. ASSUME NEW w \in Workers, NEW p \in {Idle, Down},
             worker' = [worker EXCEPT ![w] = p], applied' = applied
      PROVE  CallsStay
  BY <1>2 DEF CallsStay, JobsStay, Working, WaitInv, Idle, Down, TypeOK
<1>3. ASSUME NEW w \in Workers, Crash(w) \/ Restart(w) PROVE CallsStay
  BY <1>2, <1>3 DEF Crash, Restart, GoesIdle
<1>4. ASSUME NEW w \in Workers, EffectAbsent(w) PROVE CallsStay
  <2>1. PICK outcome \in Outcomes \ {"ok"} : Return(w, outcome)
    BY <1>4 DEF EffectAbsent, Outcomes
  <2>2. InCall(w) /\ applied' = applied
    BY <1>4 DEF EffectAbsent
  <2>. QED
    BY <2>1, <2>2 DEF Return, Returned, InCall, CallsStay, JobsStay, Working, WaitInv, TypeOK
<1>5. ASSUME NEW w \in Workers, NEW a \in Approvals, Complete(w, a) \/ ClaimAborts(w, a)
      PROVE  CallsStay
  BY <1>2, <1>5 DEF Complete, CompleteStale, CompleteSuccess, CompleteUnknown, CompleteRetry,
     CompleteFailed, CompleteAborts, ClaimAborts, GoesIdle
<1>6. ASSUME NEW w \in Workers, NEW a \in Approvals, ClaimRevokes(w, a) PROVE CallsStay
  BY <1>2, <1>6 DEF ClaimRevokes
<1>7. ASSUME NEW a \in Approvals, Desk(a) PROVE CallsStay
  BY <1>1, <1>7 DEF Desk, Begin, Rollback, PlanCase, RequestApproval, CancelTask, Approve,
     Reject, ExpireOnDecision, PrepareApprovedWrite, calls
<1>8. ASSUME NEW a \in Approvals, Console(a) \/ Clock(a) \/ AuthorityChanges(a) PROVE CallsStay
  BY <1>1, <1>8 DEF Console, OpsReplay, OpsDiscard, OpsConfirm, OpsRefute, OpsResolve,
     ReplayDeadLetter, Clock, Expire, LeaseLapses, RetryDue, AuthorityChanges, calls
<1>9. ASSUME NEW w \in Workers, EffectReads(w) PROVE CallsStay
  <2>1. /\ worker' = [worker EXCEPT ![w] = Landing(@)] /\ applied' = applied
        /\ worker[w].phase = "calling" /\ "effect" \in Overlap
    BY <1>9 DEF EffectReads
  <2>. QED  BY <2>1 DEF Landing, CallsStay, JobsStay, Working, WaitInv, TypeOK
<1>12. ASSUME NEW w \in Workers, NEW a \in Approvals, ReadsCase(w, a) PROVE CallsStay
  <2>1. /\ worker' = [worker EXCEPT ![w] = Claiming(a, caseStatus[CaseOf[a]])]
        /\ applied' = applied /\ "claim" \in Overlap
    BY <1>12 DEF ReadsCase
  <2>. QED  BY <2>1 DEF Claiming, CallsStay, JobsStay, Working, WaitInv, TypeOK
<1>10. ASSUME NEW i \in Installations, RevokeInstallation(i) PROVE CallsStay
  BY <1>1, <1>10 DEF RevokeInstallation, calls
<1>11. CASE UNCHANGED vars
  BY <1>1, <1>11 DEF vars, calls
<1>. QED
  BY <1>3, <1>4, <1>5, <1>6, <1>7, <1>8, <1>9, <1>10, <1>11, <1>12
     DEF Next, Claim, SettleClaim, CallTool

\* Every step keeps it so.
LEMMA WaitStep == TypeOK /\ WaitInv /\ [Next]_vars => WaitInv'
<1>. SUFFICES ASSUME TypeOK, WaitInv, [Next]_vars PROVE WaitInv'
  OBVIOUS
<1>1. ASSUME NEW w \in Workers, NEW a \in Approvals, ClaimAccepts(w, a) PROVE WaitInv'
  <2>1. worker' = [worker EXCEPT ![w] = Calling(a, message[a].token + 1)]
    BY <1>1 DEF ClaimAccepts
  <2>. QED  BY <2>1 DEF Calling, WaitInv, TypeOK
<1>2. ASSUME NEW w \in Workers, EffectLands(w) PROVE WaitInv'
  <2>1. PICK outcome \in Outcomes : Return(w, outcome)
    BY <1>2 DEF EffectLands, Outcomes
  <2>. QED  BY <2>1 DEF Return, Returned, WaitInv, TypeOK
<1>. QED  BY <1>1, <1>2, CallSteps DEF CallsStay

\* A worker never waits where the read and the write are one step.
LEMMA WaitsOverlap == Spec => []WaitInv
<1>1. ASSUME Init PROVE WaitInv
  <2>1. \A w \in Workers : worker[w].phase = "idle"
    BY <1>1 DEF Init, Idle
  <2>. QED  BY <2>1 DEF WaitInv
<1>. QED  BY <1>1, WaitStep, TypeCorrect, PTL DEF Spec

--------------------------------------------------------------------------------
(* Each commit moves a case along the table.                               *)

\* Whoever moves a case reads its status in the step that writes it.
CaseIsSerial == {"plan", "request", "redrive", "claim", "effect"} \cap Overlap = {}

\* A step of the case of one approval, from where a move is legal.
LEMMA LegalForOne ==
  ASSUME TypeOK, NEW a \in Approvals, NEW s,
         MoveCase(a, s), LegalMove(caseStatus[CaseOf[a]], s)
  PROVE  \A c \in Cases : LegalMove(caseStatus[c], caseStatus'[c])
<1>1. CaseOf[a] \in Cases
  BY ConstantsAssumption
<1>2. \A c \in Cases : LegalMove(caseStatus[c], caseStatus[c])
  BY TableMoves DEF TypeOK
<1>. QED  BY <1>1, <1>2 DEF MoveCase, TypeOK

\* Every step makes legal moves, where no read of the case is stale.
LEMMA LegalStep ==
  ASSUME CaseIsSerial, TypeOK, WaitInv, [Next]_vars
  PROVE  \A c \in Cases : LegalMove(caseStatus[c], caseStatus'[c])
<1>. DEFINE Legal == \A c \in Cases : LegalMove(caseStatus[c], caseStatus'[c])
<1>0. \A a \in Approvals : caseStatus[CaseOf[a]] \in CaseStatus
  BY ConstantsAssumption DEF TypeOK
<1>1. ASSUME caseStatus' = caseStatus PROVE Legal
  BY <1>1, TableMoves DEF TypeOK
<1>3. ASSUME NEW a \in Approvals, NEW s \in CaseStatus, CaseCanMove(a, s), MoveCase(a, s)
      PROVE  Legal
  <2>1. LegalMove(caseStatus[CaseOf[a]], s)
    BY <1>0, <1>3, TableMoves DEF CaseCanMove
  <2>. QED  BY <1>3, <2>1, LegalForOne
<1>4. ASSUME NEW a \in Approvals, Desk(a) PROVE Legal
  <2>1. CASE RequestApproval(a)
    <3>1. CaseCanMove(a, "AWAITING_APPROVAL") /\ MoveCase(a, "AWAITING_APPROVAL")
      BY <2>1 DEF RequestApproval, MayWrite, CaseIsSerial, Reads, RequestReads
    <3>. QED  BY <1>3, <3>1 DEF CaseStatus
  <2>2. CASE CancelTask(a)
    BY <1>1, <2>2, LegalForOne, TableMoves DEF CancelTask, CaseIs, CaseStays
  <2>3. CASE Reject(a)
    BY <1>3, <2>3 DEF Reject, CaseStatus
  <2>4. CASE PlanCase(a)
    <3>1. PlanReads(a) /\ MoveCase(a, "PLAN_READY")
      BY <2>4 DEF PlanCase, MayWrite, CaseIsSerial, Reads
    <3>. QED  BY <3>1, LegalForOne, TableMoves DEF PlanReads, CaseIs
  <2>5. CASE ~(RequestApproval(a) \/ CancelTask(a) \/ Reject(a) \/ PlanCase(a))
    BY <1>1, <1>4, <2>5 DEF Desk, Begin, Rollback, Approve, ExpireOnDecision, PrepareApprovedWrite
  <2>. QED  BY <2>1, <2>2, <2>3, <2>4, <2>5
<1>5. ASSUME NEW a \in Approvals, Console(a) PROVE Legal
  <2>1. CASE ReplayDeadLetter(a)
    <3>1. CaseIs(a, {"FAILED"}) /\ MoveCase(a, "EXECUTING")
      BY <2>1 DEF ReplayDeadLetter, MayWrite, CaseIsSerial, Reads, RedriveReads
    <3>. QED  BY <3>1, LegalForOne, TableMoves DEF CaseIs
  <2>2. CASE ~ReplayDeadLetter(a)
    BY <1>1, <1>5, <2>2 DEF Console, OpsReplay, OpsDiscard, OpsConfirm, OpsRefute, OpsResolve
  <2>. QED  BY <2>1, <2>2
<1>6. ASSUME NEW a \in Approvals, Clock(a) \/ AuthorityChanges(a) PROVE Legal
  BY <1>1, <1>6 DEF Clock, Expire, LeaseLapses, RetryDue, AuthorityChanges
<1>7. ASSUME NEW w \in Workers, EffectLands(w) PROVE Legal
  <2>. DEFINE a == worker[w].on
  <2>1. a \in Approvals
    BY <1>7, JobType DEF EffectLands, InCall, Working
  <2>2. CASE a \notin StatusWrites
    BY <1>1, <1>7, <2>2 DEF EffectLands, CaseStays
  <2>3. CASE a \in StatusWrites
    <3>1. MoveCase(a, "RESOLVED") /\ CaseIs(a, {"EXECUTING", "RESOLVED"})
      BY <1>7, <2>3 DEF EffectLands, MayLand, WaitInv, CaseIsSerial, CaseIs
    <3>2. LegalMove(caseStatus[CaseOf[a]], "RESOLVED")
      BY <1>0, <2>1, <3>1, TableMoves DEF CaseIs
    <3>. QED  BY <2>1, <3>1, <3>2, LegalForOne
  <2>. QED  BY <2>2, <2>3
<1>8. ASSUME NEW w \in Workers, EffectReads(w) \/ EffectAbsent(w) \/ Crash(w) \/ Restart(w)
      PROVE  Legal
  BY <1>1, <1>8 DEF EffectReads, EffectAbsent, Crash, Restart
<1>9. ASSUME NEW w \in Workers, NEW a \in Approvals, Claim(w, a) PROVE Legal
  <2>0. Found(w, a) = caseStatus[CaseOf[a]]
    BY DEF Found, WaitInv, CaseIsSerial
  <2>1. CASE ClaimRevokes(w, a)
    BY <1>1, <2>0, <2>1, LegalForOne, TableMoves DEF ClaimRevokes, CaseStays
  <2>2. CASE ClaimAccepts(w, a)
    BY <1>1, <2>0, <2>2, LegalForOne, TableMoves DEF ClaimAccepts, CaseStays
  <2>3. CASE ClaimAborts(w, a) \/ ReadsCase(w, a)
    BY <1>1, <2>3 DEF ClaimAborts, ReadsCase
  <2>. QED  BY <1>9, <2>1, <2>2, <2>3 DEF Claim, SettleClaim
<1>10. ASSUME NEW w \in Workers, NEW a \in Approvals, Complete(w, a) PROVE Legal
  <2>1. CASE CompleteSuccess(w, a)
    <3>1. LegalMove(caseStatus[CaseOf[a]], "RESOLVED") /\ MoveCase(a, "RESOLVED")
      BY <1>0, <2>1, TableMoves DEF CompleteSuccess, CaseIs
    <3>. QED  BY <3>1, LegalForOne
  <2>2. CASE CompleteFailed(w, a)
    BY <1>3, <2>2 DEF CompleteFailed, CaseStatus
  <2>3. CASE ~(CompleteSuccess(w, a) \/ CompleteFailed(w, a))
    BY <1>1, <1>10, <2>3 DEF Complete, CompleteStale, CompleteUnknown, CompleteRetry, CompleteAborts
  <2>. QED  BY <2>1, <2>2, <2>3
<1>11. ASSUME NEW i \in Installations, RevokeInstallation(i) PROVE Legal
  BY <1>1, <1>11 DEF RevokeInstallation
<1>12. CASE UNCHANGED vars
  BY <1>1, <1>12 DEF vars
<1>. QED
  BY <1>4, <1>5, <1>6, <1>7, <1>8, <1>9, <1>10, <1>11, <1>12 DEF Next, CallTool

\* Every commit moves every case along the table of state.py, as long as no
\* planner, request, replay, claim or call of update_case_status writes over a
\* status other than the one it read.  (The code does not see to that: each of
\* them, taken as a read and a write, breaks the table.)
THEOREM MovesAreLegal == CaseIsSerial => (Spec => LegalCaseMoves)
<1>. SUFFICES ASSUME CaseIsSerial PROVE Spec => LegalCaseMoves
  OBVIOUS
<1>1. TypeOK /\ WaitInv /\ [Next]_vars =>
        [\A c \in Cases : LegalMove(caseStatus[c], caseStatus'[c])]_caseStatus
  BY LegalStep
<1>. QED  BY <1>1, TypeCorrect, WaitsOverlap, PTL DEF Spec, LegalCaseMoves

--------------------------------------------------------------------------------
(* One write at a time, and a case that follows it.                        *)

\* Whoever moves a case reads its status, and the approval's, in the step that
\* writes it, and the console offers no replay of its own.
DeskIsSerial == CaseIsSerial /\ "cancel" \notin Overlap /\ NoConsoleReplay

\* The status of the case of one approval follows it.
Tracked(a) ==
  /\ approval[a] \in {"PENDING", "APPROVED"} => CaseIs(a, {"AWAITING_APPROVAL"})
  /\ Unsettled(a) =>
       \/ CaseIs(a, {IF execution[a].tried THEN "EXECUTING" ELSE "AWAITING_APPROVAL"})
       \/ /\ CaseIs(a, {"RESOLVED"})
          /\ \E b \in StatusWrites : CaseOf[b] = CaseOf[a] /\ applied[b]

\* No other write of the case is live.
Alone(a) == \A b \in Approvals : b # a /\ CaseOf[b] = CaseOf[a] => ~Live(b)

CaseInv ==
  /\ OneLivePerCase
  /\ \A a \in Approvals : Tracked(a)
  /\ \A a \in Approvals : execution[a].status = "none" => ~execution[a].tried

\* A live write has its case to itself.
LEMMA LiveIsAlone == \A a \in Approvals : OneLivePerCase /\ Live(a) => Alone(a)
BY DEF OneLivePerCase, Alone

\* A case with a live write is neither open for another one nor failed.
LEMMA LiveCase ==
  ASSUME CaseInv, NEW a \in Approvals, Live(a)
  PROVE  caseStatus[CaseOf[a]] \in {"AWAITING_APPROVAL", "EXECUTING", "RESOLVED"}
BY DEF CaseInv, Tracked, CaseIs, Live

\* A step that concerns one write keeps the invariant: if it makes the write
\* live or moves the case, no other write of the case is live.
LEMMA OneWriteMoves ==
  ASSUME TypeOK, CaseInv, NEW a \in Approvals,
         \A b \in Approvals : b # a => approval'[b] = approval[b] /\ execution'[b] = execution[b],
         applied' = applied,
         \A c \in Cases : c # CaseOf[a] => caseStatus'[c] = caseStatus[c],
         caseStatus'[CaseOf[a]] # caseStatus[CaseOf[a]] => Alone(a),
         Live(a)' => Alone(a),
         Tracked(a)',
         execution'[a].status = "none" => ~execution'[a].tried
  PROVE  CaseInv'
<1>. USE ConstantsAssumption
<1>1. \A b \in Approvals : b # a => (Live(b)' <=> Live(b))
  BY DEF Live, Unsettled
<1>2. OneLivePerCase'
  BY <1>1 DEF OneLivePerCase, CaseInv, Alone
<1>3. ASSUME NEW b \in Approvals, b # a PROVE Tracked(b)'
  <2>1. CASE Live(b)
    <3>1. caseStatus'[CaseOf[b]] = caseStatus[CaseOf[b]]
      BY <1>3, <2>1 DEF Alone
    <3>. QED  BY <1>3, <3>1 DEF CaseInv, Tracked, CaseIs, Unsettled
  <2>2. CASE ~Live(b)
    BY <1>1, <1>3, <2>2 DEF Tracked, Live
  <2>. QED  BY <2>1, <2>2
<1>. QED  BY <1>2, <1>3 DEF CaseInv

\* A step that changes neither decisions, executions, cases nor effects.
LEMMA NothingMoves ==
  ASSUME CaseInv, UNCHANGED <<approval, execution, caseStatus, applied>>
  PROVE  CaseInv'
BY DEF CaseInv, OneLivePerCase, Live, Tracked, CaseIs, Unsettled

\* The decision on a request: the request was live, and it alone.
LEMMA DeskMoves ==
  ASSUME DeskIsSerial, TypeOK, ApprovalInv, CaseInv, NEW a \in Approvals, Desk(a)
  PROVE  CaseInv'
<1>. USE ConstantsAssumption
<1>0. Alone(a) \/ ~Live(a)
  BY LiveIsAlone DEF CaseInv
<1>1. ASSUME NEW h \in Handlers, Begin(h, a) \/ Rollback(h, a) PROVE CaseInv'
  BY <1>1, NothingMoves DEF Begin, Rollback, queue, calls
<1>2. CASE RequestApproval(a)
  <2>1. /\ approval[a] = "NONE" /\ CaseCanMove(a, "AWAITING_APPROVAL")
        /\ execution[a].status = "none" /\ ~execution[a].tried
    BY <1>2 DEF RequestApproval, MayWrite, DeskIsSerial, CaseIsSerial, Reads, RequestReads,
       ApprovalInv, Undecided, CaseInv
  <2>2. Alone(a)
    <3>1. caseStatus[CaseOf[a]] \in {"PLAN_READY", "FAILED"}
      BY <2>1, RequestsComeAfter DEF CaseCanMove, TypeOK
    <3>. QED  BY <3>1, LiveCase DEF Alone
  <2>3. Tracked(a)'
    BY <1>2, <2>1 DEF RequestApproval, MoveCase, Tracked, CaseIs, Unsettled, queue, TypeOK
  <2>4. UNCHANGED <<execution, applied>>
    BY <1>2 DEF RequestApproval, queue, calls
  <2>. QED  BY <1>2, <2>1, <2>2, <2>3, <2>4, OneWriteMoves DEF RequestApproval, MoveCase, TypeOK
<1>3. ASSUME approval[a] = "PENDING", NEW s \in {"REJECTED", "WITHDRAWN", "EXPIRED"},
             approval' = [approval EXCEPT ![a] = s],
             MoveCase(a, "PLAN_READY") \/ CaseStays,
             UNCHANGED <<execution, applied>>
      PROVE  CaseInv'
  <2>1. execution[a].status = "none" /\ Live(a)
    BY <1>3 DEF ApprovalInv, Undecided, Live
  <2>2. Tracked(a)' /\ ~Live(a)'
    BY <1>3, <2>1 DEF Tracked, Live, Unsettled, TypeOK
  <2>3. \A c \in Cases : c # CaseOf[a] => caseStatus'[c] = caseStatus[c]
    BY <1>3 DEF MoveCase, CaseStays, TypeOK
  <2>. QED  BY <1>0, <1>3, <2>1, <2>2, <2>3, OneWriteMoves DEF CaseInv, TypeOK
<1>4. CASE CancelTask(a)
  <2>1. approval[a] = "PENDING"
    BY <1>4 DEF CancelTask, MayWrite, DeskIsSerial, Reads, CancelReads
  <2>. QED  BY <1>3, <1>4, <2>1 DEF CancelTask, queue, calls
<1>5. CASE Reject(a) \/ ExpireOnDecision(a)
  BY <1>3, <1>5 DEF Reject, ExpireOnDecision, Decidable, CaseStays, queue, calls
<1>6. CASE Approve(a)
  <2>1. /\ approval[a] = "PENDING" /\ approval' = [approval EXCEPT ![a] = "APPROVED"]
        /\ UNCHANGED <<caseStatus, execution, applied>>
    BY <1>6 DEF Approve, queue, calls
  <2>2. Tracked(a)' /\ Live(a)
    BY <2>1 DEF CaseInv, Tracked, CaseIs, Unsettled, Live, TypeOK
  <2>. QED  BY <1>0, <2>1, <2>2, OneWriteMoves DEF CaseInv, TypeOK
<1>7. CASE PrepareApprovedWrite(a)
  <2>1. /\ approval[a] = "APPROVED" /\ approval' = [approval EXCEPT ![a] = "CONSUMED"]
        /\ execution' = [execution EXCEPT ![a].status = "PENDING"]
        /\ UNCHANGED <<caseStatus, applied>>
    BY <1>7 DEF PrepareApprovedWrite, calls
  <2>2. Live(a) /\ ~execution[a].tried /\ CaseIs(a, {"AWAITING_APPROVAL"})
    BY <2>1 DEF Live, CaseInv, Tracked, ApprovalInv, Undecided
  <2>3. execution'[a].status = "PENDING" /\ execution'[a].tried = execution[a].tried
    BY <2>1 DEF TypeOK, Execution
  <2>4. Tracked(a)'
    BY <2>1, <2>2, <2>3 DEF Tracked, CaseIs, TypeOK
  <2>. QED  BY <1>0, <2>1, <2>2, <2>3, <2>4, OneWriteMoves DEF TypeOK
<1>8. CASE PlanCase(a)
  <2>1. /\ PlanReads(a) /\ MoveCase(a, "PLAN_READY")
        /\ UNCHANGED <<approval, execution, applied>>
    BY <1>8 DEF PlanCase, MayWrite, DeskIsSerial, CaseIsSerial, Reads, queue, calls
  <2>2. Alone(a) /\ ~Live(a)
    BY <2>1, LiveCase DEF PlanReads, CaseIs, Alone
  <2>3. Tracked(a)' /\ ~Live(a)'
    BY <2>1, <2>2 DEF Tracked, Live, Unsettled
  <2>. QED  BY <2>1, <2>2, <2>3, OneWriteMoves DEF CaseInv, MoveCase, TypeOK
<1>. QED  BY <1>1, <1>2, <1>4, <1>5, <1>6, <1>7, <1>8 DEF Desk

\* An execution that a worker or the console touches belongs to an approval that
\* is decided.
LEMMA TouchedIsDecided ==
  ASSUME ApprovalInv, NEW a \in Approvals, execution[a].status # "none"
  PROVE  approval[a] \notin {"NONE", "PENDING", "APPROVED"}
BY DEF ApprovalInv, Undecided

\* An execution ends: it was live, and its case moves with it or stays.
LEMMA EndMoves ==
  ASSUME TypeOK, ApprovalInv, CaseInv, NEW a \in Approvals,
         execution[a].status # "none",
         Unsettled(a) \/ CaseStays,
         execution'[a].status \in {"SUCCEEDED", "FAILED", "UNKNOWN"},
         \A b \in Approvals : b # a => execution'[b] = execution[b],
         UNCHANGED <<approval, applied>>,
         NEW s, MoveCase(a, s) \/ CaseStays
  PROVE  CaseInv'
<1>. USE ConstantsAssumption
<1>1. approval[a] \notin {"NONE", "PENDING", "APPROVED"}
  BY TouchedIsDecided
<1>2. Tracked(a)' /\ ~Live(a)'
  BY <1>1 DEF Tracked, Live, Unsettled
<1>3. Unsettled(a) => Alone(a)
  BY LiveIsAlone DEF Live, CaseInv
<1>4. \A c \in Cases : c # CaseOf[a] => caseStatus'[c] = caseStatus[c]
  BY DEF MoveCase, CaseStays, TypeOK
<1>5. caseStatus'[CaseOf[a]] # caseStatus[CaseOf[a]] => Alone(a)
  BY <1>3 DEF CaseStays
<1>. QED  BY <1>2, <1>4, <1>5, OneWriteMoves

\* An execution goes on: it was live and stays so, or the failed case of a dead
\* letter is taken up again.
LEMMA GoesOnMoves ==
  ASSUME TypeOK, ApprovalInv, CaseInv, NEW a \in Approvals,
         execution[a].status # "none",
         Unsettled(a) \/ CaseIs(a, {"FAILED"}),
         execution'[a].status \in {"PENDING", "RUNNING"}, execution'[a].tried,
         \A b \in Approvals : b # a => execution'[b] = execution[b],
         UNCHANGED <<approval, applied>>,
         \/ MoveCase(a, "EXECUTING")
         \/ CaseStays /\ (execution[a].tried \/ ~CaseIs(a, {"AWAITING_APPROVAL"})) /\ Unsettled(a)
  PROVE  CaseInv'
<1>. USE ConstantsAssumption
<1>1. approval[a] \notin {"NONE", "PENDING", "APPROVED"}
  BY TouchedIsDecided
<1>2. Alone(a)
  <2>1. CASE Unsettled(a)
    BY <2>1, LiveIsAlone DEF Live, CaseInv
  <2>2. CASE CaseIs(a, {"FAILED"})
    BY <2>2, LiveCase DEF Alone, CaseIs
  <2>. QED  BY <2>1, <2>2
<1>3. Tracked(a)'
  <2>1. CASE MoveCase(a, "EXECUTING")
    BY <1>1, <2>1 DEF Tracked, CaseIs, MoveCase, TypeOK
  <2>2. CASE CaseStays /\ (execution[a].tried \/ ~CaseIs(a, {"AWAITING_APPROVAL"})) /\ Unsettled(a)
    BY <1>1, <2>2 DEF Tracked, CaseIs, CaseStays, CaseInv
  <2>. QED  BY <2>1, <2>2
<1>4. \A c \in Cases : c # CaseOf[a] => caseStatus'[c] = caseStatus[c]
  BY DEF MoveCase, CaseStays, TypeOK
<1>. QED  BY <1>2, <1>3, <1>4, OneWriteMoves

\* The console and the dispatcher's replay.
LEMMA ConsoleMoves ==
  ASSUME DeskIsSerial, TypeOK, ApprovalInv, FenceInv, ClaimInv, CaseInv,
         NEW a \in Approvals, Console(a)
  PROVE  CaseInv'
<1>1. CASE OpsReplay(a) \/ OpsDiscard(a)
  BY <1>1, NothingMoves DEF OpsReplay, OpsDiscard, calls
<1>2. ASSUME NEW h \in {"confirm", "refute"}, NEW s \in {"SUCCEEDED", "FAILED"}, OpsResolve(a, h, s)
      PROVE  CaseInv'
  <2>1. execution[a].status # "none"
    BY <1>2, VerdictIsLate DEF OpsResolve
  <2>2. /\ execution'[a].status = s /\ \A b \in Approvals : b # a => execution'[b] = execution[b]
        /\ UNCHANGED <<approval, applied>> /\ CaseStays
    BY <1>2 DEF OpsResolve, CaseStays, calls, TypeOK, Execution
  <2>. QED  BY <2>1, <2>2, EndMoves
<1>3. CASE ReplayDeadLetter(a)
  <2>1. execution[a].status = "FAILED" /\ execution[a].tried /\ CaseIs(a, {"FAILED"})
    BY <1>3 DEF ReplayDeadLetter, MayWrite, DeskIsSerial, CaseIsSerial, Reads, RedriveReads,
       Redrivable, ClaimInv
  <2>2. /\ execution'[a].status = "PENDING" /\ execution'[a].tried = execution[a].tried
        /\ \A b \in Approvals : b # a => execution'[b] = execution[b]
        /\ UNCHANGED <<approval, applied>> /\ MoveCase(a, "EXECUTING")
    BY <1>3 DEF ReplayDeadLetter, Settle, calls, TypeOK, Execution
  <2>. QED  BY <2>1, <2>2, GoesOnMoves
<1>. QED  BY <1>1, <1>2, <1>3 DEF Console, OpsConfirm, OpsRefute

\* A claim, accepted or refused.
LEMMA ClaimMoves ==
  ASSUME CaseIsSerial, WaitInv, TypeOK, ApprovalInv, FenceInv, ClaimInv, CaseInv,
         NEW w \in Workers, NEW a \in Approvals, Claim(w, a)
  PROVE  CaseInv'
<1>0. Found(w, a) = caseStatus[CaseOf[a]]
  BY DEF Found, WaitInv, CaseIsSerial
<1>1. CASE ClaimAborts(w, a) \/ ReadsCase(w, a)
  BY <1>1, NothingMoves DEF ClaimAborts, ReadsCase, queue
<1>2. ASSUME ClaimRevokes(w, a) \/ ClaimAccepts(w, a) PROVE Unsettled(a)
  BY <1>2 DEF ClaimRevokes, ClaimAccepts, CanClaim, Idles, Claimable, FenceInv, ClaimInv,
     Unsettled
<1>3. CASE ClaimRevokes(w, a)
  <2>1. /\ execution'[a].status = "FAILED"
        /\ \A b \in Approvals : b # a => execution'[b] = execution[b]
        /\ UNCHANGED <<approval, applied>> /\ (MoveCase(a, "FAILED") \/ CaseStays)
    BY <1>3 DEF ClaimRevokes, TypeOK
  <2>. QED  BY <1>2, <1>3, <2>1, EndMoves DEF Unsettled
<1>4. CASE ClaimAccepts(w, a)
  <2>1. /\ execution'[a].status = "RUNNING" /\ execution'[a].tried
        /\ \A b \in Approvals : b # a => execution'[b] = execution[b]
        /\ UNCHANGED <<approval, applied>>
    BY <1>4 DEF ClaimAccepts, TypeOK
  <2>2. \/ MoveCase(a, "EXECUTING")
        \/ CaseStays /\ ~CaseIs(a, {"AWAITING_APPROVAL"})
    BY <1>0, <1>4 DEF ClaimAccepts, CaseIs
  <2>. QED  BY <1>2, <1>4, <2>1, <2>2, GoesOnMoves DEF Unsettled
<1>. QED  BY <1>1, <1>3, <1>4 DEF Claim, SettleClaim

\* A completion.
LEMMA CompleteMoves ==
  ASSUME TypeOK, ApprovalInv, FenceInv, CaseInv,
         \A b \in Approvals : execution[b].status = "RUNNING" => execution[b].tried,
         NEW w \in Workers, NEW a \in Approvals, Complete(w, a)
  PROVE  CaseInv'
<1>1. CASE CompleteStale(w, a) \/ CompleteAborts(w, a)
  BY <1>1, NothingMoves DEF CompleteStale, CompleteAborts, queue
<1>2. ASSUME NEW s \in {"SUCCEEDED", "FAILED", "UNKNOWN"}, NEW t, Settle(a, s), Fenced(w, a),
             UNCHANGED <<approval, applied>>, MoveCase(a, t) \/ CaseStays
      PROVE  CaseInv'
  <2>1. execution'[a].status = s /\ \A b \in Approvals : b # a => execution'[b] = execution[b]
    BY <1>2 DEF Settle, TypeOK, Execution
  <2>. QED  BY <1>2, <2>1, EndMoves DEF Fenced, Unsettled
<1>3. CASE CompleteSuccess(w, a)
  BY <1>2, <1>3 DEF CompleteSuccess
<1>4. CASE CompleteUnknown(w, a)
  BY <1>2, <1>4 DEF CompleteUnknown, CaseStays
<1>5. CASE CompleteFailed(w, a)
  BY <1>2, <1>5 DEF CompleteFailed
<1>6. CASE CompleteRetry(w, a)
  <2>1. /\ execution[a].status = "RUNNING" /\ execution[a].tried
        /\ UNCHANGED <<approval, applied>> /\ CaseStays
    BY <1>6 DEF CompleteRetry, Fenced, CaseStays
  <2>2. /\ execution'[a].status = "PENDING" /\ execution'[a].tried = execution[a].tried
        /\ \A b \in Approvals : b # a => execution'[b] = execution[b]
    BY <1>6 DEF CompleteRetry, Settle, TypeOK, Execution
  <2>. QED  BY <2>1, <2>2, GoesOnMoves DEF Unsettled
<1>. QED  BY <1>1, <1>3, <1>4, <1>5, <1>6 DEF Complete

\* A tool call that takes effect: update_case_status resolves the case under
\* whatever write is live, late calls included.
LEMMA EffectMoves ==
  ASSUME CaseIsSerial, WaitInv, TypeOK, CaseInv, NEW w \in Workers, EffectLands(w)
  PROVE  CaseInv'
<1>. DEFINE a == worker[w].on
<1>. USE ConstantsAssumption
<1>1. /\ a \in Approvals /\ applied' = [applied EXCEPT ![a] = TRUE]
      /\ UNCHANGED <<approval, execution>>
  BY JobType DEF EffectLands, InCall, Working, queue
<1>2. \A b \in Approvals : applied[b] => applied'[b]
  BY <1>1 DEF TypeOK
<1>3. \A b \in Approvals : Live(b)' <=> Live(b)
  BY <1>1 DEF Live, Unsettled
<1>4. ASSUME NEW b \in Approvals PROVE Tracked(b)'
  <2>1. CASE caseStatus'[CaseOf[b]] = caseStatus[CaseOf[b]]
    BY <1>1, <1>2, <2>1 DEF CaseInv, Tracked, CaseIs, Unsettled
  <2>2. CASE caseStatus'[CaseOf[b]] # caseStatus[CaseOf[b]]
    <3>1. /\ a \in StatusWrites /\ CaseOf[b] = CaseOf[a]
          /\ caseStatus[CaseOf[b]] = "EXECUTING" /\ caseStatus'[CaseOf[b]] = "RESOLVED"
      <4>1. ~CaseStays
        BY <2>2 DEF CaseStays
      <4>2. a \in StatusWrites /\ CaseIs(a, {"EXECUTING", "RESOLVED"}) /\ MoveCase(a, "RESOLVED")
        BY <4>1 DEF EffectLands, MayLand, WaitInv, CaseIsSerial, CaseIs
      <4>. HIDE DEF a
      <4>. QED  BY <1>1, <2>2, <4>2 DEF CaseIs, MoveCase, TypeOK
    <3>2. applied'[a]
      BY <1>1 DEF TypeOK
    <3>. QED  BY <1>1, <3>1, <3>2 DEF CaseInv, Tracked, CaseIs, Unsettled
  <2>. QED  BY <2>1, <2>2
<1>5. OneLivePerCase'
  BY <1>3 DEF CaseInv, OneLivePerCase
<1>. QED  BY <1>1, <1>4, <1>5 DEF CaseInv

\* A claim leaves its mark on every execution that runs.
RunningInv == \A a \in Approvals : execution[a].status = "RUNNING" => execution[a].tried

\* Every step keeps it so.
LEMMA RunningStep == TypeOK /\ RunningInv /\ [Next]_vars => RunningInv'
<1>. SUFFICES ASSUME TypeOK, RunningInv, [Next]_vars, NEW a \in Approvals,
                     execution'[a].status = "RUNNING"
              PROVE  execution'[a].tried
  BY DEF RunningInv
<1>1. RowStep(a)
  BY RowSteps
<1>2. ~Completed(a)
  BY DEF Completed, Ends, ExecutionIs
<1>. QED
  BY <1>1, <1>2 DEF RowStep, Untouched, Prepared, Requeued, Discarded, Judged, Replayed, Refused,
     Claimed, SameExecution, ExecutionIs, RunningInv

\* Every step keeps one live write per case, and the case in step with it.
LEMMA CaseStep ==
  ASSUME DeskIsSerial, TypeOK, ApprovalInv, FenceInv, ClaimInv, RunningInv, WaitInv, CaseInv,
         [Next]_vars
  PROVE  CaseInv'
<1>2. ASSUME NEW i \in Installations, RevokeInstallation(i) PROVE CaseInv'
  <2>1. UNCHANGED <<caseStatus, execution, applied>>
    BY <1>2 DEF RevokeInstallation, queue, calls
  <2>2. \A a \in Approvals : approval'[a] \in {approval[a], "EXPIRED"}
    BY <1>2 DEF RevokeInstallation
  <2>3. \A a \in Approvals : Live(a)' => Live(a)
    BY <2>1, <2>2 DEF Live, Unsettled
  <2>4. \A a \in Approvals : Tracked(a)'
    BY <2>1, <2>2 DEF CaseInv, Tracked, CaseIs, Unsettled
  <2>. QED  BY <2>1, <2>3, <2>4 DEF CaseInv, OneLivePerCase
<1>3. ASSUME NEW a \in Approvals, Clock(a) \/ AuthorityChanges(a) PROVE CaseInv'
  BY <1>3, NothingMoves DEF Clock, Expire, LeaseLapses, RetryDue, AuthorityChanges, queue, calls
<1>4. ASSUME NEW w \in Workers, EffectReads(w) \/ EffectAbsent(w) \/ Crash(w) \/ Restart(w)
      PROVE  CaseInv'
  BY <1>4, NothingMoves DEF EffectReads, EffectAbsent, Crash, Restart, queue
<1>5. ASSUME NEW w \in Workers, NEW a \in Approvals, Complete(w, a) PROVE CaseInv'
  BY <1>5, CompleteMoves DEF RunningInv
<1>6. CASE UNCHANGED vars
  BY <1>6, NothingMoves DEF vars, queue, calls
<1>. QED
  BY <1>2, <1>3, <1>4, <1>5, <1>6, DeskMoves, ConsoleMoves, ClaimMoves, EffectMoves
     DEF Next, CallTool, DeskIsSerial

\* The inductive invariant of the case and its writes.
LEMMA CaseInvariant == DeskIsSerial => (Spec => []CaseInv)
<1>. SUFFICES ASSUME DeskIsSerial PROVE Spec => []CaseInv
  OBVIOUS
<1>1. Init => ClaimInv /\ RunningInv /\ CaseInv
  BY DEF Init, ClaimInv, RunningInv, CaseInv, OneLivePerCase, Live, Tracked, CaseIs, Unsettled,
     NoMessage, NoExecution
<1>2. TypeOK /\ ApprovalInv /\ FenceInv /\ WaitInv /\ ClaimInv /\ RunningInv /\ CaseInv
      /\ [Next]_vars => (ClaimInv /\ RunningInv /\ CaseInv)'
  BY ClaimStep, RunningStep, CaseStep DEF DeskIsSerial
<1>. QED  BY <1>1, <1>2, ChainInv, WaitsOverlap, PTL DEF Spec

\* A case never has two undecided or running writes, however many people,
\* agents and workers act on it.
THEOREM OneWriteAtATime == DeskIsSerial => (Spec => []OneLivePerCase)
<1>. SUFFICES ASSUME DeskIsSerial PROVE Spec => []OneLivePerCase
  OBVIOUS
<1>1. CaseInv => OneLivePerCase
  BY DEF CaseInv
<1>. QED  BY <1>1, CaseInvariant, PTL

\* The status of a case follows its live write through decision, dispatch and
\* retry.
THEOREM CaseFollowsWrite == DeskIsSerial => (Spec => []CaseTracksWrite)
<1>. SUFFICES ASSUME DeskIsSerial PROVE Spec => []CaseTracksWrite
  OBVIOUS
<1>1. CaseInv => CaseTracksWrite
  BY DEF CaseInv, Tracked, CaseTracksWrite
<1>. QED  BY <1>1, CaseInvariant, PTL

--------------------------------------------------------------------------------
(* The effects: what a worker did, and what it may report.                 *)

Started(a) == execution[a].status # "none"

\* A worker calls the tool only for a write that was accepted; the effect is
\* in place before a worker is back with "ok", and only for accepted writes.
EffectInv ==
  /\ \A a \in Approvals : applied[a] => Started(a)
  /\ \A w \in Workers : Working(w) => Started(worker[w].on)
  /\ \A w \in Workers :
       worker[w].phase = "returned" /\ worker[w].outcome = "ok" => applied[worker[w].on]

\* An accepted write stays accepted.
LEMMA StartedStays ==
  ASSUME TypeOK, FenceInv, [Next]_vars, NEW a \in Approvals, Started(a)
  PROVE  Started(a)'
<1>1. RowStep(a)
  BY RowSteps
<1>2. CASE Completed(a)
  BY <1>2 DEF Completed, Ends, ExecutionIs, Started
<1>3. CASE ~Completed(a)
  BY <1>1, <1>3 DEF RowStep, Untouched, Prepared, Requeued, Discarded, Judged, Replayed,
     Refused, Claimed, SameExecution, ExecutionIs, Started
<1>. QED  BY <1>2, <1>3

\* Every step keeps effects and reports together.
LEMMA EffectStep == TypeOK /\ FenceInv /\ EffectInv /\ [Next]_vars => EffectInv'
<1>. SUFFICES ASSUME TypeOK, FenceInv, EffectInv, [Next]_vars PROVE EffectInv'
  OBVIOUS
<1>1. \A a \in Approvals : Started(a) => Started(a)'
  BY StartedStays
<1>2. \A w \in Workers : Working(w) => worker[w].on \in Approvals
  BY JobType DEF Working
<1>3. CASE CallsStay
  BY <1>1, <1>2, <1>3 DEF CallsStay, JobsStay, EffectInv, Working
<1>4. ASSUME NEW w \in Workers, NEW a \in Approvals, ClaimAccepts(w, a) PROVE EffectInv'
  <2>1. execution'[a].status = "RUNNING" /\ applied' = applied
    BY <1>4 DEF ClaimAccepts, TypeOK
  <2>2. worker'[w] = Calling(a, message[a].token + 1) /\ \A v \in Workers : v # w => worker'[v] = worker[v]
    BY <1>4 DEF ClaimAccepts, TypeOK
  <2>3. worker'[w].on = a /\ worker'[w].phase = "calling"
    BY <2>2 DEF Calling
  <2>. QED  BY <1>1, <1>2, <2>1, <2>2, <2>3 DEF EffectInv, Working, Started
<1>5. ASSUME NEW w \in Workers, EffectLands(w) PROVE EffectInv'
  <2>. DEFINE a == worker[w].on
  <2>1. a \in Approvals /\ Working(w) /\ Started(a)
    BY <1>2, <1>5 DEF EffectLands, InCall, Working, EffectInv
  <2>2. applied'[a] /\ \A b \in Approvals : b # a => applied'[b] = applied[b]
    BY <1>5, <2>1 DEF EffectLands, TypeOK
  <2>3. worker'[w].on = a /\ \A v \in Workers : v # w => worker'[v] = worker[v]
    BY <1>5 DEF EffectLands, Return, Returned, TypeOK
  <2>. QED  BY <1>1, <1>2, <2>1, <2>2, <2>3 DEF EffectInv, Working
<1>. QED  BY <1>3, <1>4, <1>5, CallSteps

\* What a worker reports has happened, and for an accepted write.
LEMMA EffectsAreAccepted == Spec => []EffectInv
<1>1. Init => EffectInv
  BY DEF Init, EffectInv, Working, Idle
<1>. QED  BY <1>1, EffectStep, ChainInv, PTL DEF Spec

--------------------------------------------------------------------------------
(* A resolved case has had an effect.                                      *)

\* Every step keeps it so: a case becomes RESOLVED in a tool call that takes
\* effect, or in a completion that saw one.
LEMMA ResolvedStep ==
  ASSUME TypeOK, EffectInv, ResolvedHasEffect, [Next]_vars
  PROVE  ResolvedHasEffect'
<1>. USE ConstantsAssumption
<1>1. ASSUME applied' = applied, NEW a \in Approvals, NEW s, s # "RESOLVED" \/ applied[a],
             MoveCase(a, s) \/ CaseStays
      PROVE  ResolvedHasEffect'
  BY <1>1 DEF MoveCase, CaseStays, ResolvedHasEffect, TypeOK
<1>2. CASE applied' = applied /\ caseStatus' = caseStatus
  BY <1>2 DEF ResolvedHasEffect
<1>4. ASSUME NEW w \in Workers, EffectLands(w) PROVE ResolvedHasEffect'
  <2>. DEFINE a == worker[w].on
  <2>1. a \in Approvals
    BY <1>4, JobType DEF EffectLands, InCall, Working
  <2>2. applied' = [applied EXCEPT ![a] = TRUE] /\ (MoveCase(a, "RESOLVED") \/ CaseStays)
    BY <1>4 DEF EffectLands
  <2>. QED  BY <2>1, <2>2 DEF MoveCase, CaseStays, ResolvedHasEffect, TypeOK
<1>5. ASSUME NEW a \in Approvals, Desk(a) PROVE ResolvedHasEffect'
  <2>1. CASE RequestApproval(a)
    BY <1>1, <2>1 DEF RequestApproval, calls
  <2>2. CASE PlanCase(a) \/ CancelTask(a) \/ Reject(a)
    <3>1. applied' = applied /\ (MoveCase(a, "PLAN_READY") \/ CaseStays)
      BY <2>2 DEF PlanCase, CancelTask, Reject, calls
    <3>. QED  BY <1>1, <3>1
  <2>3. CASE ~(PlanCase(a) \/ RequestApproval(a) \/ CancelTask(a) \/ Reject(a))
    BY <1>2, <1>5, <2>3 DEF Desk, Begin, Rollback, Approve, ExpireOnDecision,
       PrepareApprovedWrite, calls
  <2>. QED  BY <2>1, <2>2, <2>3
<1>6. ASSUME NEW a \in Approvals, Console(a) PROVE ResolvedHasEffect'
  BY <1>1, <1>2, <1>6 DEF Console, OpsReplay, OpsDiscard, OpsConfirm, OpsRefute, OpsResolve,
     ReplayDeadLetter, calls
<1>7. ASSUME NEW a \in Approvals, Clock(a) \/ AuthorityChanges(a) PROVE ResolvedHasEffect'
  BY <1>2, <1>7 DEF Clock, Expire, LeaseLapses, RetryDue, AuthorityChanges, calls
<1>8. ASSUME NEW w \in Workers, EffectReads(w) \/ EffectAbsent(w) \/ Crash(w) \/ Restart(w)
      PROVE  ResolvedHasEffect'
  BY <1>2, <1>8 DEF EffectReads, EffectAbsent, Crash, Restart
<1>9. ASSUME NEW w \in Workers, NEW a \in Approvals, Claim(w, a) PROVE ResolvedHasEffect'
  <2>1. CASE ClaimRevokes(w, a)
    BY <1>1, <2>1 DEF ClaimRevokes
  <2>2. CASE ClaimAccepts(w, a)
    BY <1>1, <2>2 DEF ClaimAccepts
  <2>3. CASE ClaimAborts(w, a) \/ ReadsCase(w, a)
    BY <1>2, <2>3 DEF ClaimAborts, ReadsCase
  <2>. QED  BY <1>9, <2>1, <2>2, <2>3 DEF Claim, SettleClaim
<1>10. ASSUME NEW w \in Workers, NEW a \in Approvals, Complete(w, a) PROVE ResolvedHasEffect'
  <2>1. CASE CompleteSuccess(w, a)
    <3>1. applied[a]
      BY <2>1 DEF CompleteSuccess, Completing, EffectInv
    <3>. QED  BY <1>1, <2>1, <3>1 DEF CompleteSuccess
  <2>2. CASE CompleteFailed(w, a)
    BY <1>1, <2>2 DEF CompleteFailed
  <2>3. CASE CompleteStale(w, a) \/ CompleteUnknown(w, a) \/ CompleteRetry(w, a) \/ CompleteAborts(w, a)
    BY <1>2, <2>3 DEF CompleteStale, CompleteUnknown, CompleteRetry, CompleteAborts
  <2>. QED  BY <1>10, <2>1, <2>2, <2>3 DEF Complete
<1>11. ASSUME NEW i \in Installations, RevokeInstallation(i) PROVE ResolvedHasEffect'
  BY <1>2, <1>11 DEF RevokeInstallation, calls
<1>12. CASE UNCHANGED vars
  BY <1>2, <1>12 DEF vars, calls
<1>. QED
  BY <1>4, <1>5, <1>6, <1>7, <1>8, <1>9, <1>10, <1>11, <1>12 DEF Next, CallTool

\* A case is RESOLVED only once some approved write of it has taken effect,
\* whatever overlaps and whatever is replayed.
THEOREM ResolvedMeansDone == Spec => []ResolvedHasEffect
<1>1. Init => ResolvedHasEffect
  BY DEF Init, ResolvedHasEffect
<1>. QED  BY <1>1, ResolvedStep, TypeCorrect, EffectsAreAccepted, PTL DEF Spec

--------------------------------------------------------------------------------
(* Verdicts: a settled write stays settled, unless a replay reopens a      *)
(* failure.                                                                *)

\* Two verdicts on one unknown outcome do not overlap, nor do a replay from the
\* console and one by the dispatcher.
OneOperatorAtATime ==
  /\ {"confirm", "refute"} \cap Overlap = {}
  /\ "replay" \in Overlap /\ "ops" \in Replays => "dispatcher" \notin Replays

\* A message that waits belongs to an execution that waits or has failed, and a
\* replay under way on the console belongs to one that has failed for good.
VerdictInv ==
  \A a \in Approvals :
    /\ message[a].status = "pending" => execution[a].status \in {"PENDING", "FAILED"}
    /\ <<"replay", a>> \in open =>
         /\ "replay" \in Overlap /\ "ops" \in Replays
         /\ execution[a].status = "FAILED" /\ grant[a] # "active"

\* A verdict by hand is on an unknown outcome.
LEMMA JudgedUnknown ==
  ASSUME OneOperatorAtATime, NEW h \in {"confirm", "refute"}, NEW a \in Approvals, MayWrite(h, a)
  PROVE  execution[a].status = "UNKNOWN"
BY DEF OneOperatorAtATime, MayWrite, Reads, UnknownRead

\* Every step keeps it so.
LEMMA VerdictStep ==
  ASSUME OneOperatorAtATime, TypeOK, ApprovalInv, FenceInv, VerdictInv, [Next]_vars
  PROVE  VerdictInv'
<1>. SUFFICES ASSUME NEW a \in Approvals
              PROVE  /\ message'[a].status = "pending" =>
                          execution'[a].status \in {"PENDING", "FAILED"}
                     /\ <<"replay", a>> \in open' =>
                          /\ "replay" \in Overlap /\ "ops" \in Replays
                          /\ execution'[a].status = "FAILED" /\ grant'[a] # "active"
  BY DEF VerdictInv
<1>. DEFINE Waiting == <<"replay", a>> \in open
<1>1. RowStep(a)
  BY RowSteps
<1>2. /\ message'[a].status = "pending" => execution'[a].status \in {"PENDING", "FAILED"}
      /\ Waiting => execution'[a].status = "FAILED" /\ grant'[a] # "active"
  <2>1. CASE Untouched(a)
    BY <2>1 DEF Untouched, SameGrant, SameExecution, MessageIs, VerdictInv
  <2>2. CASE Prepared(a)
    <3>1. ~Waiting
      BY <2>2 DEF Prepared, ApprovalInv, Undecided, Console4
    <3>. QED  BY <2>2, <3>1 DEF Prepared, ExecutionIs, MessageIs
  <2>3. CASE Requeued(a)
    <3>1. execution[a].status = "FAILED" /\ grant[a] # "active"
      BY <2>3 DEF Requeued, MayWrite, Reads, DeadLetterRead, VerdictInv, FenceInv
    <3>. QED  BY <2>3, <3>1 DEF Requeued, SameGrant, SameExecution
  <2>4. CASE Discarded(a)
    BY <2>4 DEF Discarded, SameGrant, SameExecution, MessageIs, VerdictInv
  <2>5. CASE Judged(a)
    <3>1. execution[a].status = "UNKNOWN"
      BY <2>5, JudgedUnknown DEF Judged
    <3>. QED  BY <2>5, <3>1 DEF Judged, MessageIs, VerdictInv
  <2>6. CASE Replayed(a)
    BY <2>6 DEF Replayed, ExecutionIs, MessageIs, VerdictInv, OneOperatorAtATime
  <2>7. CASE Refused(a)
    BY <2>7 DEF Refused, MessageIs
  <2>8. CASE Claimed(a)
    BY <2>8 DEF Claimed, GrantUsable, MessageIs, VerdictInv
  <2>9. CASE Completed(a)
    BY <2>9 DEF Completed, Ends, ExecutionIs, MessageIs, VerdictInv
  <2>. QED  BY <1>1, <2>1, <2>2, <2>3, <2>4, <2>5, <2>6, <2>7, <2>8, <2>9 DEF RowStep
<1>3. ASSUME <<"replay", a>> \in open', ~Waiting
      PROVE  /\ "replay" \in Overlap /\ "ops" \in Replays
             /\ execution'[a].status = "FAILED" /\ grant'[a] # "active"
  <2>1. message[a].status = "dead_letter" /\ UNCHANGED queue /\ "ops" \in Replays
    BY <1>3, OpenSteps DEF Reads, DeadLetterRead
  <2>2. "replay" \in Overlap
    BY <1>3, TypeStep DEF TypeOK
  <2>. QED  BY <2>1, <2>2 DEF queue, FenceInv
<1>. QED  BY <1>2, <1>3 DEF VerdictInv

--------------------------------------------------------------------------------
(* The refinement: decisions, effects and verdicts of ApprovedWrite.       *)

\* A step of the contract, or none.
ContractStep ==
  [Contract!Next]_<<[a \in Approvals |-> DecisionOf(a)], [a \in Approvals |-> VerdictOf(a)], applied>>

\* Nothing the contract speaks of has changed.
LEMMA NoContractStep ==
  ASSUME approval' = approval, execution' = execution, applied' = applied
  PROVE  ContractStep
BY DEF ContractStep, DecisionOf, VerdictOf

\* Requests end, some or none of them.
LEMMA Closing ==
  ASSUME execution' = execution, applied' = applied,
         \A a \in Approvals :
           \/ approval'[a] = approval[a]
           \/ approval[a] = "NONE" /\ approval'[a] = "PENDING"
           \/ approval[a] # "NONE" /\ approval'[a] \in {"REJECTED", "EXPIRED", "WITHDRAWN"}
  PROVE  ContractStep
<1>1. \A a \in Approvals : \/ DecisionOf(a)' = DecisionOf(a)
                           \/ /\ DecisionOf(a) \in {"open", "approved"}
                              /\ DecisionOf(a)' = "closed"
  BY DEF DecisionOf
<1>2. \A a \in Approvals : VerdictOf(a)' = VerdictOf(a)
  BY DEF VerdictOf
<1>3. Contract!Close
  BY <1>1, <1>2 DEF Contract!Close
<1>. QED  BY <1>3 DEF ContractStep, Contract!Next

\* The outcome of one accepted write, and of no other, is reported.
LEMMA Reporting ==
  ASSUME NEW a \in Approvals, Started(a), Started(a)',
         approval' = approval, applied' = applied,
         \A b \in Approvals : b # a => execution'[b] = execution[b],
         NEW from, VerdictOf(a) \in from
  PROVE  Contract!Report(a, from, VerdictOf(a)')
<1>1. \A b \in Approvals : DecisionOf(b)' = DecisionOf(b)
  BY DEF DecisionOf, Started
<1>2. DecisionOf(a) = "accepted"
  BY DEF DecisionOf, Started
<1>3. \A b \in Approvals : b # a => VerdictOf(b)' = VerdictOf(b)
  BY DEF VerdictOf
<1>. QED  BY <1>1, <1>2, <1>3 DEF Contract!Report

\* What a report needs for each verdict.
LEMMA Reported ==
  ASSUME NEW a \in Approvals, Started(a), Started(a)',
         approval' = approval, applied' = applied,
         \A b \in Approvals : b # a => execution'[b] = execution[b],
         \/ VerdictOf(a)' = VerdictOf(a)
         \/ VerdictOf(a) = "none" /\ VerdictOf(a)' \in {"failed", "unknown"}
         \/ VerdictOf(a) = "none" /\ VerdictOf(a)' = "succeeded" /\ applied[a]
         \/ VerdictOf(a) = "unknown" /\ VerdictOf(a)' \in {"succeeded", "failed"}
         \/ VerdictOf(a) = "failed" /\ VerdictOf(a)' = "none"
  PROVE  ContractStep
<1>1. CASE VerdictOf(a)' = VerdictOf(a)
  <2>1. \A b \in Approvals : DecisionOf(b)' = DecisionOf(b) /\ VerdictOf(b)' = VerdictOf(b)
    BY <1>1 DEF DecisionOf, VerdictOf, Started
  <2>. QED  BY <2>1 DEF ContractStep
<1>2. CASE VerdictOf(a) = "none" /\ VerdictOf(a)' \in {"failed", "unknown"}
  <2>1. Contract!Report(a, {"none"}, VerdictOf(a)')
    BY <1>2, Reporting
  <2>2. Contract!Fail(a) \/ Contract!LoseTrack(a)
    BY <1>2, <2>1 DEF Contract!Fail, Contract!LoseTrack
  <2>. QED  BY <2>2 DEF ContractStep, Contract!Next
<1>3. CASE VerdictOf(a) = "none" /\ VerdictOf(a)' = "succeeded" /\ applied[a]
  <2>1. Contract!Report(a, {"none"}, VerdictOf(a)')
    BY <1>3, Reporting
  <2>2. Contract!Succeed(a)
    BY <1>3, <2>1 DEF Contract!Succeed
  <2>. QED  BY <2>2 DEF ContractStep, Contract!Next
<1>4. CASE VerdictOf(a) = "unknown" /\ VerdictOf(a)' \in {"succeeded", "failed"}
  <2>1. Contract!Report(a, {"unknown"}, VerdictOf(a)')
    BY <1>4, Reporting
  <2>2. Contract!Reconcile(a)
    BY <1>4, <2>1 DEF Contract!Reconcile
  <2>. QED  BY <2>2 DEF ContractStep, Contract!Next
<1>5. CASE VerdictOf(a) = "failed" /\ VerdictOf(a)' = "none"
  <2>1. Contract!Report(a, {"failed"}, VerdictOf(a)')
    BY <1>5, Reporting
  <2>2. Contract!Reopen(a)
    BY <1>5, <2>1 DEF Contract!Reopen
  <2>. QED  BY <2>2 DEF ContractStep, Contract!Next
<1>. QED  BY <1>1, <1>2, <1>3, <1>4, <1>5

\* The initial state is the contract's.
LEMMA ContractInit == Init => Contract!Init
BY DEF Init, Contract!Init, DecisionOf, VerdictOf, NoExecution

\* A claimed message's execution is not settled, but for a failure.
LEMMA ClaimedUnsettled ==
  ASSUME FenceInv, VerdictInv, NEW a \in Approvals, Claimable(message[a])
  PROVE  execution[a].status \in {"PENDING", "RUNNING", "FAILED"}
BY DEF Claimable, FenceInv, VerdictInv

\* Every step is a step of the contract, or changes nothing it speaks of.
LEMMA RefinementStep ==
  ASSUME OneOperatorAtATime, TypeOK, ApprovalInv, FenceInv, EffectInv, VerdictInv, [Next]_vars
  PROVE  ContractStep
<1>2. ASSUME NEW i \in Installations, RevokeInstallation(i) PROVE ContractStep
  BY <1>2, Closing DEF RevokeInstallation, queue, calls, TypeOK
<1>3. ASSUME NEW a \in Approvals, Desk(a) PROVE ContractStep
  <2>1. ASSUME NEW h \in Handlers, Begin(h, a) \/ Rollback(h, a) PROVE ContractStep
    BY <2>1, NoContractStep DEF Begin, Rollback, queue, calls
  <2>2. CASE RequestApproval(a)
    <3>1. approval[a] = "NONE"
      BY <2>2, WriterKnows DEF RequestApproval, Handlers
    <3>. QED  BY <2>2, <3>1, Closing DEF RequestApproval, queue, calls, TypeOK
  <2>3. CASE CancelTask(a)
    <3>1. approval[a] # "NONE"
      BY <2>3, WriterKnows DEF CancelTask, Handlers
    <3>. QED  BY <2>3, <3>1, Closing DEF CancelTask, queue, calls, TypeOK
  <2>4. CASE Approve(a)
    <3>1. execution[a].status = "none" /\ execution' = execution /\ applied' = applied
      BY <2>4 DEF Approve, ApprovalInv, Undecided, queue, calls
    <3>2. /\ DecisionOf(a) = "open" /\ DecisionOf(a)' = "approved"
          /\ \A b \in Approvals : b # a => DecisionOf(b)' = DecisionOf(b)
          /\ \A b \in Approvals : VerdictOf(b)' = VerdictOf(b)
      BY <2>4, <3>1 DEF Approve, DecisionOf, VerdictOf, TypeOK
    <3>3. Contract!Approve(a)
      BY <3>1, <3>2 DEF Contract!Approve, Contract!Decide
    <3>. QED  BY <3>3 DEF ContractStep, Contract!Next
  <2>5. CASE Reject(a) \/ ExpireOnDecision(a)
    BY <2>5, Closing DEF Reject, ExpireOnDecision, Decidable, queue, calls, TypeOK
  <2>6. CASE PrepareApprovedWrite(a)
    <3>1. /\ execution[a].status = "none" /\ execution'[a].status = "PENDING"
          /\ \A b \in Approvals : b # a => execution'[b] = execution[b] /\ approval'[b] = approval[b]
          /\ approval[a] = "APPROVED" /\ applied' = applied
      BY <2>6 DEF PrepareApprovedWrite, ApprovalInv, Undecided, calls, TypeOK, Execution
    <3>2. /\ DecisionOf(a) = "approved" /\ DecisionOf(a)' = "accepted"
          /\ VerdictOf(a)' = VerdictOf(a)
          /\ \A b \in Approvals : b # a =>
               DecisionOf(b)' = DecisionOf(b) /\ VerdictOf(b)' = VerdictOf(b)
      BY <3>1 DEF DecisionOf, VerdictOf
    <3>3. Contract!Accept(a)
      BY <3>1, <3>2 DEF Contract!Accept, Contract!Decide
    <3>. QED  BY <3>3 DEF ContractStep, Contract!Next
  <2>7. CASE PlanCase(a)
    BY <2>7, NoContractStep DEF PlanCase, queue, calls
  <2>. QED  BY <1>3, <2>1, <2>2, <2>3, <2>4, <2>5, <2>6, <2>7 DEF Desk
<1>4. ASSUME NEW a \in Approvals, Console(a) PROVE ContractStep
  <2>1. CASE OpsReplay(a) \/ OpsDiscard(a)
    BY <2>1, NoContractStep DEF OpsReplay, OpsDiscard, calls
  <2>2. ASSUME NEW h \in {"confirm", "refute"}, NEW s \in {"SUCCEEDED", "FAILED"},
               OpsResolve(a, h, s)
        PROVE  ContractStep
    <3>1. execution[a].status = "UNKNOWN"
      BY <2>2, JudgedUnknown DEF OpsResolve
    <3>2. /\ execution'[a].status = s /\ approval' = approval /\ applied' = applied
          /\ \A b \in Approvals : b # a => execution'[b] = execution[b]
      BY <2>2 DEF OpsResolve, calls, TypeOK, Execution
    <3>. QED  BY <3>1, <3>2, Reported DEF Started, VerdictOf
  <2>3. CASE ReplayDeadLetter(a)
    <3>1. /\ execution[a].status = "FAILED" /\ execution'[a].status = "PENDING"
          /\ approval' = approval /\ applied' = applied
          /\ \A b \in Approvals : b # a => execution'[b] = execution[b]
      BY <2>3 DEF ReplayDeadLetter, Redrivable, Settle, calls, TypeOK, Execution
    <3>. QED  BY <3>1, Reported DEF Started, VerdictOf
  <2>. QED  BY <1>4, <2>1, <2>2, <2>3 DEF Console, OpsConfirm, OpsRefute
<1>5. ASSUME NEW a \in Approvals, Clock(a) \/ AuthorityChanges(a) PROVE ContractStep
  BY <1>5, NoContractStep DEF Clock, Expire, LeaseLapses, RetryDue, AuthorityChanges, queue, calls
<1>6. ASSUME NEW w \in Workers, EffectLands(w) PROVE ContractStep
  <2>. DEFINE a == worker[w].on
  <2>1. a \in Approvals /\ Started(a)
    BY <1>6, JobType DEF EffectLands, InCall, EffectInv, Working
  <2>2. applied' = [applied EXCEPT ![a] = TRUE] /\ approval' = approval /\ execution' = execution
    BY <1>6 DEF EffectLands, queue
  <2>3. \A b \in Approvals : DecisionOf(b)' = DecisionOf(b) /\ VerdictOf(b)' = VerdictOf(b)
    BY <2>2 DEF DecisionOf, VerdictOf
  <2>4. DecisionOf(a) = "accepted"
    BY <2>1 DEF DecisionOf, Started
  <2>5. Contract!TakeEffect(a)
    BY <2>1, <2>2, <2>3, <2>4 DEF Contract!TakeEffect
  <2>. QED  BY <2>1, <2>5 DEF ContractStep, Contract!Next
<1>7. ASSUME NEW w \in Workers, EffectReads(w) \/ EffectAbsent(w) \/ Crash(w) \/ Restart(w)
      PROVE  ContractStep
  BY <1>7, NoContractStep DEF EffectReads, EffectAbsent, Crash, Restart, queue
<1>8. ASSUME NEW w \in Workers, NEW a \in Approvals, Claim(w, a) PROVE ContractStep
  <2>1. CASE ClaimAborts(w, a) \/ ReadsCase(w, a)
    BY <2>1, NoContractStep DEF ClaimAborts, ReadsCase, queue
  <2>2. CASE ClaimRevokes(w, a) \/ ClaimAccepts(w, a)
    <3>1. execution[a].status \in {"PENDING", "RUNNING", "FAILED"}
      BY <2>2, ClaimedUnsettled DEF ClaimRevokes, ClaimAccepts, CanClaim, Idles
    <3>2. /\ execution'[a].status \in {"FAILED", "RUNNING"}
          /\ approval' = approval /\ applied' = applied
          /\ \A b \in Approvals : b # a => execution'[b] = execution[b]
      <4>1. CASE ClaimRevokes(w, a)
        BY <4>1 DEF ClaimRevokes, TypeOK
      <4>2. CASE ClaimAccepts(w, a)
        BY <4>2 DEF ClaimAccepts, TypeOK
      <4>. QED  BY <2>2, <4>1, <4>2
    <3>. QED  BY <3>1, <3>2, Reported DEF Started, VerdictOf
  <2>. QED  BY <1>8, <2>1, <2>2 DEF Claim, SettleClaim
<1>9. ASSUME NEW w \in Workers, NEW a \in Approvals, Complete(w, a) PROVE ContractStep
  <2>1. CASE CompleteStale(w, a) \/ CompleteAborts(w, a)
    BY <2>1, NoContractStep DEF CompleteStale, CompleteAborts, queue
  <2>2. ASSUME NEW s \in {"SUCCEEDED", "UNKNOWN", "PENDING", "FAILED"}, Settle(a, s),
               Fenced(w, a), approval' = approval, applied' = applied,
               s = "SUCCEEDED" => applied[a]
        PROVE  ContractStep
    <3>1. execution[a].status = "RUNNING"
      BY <2>2 DEF Fenced
    <3>2. execution'[a].status = s /\ \A b \in Approvals : b # a => execution'[b] = execution[b]
      BY <2>2 DEF Settle, TypeOK, Execution
    <3>. QED  BY <2>2, <3>1, <3>2, Reported DEF Started, VerdictOf
  <2>3. CASE CompleteSuccess(w, a)
    <3>1. applied[a]
      BY <2>3 DEF CompleteSuccess, Completing, EffectInv
    <3>. QED  BY <2>2, <2>3, <3>1 DEF CompleteSuccess
  <2>4. CASE CompleteUnknown(w, a)
    BY <2>2, <2>4 DEF CompleteUnknown
  <2>5. CASE CompleteRetry(w, a)
    BY <2>2, <2>5 DEF CompleteRetry
  <2>6. CASE CompleteFailed(w, a)
    BY <2>2, <2>6 DEF CompleteFailed
  <2>. QED  BY <1>9, <2>1, <2>3, <2>4, <2>5, <2>6 DEF Complete
<1>10. CASE UNCHANGED vars
  BY <1>10, NoContractStep DEF vars, queue, calls
<1>. QED
  BY <1>2, <1>3, <1>4, <1>5, <1>6, <1>7, <1>8, <1>9, <1>10 DEF Next, CallTool

\* The chain keeps the contract of ApprovedWrite: nothing is accepted that was
\* not approved, nothing takes effect that was not accepted, and "succeeded" is
\* reported only of what took effect, unless an operator settles it by hand.
THEOREM Refinement == OneOperatorAtATime => (Spec => ImplementsContract)
<1>. SUFFICES ASSUME OneOperatorAtATime PROVE Spec => ImplementsContract
  OBVIOUS
<1>1. Init => VerdictInv
  BY DEF Init, VerdictInv, NoMessage
<1>2. TypeOK /\ ApprovalInv /\ FenceInv /\ VerdictInv /\ [Next]_vars => VerdictInv'
  BY VerdictStep
<1>3. TypeOK /\ ApprovalInv /\ FenceInv /\ EffectInv /\ VerdictInv /\ [Next]_vars =>
        [Contract!Next]_<<[a \in Approvals |-> DecisionOf(a)], [a \in Approvals |-> VerdictOf(a)], applied>>
  BY RefinementStep DEF ContractStep
<1>. QED
  BY <1>1, <1>2, <1>3, ContractInit, ChainInv, EffectsAreAccepted, PTL
     DEF Spec, ImplementsContract, Contract!Spec
================================================================================
