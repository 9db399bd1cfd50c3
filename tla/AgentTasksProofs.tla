---------------------------- MODULE AgentTasksProofs ----------------------------
(***************************************************************************)
(* What holds of AgentTasks for every set of tasks, cases and names, every *)
(* goal and answer, and every bound; and, at the end, of the batches and   *)
(* of the two as MC_Tasks runs them side by side.                          *)
(***************************************************************************)
EXTENDS MC_Tasks, SequenceTheorems, TLAPS

--------------------------------------------------------------------------------
(* The inductive invariant.                                                *)

\* The request can come to no execution any more.
Dead(r) == /\ r.execution = "none"
           /\ r.status \in {"EXPIRED", "WITHDRAWN"} \/ (r.status = "PENDING" /\ r.lapsed)

\* What a final status of a task says of its request.
Fits(s, r) ==
  /\ s = "expired" => Dead(r)
  /\ s = "succeeded" => "SUCCEEDED" \in r.verdicts
  /\ s = "failed" => "FAILED" \in r.verdicts \/ r.status \in {"REJECTED", "EXPIRED"}

\* A task points at a request of its own from its submission on, and only then.
Linked ==
  \A t \in Tasks :
    /\ Status(t) \in Draftish => task[t].request = 0
    /\ Status(t) \in PostSubmit => task[t].request # 0
    /\ HasRequest(t) => task[t].request \in DOMAIN requests
    /\ listing[t] # "idle" => HasRequest(t)

\* A card shows the draft of its version; versions only grow.
CardsAreTrue ==
  \A t \in Tasks : task[t] # NoTask =>
    /\ card[t].version <= task[t].version
    /\ card[t].version = task[t].version => card[t].draft = task[t].draft

\* An execution belongs to a consumed request, whose history has its verdict.
Judged(r) ==
  /\ r.execution # "none" => r.status = "CONSUMED"
  /\ r.execution \in Verdicts => r.execution \in r.verdicts
  /\ r.doubted \/ "FAILED" \in r.verdicts => r.execution # "none"
ExecutionsAreConsumed == \A n \in DOMAIN requests : Judged(requests[n])

\* The request asks for what the draft on the card comes to, the hidden id included.
AsDrafted ==
  \A t \in Tasks : HasRequest(t) =>
    /\ card[t].draft = task[t].draft
    /\ Carries(RequestOf(t), ApprovalParams(t))

\* The hidden id is a member whom a version of the draft named; an owner change that names
\* somebody has the id of that one.
OwnerNamed(row) ==
  row.draft.ownerId # NoName =>
    /\ row.draft.ownerId \in row.named \cap Members
    /\ row.kind = "owner_change" /\ row.draft.owner # NoName => row.draft.ownerId = row.draft.owner
OwnersNamed == \A t \in Tasks : task[t] # NoTask => OwnerNamed(task[t])

\* What a task shows, and what a list_tasks is about to write, fits its request.
StatusesFit ==
  \A t \in Tasks : HasRequest(t) => Fits(Status(t), RequestOf(t)) /\ Fits(listing[t], RequestOf(t))

TaskInv == /\ TypeOK /\ Linked /\ CardsAreTrue /\ OwnersNamed
           /\ ExecutionsAreConsumed /\ AsDrafted /\ StatusesFit

--------------------------------------------------------------------------------
(* Operators.                                                              *)

\* A row of a table takes a new value.
LEMMA RowSet ==
  ASSUME NEW I, NEW T, NEW f \in [I -> T], NEW i \in I, NEW row \in T,
         NEW g, g = [f EXCEPT ![i] = row]
  PROVE  g \in [I -> T] /\ g[i] = row /\ \A j \in I : j # i => g[j] = f[j]
OBVIOUS

\* A list of rows, one of which takes a new value.
LEMMA ListSet ==
  ASSUME NEW S, NEW rows \in Seq(S), NEW n \in DOMAIN rows, NEW row \in S,
         NEW list, list = [rows EXCEPT ![n] = row]
  PROVE  /\ list \in Seq(S) /\ Len(list) = Len(rows) /\ DOMAIN list = DOMAIN rows
         /\ list[n] = row /\ \A m \in DOMAIN rows : m # n => list[m] = rows[m]
BY ExceptSeq

\* A task that exists is a row of the table.
LEMMA TaskRow ==
  ASSUME TypeOK, NEW t \in Tasks
  PROVE  /\ task[t] # NoTask => task[t] \in Task
         /\ task[t] = NoTask => Status(t) = "none"
         /\ Status(t) # "none" => task[t] # NoTask /\ task[t] \in Task
BY DEF TypeOK, NoTask, Status

\* What a task shows of its request: a status past its submission, that fits.
LEMMA ProjectionFits ==
  ASSUME NEW s \in {"awaiting_approval", "queued", "running"}, NEW r \in Request,
         Judged(r)
  PROVE  /\ Projection(s, r) \in PostSubmit \cup {"expired"}
         /\ Fits(Projection(s, r), r)
<1>1. /\ Advance(s, "failed") \in {s, "failed"} /\ Advance(s, "queued") \in {s, "queued"}
      /\ \A x : Advance(s, x) \in {s, x}
  BY DEF Advance
<1>2. r.lapsed \in BOOLEAN
  BY DEF Request
<1>3. DOMAIN ExecutionShows = {"PENDING", "RUNNING", "SUCCEEDED", "FAILED"}
  BY DEF ExecutionShows
<1>0. r.execution # "none" => r.status = "CONSUMED"
  BY DEF Judged
<1>4. CASE r.status = "PENDING"
  <2>1. r.execution = "none"
    BY <1>0, <1>4
  <2>2. Projection(s, r) = IF r.lapsed /\ s = "awaiting_approval" THEN "expired" ELSE s
    BY <1>3, <1>4, <2>1 DEF Projection, PastDeadline
  <2>. QED  BY <1>2, <1>4, <2>1, <2>2 DEF Fits, Dead, PostSubmit
<1>5. CASE r.status = "REJECTED"
  <2>1. r.execution = "none"
    BY <1>0, <1>5
  <2>2. Projection(s, r) = Advance(s, "failed")
    BY <1>3, <1>5, <2>1 DEF Projection
  <2>. QED  BY <1>1, <1>5, <2>2 DEF Fits, PostSubmit
<1>6. CASE r.status = "EXPIRED"
  <2>1. r.execution = "none"
    BY <1>0, <1>6
  <2>2. Projection(s, r) = IF CanMove(s, "expired") THEN "expired" ELSE Advance(s, "failed")
    BY <1>3, <1>6, <2>1 DEF Projection
  <2>. QED  BY <1>1, <1>6, <2>1, <2>2 DEF Fits, Dead, PostSubmit
<1>7. CASE r.status = "APPROVED"
  <2>1. r.execution = "none"
    BY <1>0, <1>7
  <2>2. Projection(s, r) = Advance(s, "queued")
    BY <1>3, <1>7, <2>1 DEF Projection
  <2>. QED  BY <1>1, <2>2 DEF Fits, PostSubmit
<1>8. CASE r.status \in {"WITHDRAWN", "CONSUMED"} /\ r.execution \in DOMAIN ExecutionShows
  <2>1. Projection(s, r) = Advance(s, ExecutionShows[r.execution])
    BY <1>3, <1>8 DEF Projection
  <2>2. /\ ExecutionShows[r.execution] \in {"running", "succeeded", "failed"}
        /\ ExecutionShows[r.execution] = "succeeded" => "SUCCEEDED" \in r.verdicts
        /\ ExecutionShows[r.execution] = "failed" => "FAILED" \in r.verdicts
    BY <1>3, <1>8 DEF ExecutionShows, Judged, Verdicts
  <2>. QED  BY <1>1, <2>1, <2>2 DEF Fits, PostSubmit
<1>9. CASE r.status \in {"WITHDRAWN", "CONSUMED"} /\ r.execution \notin DOMAIN ExecutionShows
  <2>1. Projection(s, r) = s
    BY <1>9 DEF Projection
  <2>. QED  BY <2>1 DEF Fits, PostSubmit
<1>. QED  BY <1>4, <1>5, <1>6, <1>7, <1>8, <1>9 DEF Request

--------------------------------------------------------------------------------
(* A request moves: the tasks that point at it still show what is true.    *)

\* What a request may become.
Later(r, q) ==
  /\ q.case = r.case /\ q.kind = r.kind /\ q.owner = r.owner
  /\ Dead(r) => Dead(q)
  /\ r.verdicts \subseteq q.verdicts
  /\ r.status \in {"REJECTED", "EXPIRED"} => q.status = r.status
  /\ Judged(q)

\* A request moves so, and everything said of the tasks stays true.
LEMMA RequestMoves ==
  ASSUME TaskInv, NEW n \in DOMAIN requests, NEW row \in Request, Later(requests[n], row),
         requests' = [requests EXCEPT ![n] = row],
         cases' \in [Cases -> CaseStatus], UNCHANGED <<sensitive, task, card, listing>>
  PROVE  TaskInv'
<1>1. /\ requests' \in Seq(Request) /\ Len(requests') = Len(requests)
      /\ DOMAIN requests' = DOMAIN requests
      /\ requests'[n] = row /\ \A m \in DOMAIN requests : m # n => requests'[m] = requests[m]
  BY ListSet DEF TaskInv, TypeOK
<1>2. TypeOK'
  BY <1>1 DEF TaskInv, TypeOK
<1>3. Linked'
  BY <1>1 DEF TaskInv, Linked, Status, HasRequest
<1>4. CardsAreTrue' /\ OwnersNamed'
  BY DEF TaskInv, CardsAreTrue, OwnersNamed, OwnerNamed
<1>5. ExecutionsAreConsumed'
  BY <1>1 DEF TaskInv, ExecutionsAreConsumed, Later, Judged
<1>6. ASSUME NEW t \in Tasks, HasRequest(t)
      PROVE  /\ Fits(Status(t), RequestOf(t))' /\ Fits(listing[t], RequestOf(t))'
             /\ (card[t].draft = task[t].draft)' /\ Carries(RequestOf(t), ApprovalParams(t))'
  <2>1. task[t].request \in DOMAIN requests
    BY <1>6 DEF TaskInv, Linked
  <2>2. /\ Fits(Status(t), RequestOf(t)) /\ Fits(listing[t], RequestOf(t))
        /\ card[t].draft = task[t].draft /\ Carries(RequestOf(t), ApprovalParams(t))
    BY <1>6 DEF TaskInv, StatusesFit, AsDrafted
  <2>3. CASE task[t].request # n
    BY <1>1, <2>1, <2>2, <2>3 DEF RequestOf, Status, Fits, Carries, ApprovalParams
  <2>4. CASE task[t].request = n
    <3>1. RequestOf(t) = requests[n] /\ RequestOf(t)' = row
      BY <1>1, <2>4 DEF RequestOf
    <3>. QED  BY <2>2, <3>1 DEF Later, Status, Fits, Carries, ApprovalParams
  <2>. QED  BY <2>3, <2>4
<1>7. AsDrafted' /\ StatusesFit'
  BY <1>6 DEF AsDrafted, StatusesFit, HasRequest
<1>. QED  BY <1>2, <1>3, <1>4, <1>5, <1>7 DEF TaskInv

\* A request's fields, one of which is written, are a request's fields.
LEMMA RequestWritten ==
  ASSUME NEW r \in Request,
         NEW s \in {"PENDING", "APPROVED", "REJECTED", "EXPIRED", "WITHDRAWN", "CONSUMED"},
         NEW e \in {"none", "PENDING", "RUNNING", "SUCCEEDED", "FAILED", "UNKNOWN"}
  PROVE  /\ [r EXCEPT !.status = s] \in Request
         /\ [r EXCEPT !.lapsed = TRUE] \in Request
         /\ [r EXCEPT !.status = s] \in Request
         /\ [r EXCEPT !.status = s, !.execution = e] \in Request
BY DEF Request

\* The case of a request goes to another status.
LEMMA CaseWritten ==
  ASSUME TypeOK, NEW c \in Cases, NEW s \in CaseStatus
  PROVE  [cases EXCEPT ![c] = s] \in [Cases -> CaseStatus]
BY DEF TypeOK

\* A claim, a verdict or a replay takes the case to a status of a case.
LEMMA ExecutionSetsCase ==
  ASSUME TypeOK, NEW n, requests[n].case \in Cases, Execute(n)
  PROVE  cases' \in [Cases -> CaseStatus]
<1>. DEFINE found == cases[requests[n].case]
<1>1. cases \in [Cases -> CaseStatus] /\ found \in CaseStatus
  BY DEF TypeOK
<1>2. {"EXECUTING", "RESOLVED", "FAILED"} \subseteq CaseStatus
  BY DEF CaseStatus
<1>3. \A s \in CaseStatus : CaseBecomes(n, s) => cases' \in [Cases -> CaseStatus]
  BY <1>1 DEF CaseBecomes
<1>4. CASE ClaimWrite(n)
  <2>1. \/ CaseBecomes(n, IF found = "AWAITING_APPROVAL" THEN "EXECUTING" ELSE found)
        \/ CaseBecomes(n, IF found \in {"AWAITING_APPROVAL", "EXECUTING"} THEN "FAILED" ELSE found)
    BY <1>4 DEF ClaimWrite
  <2>. QED  BY <1>1, <1>2, <1>3, <2>1
<1>5. CASE CompleteWrite(n)
  <2>1. CaseBecomes(n, "RESOLVED") \/ CaseBecomes(n, "FAILED") \/ UNCHANGED cases
    BY <1>5 DEF CompleteWrite
  <2>. QED  BY <1>1, <1>2, <1>3, <2>1
<1>6. CASE ReplayWrite(n)
  BY <1>2, <1>3, <1>6 DEF ReplayWrite
<1>7. CASE ResolveUnknown(n)
  BY <1>1, <1>7 DEF ResolveUnknown
<1>. QED  BY <1>4, <1>5, <1>6, <1>7 DEF Execute

\* The clock, the reviewers, the writer and the worker.
LEMMA ChainMoves ==
  ASSUME TaskInv, NEW n \in DOMAIN requests,
         RequestLapses(n) \/ Decide(n) \/ Consume(n) \/ Execute(n)
  PROVE  TaskInv'
<1>. DEFINE r == requests[n]
<1>1. /\ r \in Request /\ Judged(r)
      /\ cases \in [Cases -> CaseStatus] /\ r.case \in Cases /\ r.lapsed \in BOOLEAN
  <2>1. r \in Request /\ Judged(r) /\ cases \in [Cases -> CaseStatus]
    BY DEF TaskInv, TypeOK, ExecutionsAreConsumed
  <2>. QED  BY <2>1 DEF Request
<1>2. CASE RequestLapses(n)
  <2>. DEFINE row == [r EXCEPT !.lapsed = TRUE]
  <2>1. row \in Request /\ requests' = [requests EXCEPT ![n] = row]
    BY <1>1, <1>2, RequestWritten DEF RequestLapses
  <2>2. Later(r, row)
    BY <1>1 DEF Later, Dead, Judged, Request
  <2>. QED  BY <1>1, <1>2, <2>1, <2>2, RequestMoves DEF RequestLapses
<1>3. CASE Decide(n)
  <2>1. PICK s \in {"APPROVED", "REJECTED", "EXPIRED"} :
          /\ requests' = [requests EXCEPT ![n].status = s]
          /\ r.status \in {"PENDING", "APPROVED"}
          /\ s # "EXPIRED" => r.status = "PENDING" /\ ~r.lapsed
          /\ cases' = cases \/ cases' = [cases EXCEPT ![r.case] = "PLAN_READY"]
          /\ UNCHANGED <<sensitive, task, card, listing>>
    BY <1>3 DEF Decide
  <2>. DEFINE row == [r EXCEPT !.status = s]
  <2>2. row \in Request /\ requests' = [requests EXCEPT ![n] = row]
    BY <1>1, <2>1, RequestWritten
  <2>3. Later(r, row)
    BY <1>1, <2>1 DEF Later, Dead, Judged, Request
  <2>4. cases' \in [Cases -> CaseStatus]
    BY <1>1, <2>1, CaseWritten DEF TaskInv, CaseStatus
  <2>. QED  BY <2>1, <2>2, <2>3, <2>4, RequestMoves
<1>4. CASE Consume(n)
  <2>. DEFINE row == [r EXCEPT !.status = "CONSUMED", !.execution = "PENDING"]
  <2>1. row \in Request /\ requests' = [requests EXCEPT ![n] = row]
    BY <1>1, <1>4, RequestWritten DEF Consume
  <2>2. Later(r, row)
    BY <1>1, <1>4 DEF Consume, Later, Dead, Judged, Verdicts, Request
  <2>. QED  BY <1>1, <1>4, <2>1, <2>2, RequestMoves DEF Consume
<1>5. CASE Execute(n)
  <2>1. r.execution # "none"
    BY <1>1, <1>5 DEF Execute, ClaimWrite, CompleteWrite, ReplayWrite, ResolveUnknown, Judged
  <2>2. PICK e \in {"PENDING", "RUNNING", "SUCCEEDED", "FAILED", "UNKNOWN"} :
          ExecutionBecomes(n, e)
    BY <1>5 DEF Execute, ClaimWrite, CompleteWrite, ReplayWrite, ResolveUnknown, Verdicts
  <2>. DEFINE row == [r EXCEPT !.execution = e, !.doubted = @ \/ e = "UNKNOWN",
                               !.verdicts = @ \cup (Verdicts \cap {e})]
  <2>3. row \in Request /\ requests' = [requests EXCEPT ![n] = row]
    BY <1>1, <2>2 DEF ExecutionBecomes, Request, Verdicts
  <2>4. Later(r, row)
    BY <1>1, <2>1, <2>2 DEF Later, Dead, Judged, Request, Verdicts
  <2>5. cases' \in [Cases -> CaseStatus]
    BY <1>1, <1>5, ExecutionSetsCase DEF TaskInv
  <2>. QED  BY <1>5, <2>3, <2>4, <2>5, RequestMoves DEF Execute
<1>. QED  BY <1>2, <1>3, <1>4, <1>5

\* Withdrawal of a submitted task.
LEMMA Withdrawal ==
  ASSUME TaskInv, NEW t \in Tasks, CancelSubmitted(t)
  PROVE  TaskInv'
<1>. DEFINE n == task[t].request
            r == requests[n]
            row == [r EXCEPT !.status = "WITHDRAWN"]
<1>1. n \in DOMAIN requests
  <2>1. Status(t) = "awaiting_approval"
    BY DEF CancelSubmitted
  <2>2. HasRequest(t)
    BY <2>1, TaskRow DEF TaskInv, Linked, HasRequest, PostSubmit
  <2>. QED  BY <2>2 DEF TaskInv, Linked
<1>2. r \in Request /\ r.status = "PENDING" /\ Judged(r)
  BY <1>1 DEF TaskInv, TypeOK, ExecutionsAreConsumed, CancelSubmitted, RequestOf
<1>3. row \in Request /\ requests' = [requests EXCEPT ![n] = row]
  BY <1>2, RequestWritten DEF CancelSubmitted
<1>4. Later(r, row)
  BY <1>2 DEF Later, Dead, Judged, Request
<1>5. cases' \in [Cases -> CaseStatus]
  BY CaseWritten, AgentTasksAssumption DEF CancelSubmitted, TaskInv, TypeOK, CaseStatus
<1>. QED  BY <1>1, <1>3, <1>4, <1>5, RequestMoves DEF CancelSubmitted

--------------------------------------------------------------------------------
(* A draft moves, is submitted, and then shows what became of its request. *)

\* A task without a request goes to another draft, or ends.
LEMMA DraftMoves ==
  ASSUME TaskInv, NEW t \in Tasks, ~HasRequest(t), NEW row \in Task,
         row.request = 0, row.status \in Draftish \cup {"cancelled", "expired"}, OwnerNamed(row),
         task' = [task EXCEPT ![t] = row],
         \/ card' = [card EXCEPT ![t] = [version |-> row.version, draft |-> row.draft]]
         \/ /\ UNCHANGED card
            /\ card[t].version <= row.version
            /\ card[t].version = row.version => card[t].draft = row.draft,
         UNCHANGED <<sensitive, cases, requests, listing>>
  PROVE  TaskInv'
<1>1. /\ task \in [Tasks -> Task \cup {NoTask}] /\ card \in [Tasks -> Card \cup {NoCard}]
      /\ listing[t] = "idle"
  BY DEF TaskInv, TypeOK, Linked
<1>2. /\ task' \in [Tasks -> Task \cup {NoTask}]
      /\ task'[t] = row /\ \A u \in Tasks : u # t => task'[u] = task[u]
  BY <1>1
<1>3. /\ card' \in [Tasks -> Card \cup {NoCard}]
      /\ \A u \in Tasks : u # t => card'[u] = card[u]
      /\ card'[t].version <= row.version
      /\ card'[t].version = row.version => card'[t].draft = row.draft
  <2>1. /\ row.version \in 1..MaxVersion /\ row.draft \in Drafts
        /\ 1..MaxVersion \subseteq Int
    BY AgentTasksAssumption DEF Task
  <2>2. [version |-> row.version, draft |-> row.draft] \in Card
    BY <2>1 DEF Card
  <2>. QED  BY <1>1, <2>1, <2>2
<1>4. TypeOK'
  BY <1>2, <1>3 DEF TaskInv, TypeOK
<1>5. ~HasRequest(t)' /\ \A u \in Tasks : u # t => (HasRequest(u)' <=> HasRequest(u))
  BY <1>2 DEF HasRequest
<1>6. Linked'
  BY <1>1, <1>2, <1>5 DEF TaskInv, Linked, Status, Draftish, PostSubmit
<1>7. CardsAreTrue' /\ OwnersNamed'
  BY <1>2, <1>3 DEF TaskInv, CardsAreTrue, OwnersNamed, OwnerNamed
<1>8. ExecutionsAreConsumed'
  BY DEF TaskInv, ExecutionsAreConsumed, Judged
<1>9. AsDrafted'
  BY <1>2, <1>3, <1>5 DEF TaskInv, AsDrafted, RequestOf, ApprovalParams, Carries
<1>10. StatusesFit'
  BY <1>2, <1>5 DEF TaskInv, StatusesFit, RequestOf, Status
<1>. QED  BY <1>4, <1>6, <1>7, <1>8, <1>9, <1>10 DEF TaskInv

\* Before its submission a task has no request.
LEMMA DraftHasNoRequest ==
  ASSUME TaskInv, NEW t \in Tasks, Status(t) \in Draftish
  PROVE  /\ task[t] \in Task /\ task[t].request = 0 /\ ~HasRequest(t) /\ OwnerNamed(task[t])
         /\ card[t].version <= task[t].version
         /\ card[t].version = task[t].version => card[t].draft = task[t].draft
<1>1. task[t] # NoTask /\ task[t] \in Task
  BY TaskRow DEF TaskInv, Draftish
<1>. QED  BY <1>1 DEF TaskInv, Linked, HasRequest, CardsAreTrue, OwnersNamed

\* Preparation, and an answer to what was missing.
LEMMA Editing ==
  ASSUME TaskInv, NEW t \in Tasks, Prepare(t) \/ ProvideInput(t)
  PROVE  TaskInv'
<1>1. ASSUME NEW m  PROVE Readiness(m) \in Draftish
  BY DEF Readiness, Draftish
<1>2. ASSUME NEW k, NEW d  PROVE Missing(k, d) \subseteq {"case_ref", "owner"}
  BY DEF Missing
<1>3. CASE Prepare(t)
  <2>1. PICK goal \in Goals[t] :
          task' = [task EXCEPT ![t] =
            [status |-> Readiness(Missing(goal[1], goal[2])), kind |-> goal[1], version |-> 1,
             draft |-> goal[2], missing |-> Missing(goal[1], goal[2]),
             lapsed |-> FALSE, request |-> 0, named |-> {goal[2].owner}]]
    BY <1>3 DEF Prepare, SetTask
  <2>. DEFINE row == [status |-> Readiness(Missing(goal[1], goal[2])), kind |-> goal[1],
                      version |-> 1, draft |-> goal[2], missing |-> Missing(goal[1], goal[2]),
                      lapsed |-> FALSE, request |-> 0, named |-> {goal[2].owner}]
  <2>2. goal[1] \in Kinds /\ goal[2] \in Drafts /\ goal[2].ownerId = NoName
    BY AgentTasksAssumption
  <2>3. row \in Task /\ row.request = 0 /\ row.status \in Draftish
    BY <1>1, <1>2, <2>2, AgentTasksAssumption DEF Task, TaskStatus, Drafts
  <2>7. OwnerNamed(row)
    BY <2>2 DEF OwnerNamed
  <2>4. task'[t] = row
    BY <2>1 DEF TaskInv, TypeOK
  <2>5. card' = [card EXCEPT ![t] = [version |-> row.version, draft |-> row.draft]]
    BY <1>3, <2>4 DEF Prepare, Show
  <2>6. ~HasRequest(t)
    BY <1>3 DEF Prepare, HasRequest
  <2>. HIDE DEF row
  <2>. QED  BY <1>3, <2>1, <2>3, <2>5, <2>6, <2>7, DraftMoves DEF Prepare, row
<1>4. CASE ProvideInput(t)
  <2>0. /\ task[t] \in Task /\ task[t].request = 0 /\ ~HasRequest(t)
        /\ card[t].version <= task[t].version /\ OwnerNamed(task[t])
    BY <1>4, DraftHasNoRequest DEF ProvideInput, Editable
  <2>. DEFINE Draft(a) == IF a = "case_ref" THEN [task[t].draft EXCEPT !.caseRef = TRUE]
                          ELSE [task[t].draft EXCEPT !.owner = a]
              Resolved(a) == [Draft(a) EXCEPT !.ownerId = ResolvedOwner(t, Draft(a))]
              Left(a) == task[t].missing \cap Missing(task[t].kind, Draft(a))
              Row(a) == [task[t] EXCEPT !.draft = Resolved(a), !.missing = Left(a),
                                        !.version = @ + 1, !.status = Readiness(Left(a)),
                                        !.named = @ \cup {Draft(a).owner}]
  <2>1. PICK a \in Answers[t] : task' = [task EXCEPT ![t] = Row(a)]
    BY <1>4 DEF ProvideInput, SetTask
  <2>2. a = "case_ref" \/ a \in Names \cup {NoName}
    BY AgentTasksAssumption
  <2>3. Draft(a) \in Drafts
    BY <2>0, <2>2 DEF Task, Drafts
  <2>4. ResolvedOwner(t, Draft(a)) \in Names \cup {NoName}
    <3>. HIDE DEF Draft
    <3>. QED  BY <2>3, AgentTasksAssumption DEF ResolvedOwner, Resolve, Drafts
  <2>5. Resolved(a) \in Drafts
    <3>. HIDE DEF Draft
    <3>. QED  BY <2>3, <2>4 DEF Drafts
  <2>6. /\ Row(a).status \in Draftish /\ Row(a).request = 0
        /\ Row(a).version = task[t].version + 1 /\ Row(a) \in Task
    <3>0. Draft(a).owner \in Names \cup {NoName}
      BY <2>3 DEF Drafts
    <3>. HIDE DEF Resolved, Draft
    <3>1. task[t].version \in 1..MaxVersion /\ task[t].version < MaxVersion
      BY <1>4, <2>0 DEF Task, ProvideInput
    <3>2. Left(a) \subseteq {"case_ref", "owner"} /\ Readiness(Left(a)) \in Draftish
      BY <1>1, <1>2
    <3>3. task[t].version + 1 \in 1..MaxVersion
      BY <3>1, AgentTasksAssumption
    <3>. HIDE DEF Left
    <3>. QED  BY <1>1, <2>0, <2>5, <3>0, <3>2, <3>3 DEF Task, TaskStatus
  <2>11. OwnerNamed(Row(a))
    <3>. DEFINE o == Draft(a).owner
                id == Resolved(a).ownerId
                k == task[t].kind
    <3>1. /\ id = ResolvedOwner(t, Draft(a)) /\ Resolved(a).owner = o
          /\ Draft(a).ownerId = task[t].draft.ownerId
      <4>1. Resolved(a) = [Draft(a) EXCEPT !.ownerId = ResolvedOwner(t, Draft(a))]
        OBVIOUS
      <4>2. Draft(a).ownerId = task[t].draft.ownerId
        BY <2>0 DEF Task, Drafts
      <4>. HIDE DEF Draft, Resolved
      <4>. QED  BY <2>3, <4>1, <4>2 DEF Drafts
    <3>2. /\ Row(a).draft = Resolved(a) /\ Row(a).named = task[t].named \cup {o}
          /\ Row(a).kind = k
      <4>. HIDE DEF Draft, Resolved, Left
      <4>. QED  BY <2>0 DEF Task
    <3>. HIDE DEF Draft, Resolved, Row
    <3>3. CASE o = NoName \/ (k = "followup" /\ Draft(a).ownerId # NoName)
      <4>1. id = task[t].draft.ownerId
        BY <3>1, <3>3 DEF ResolvedOwner
      <4>2. id # NoName => id \in task[t].named \cap Members
        BY <2>0, <4>1 DEF OwnerNamed
      <4>. QED  BY <3>1, <3>2, <3>3, <4>2 DEF OwnerNamed
    <3>4. CASE ~(o = NoName \/ (k = "followup" /\ Draft(a).ownerId # NoName))
      <4>1. id = IF o \in Members THEN o ELSE NoName
        BY <3>1, <3>4 DEF ResolvedOwner, Resolve
      <4>. QED  BY <3>1, <3>2, <4>1 DEF OwnerNamed
    <3>. QED  BY <3>3, <3>4
  <2>. HIDE DEF Row
  <2>7. task'[t] = Row(a)
    BY <2>1 DEF TaskInv, TypeOK
  <2>8. card[t].version <= Row(a).version /\ card[t].version # Row(a).version
    <3>1. task[t].version \in 1..MaxVersion
      BY <2>0 DEF Task
    <3>2. card[t].version \in Int
      BY AgentTasksAssumption DEF TaskInv, TypeOK, Card, NoCard
    <3>. QED  BY <2>0, <2>6, <3>1, <3>2, AgentTasksAssumption
  <2>9. \/ card' = [card EXCEPT ![t] = [version |-> Row(a).version, draft |-> Row(a).draft]]
        \/ UNCHANGED card
    BY <1>4, <2>7 DEF ProvideInput, Show
  <2>10. UNCHANGED <<sensitive, cases, requests, listing>>
    BY <1>4 DEF ProvideInput
  <2>. QED  BY <2>0, <2>1, <2>6, <2>8, <2>9, <2>10, <2>11, DraftMoves
<1>. QED  BY <1>3, <1>4

\* A draft lapses, expires, is cancelled, or is read once more.
LEMMA DraftEnds ==
  ASSUME TaskInv, NEW t \in Tasks,
         DraftLapses(t) \/ ExpireDraft(t) \/ CancelDraft(t) \/ ReadCard(t)
  PROVE  TaskInv'
<1>1. Status(t) \in Draftish
  BY DEF DraftLapses, ExpireDraft, CancelDraft, Editable, ReadCard
<1>2. /\ task[t] \in Task /\ task[t].request = 0 /\ ~HasRequest(t) /\ OwnerNamed(task[t])
      /\ card[t].version <= task[t].version
      /\ card[t].version = task[t].version => card[t].draft = task[t].draft
  BY <1>1, DraftHasNoRequest
<1>3. CASE DraftLapses(t)
  <2>. DEFINE row == [task[t] EXCEPT !.lapsed = TRUE]
  <2>1. /\ row \in Task /\ row.request = 0 /\ row.status = Status(t)
        /\ row.version = task[t].version /\ row.draft = task[t].draft /\ OwnerNamed(row)
    BY <1>2 DEF Task, Status, OwnerNamed
  <2>2. task' = [task EXCEPT ![t] = row] /\ UNCHANGED <<sensitive, cases, requests, card, listing>>
    BY <1>3 DEF DraftLapses
  <2>. HIDE DEF row
  <2>. QED  BY <1>1, <1>2, <2>1, <2>2, DraftMoves
<1>4. CASE ExpireDraft(t) \/ CancelDraft(t)
  <2>1. PICK s \in {"expired", "cancelled"} : task' = [task EXCEPT ![t].status = s]
    BY <1>4 DEF ExpireDraft, CancelDraft, SetStatus
  <2>. DEFINE row == [task[t] EXCEPT !.status = s]
  <2>2. /\ row \in Task /\ row.request = 0 /\ row.status = s
        /\ row.version = task[t].version /\ row.draft = task[t].draft /\ OwnerNamed(row)
    BY <1>2 DEF Task, TaskStatus, Terminal, OwnerNamed
  <2>3. task' = [task EXCEPT ![t] = row] /\ UNCHANGED <<sensitive, cases, requests, card, listing>>
    BY <1>4, <2>1 DEF ExpireDraft, CancelDraft
  <2>. HIDE DEF row
  <2>. QED  BY <1>2, <2>2, <2>3, DraftMoves
<1>5. CASE ReadCard(t)
  <2>1. task' = [task EXCEPT ![t] = task[t]]
    BY <1>5 DEF ReadCard, TaskInv, TypeOK
  <2>. QED  BY <1>1, <1>2, <1>5, <2>1, DraftMoves DEF ReadCard, Status
<1>. QED  BY <1>3, <1>4, <1>5

\* A confirmed draft gets its request: a new one, or a pending one like it.
LEMMA SubmissionMoves ==
  ASSUME TaskInv, NEW t \in Tasks, Submittable(t), NEW n, Submitted(t, n),
         n \in DOMAIN requests', Carries(requests'[n], ApprovalParams(t)),
         requests' \in Seq(Request), Len(requests') <= MaxRequests,
         \A m \in DOMAIN requests : m \in DOMAIN requests' /\ requests'[m] = requests[m],
         \A m \in DOMAIN requests' : Judged(requests'[m]),
         cases' \in [Cases -> CaseStatus], UNCHANGED <<sensitive, card, listing>>
  PROVE  TaskInv'
<1>. DEFINE row == [task[t] EXCEPT !.status = "awaiting_approval", !.request = n]
<1>1. Status(t) = "ready_for_confirmation" /\ card[t].version = task[t].version
  BY DEF Submittable
<1>2. /\ task[t] \in Task /\ task[t].request = 0 /\ ~HasRequest(t)
      /\ card[t].draft = task[t].draft /\ listing[t] = "idle" /\ OwnerNamed(task[t])
  BY <1>1, DraftHasNoRequest DEF Draftish, TaskInv, Linked
<1>3. n \in 1..MaxRequests /\ n # 0 /\ n \in 0..MaxRequests
  <2>1. DOMAIN requests' = 1..Len(requests') /\ Len(requests') \in Nat
    OBVIOUS
  <2>. QED  BY <2>1, AgentTasksAssumption
<1>4. /\ row \in Task /\ row.status = "awaiting_approval" /\ row.request = n
      /\ row.kind = task[t].kind /\ row.draft = task[t].draft /\ row.version = task[t].version
      /\ OwnerNamed(row)
  BY <1>2, <1>3 DEF Task, TaskStatus, PostSubmit, OwnerNamed
<1>. HIDE DEF row
<1>5. task \in [Tasks -> Task \cup {NoTask}] /\ task' = [task EXCEPT ![t] = row]
  BY DEF TaskInv, TypeOK, Submitted, row
<1>6. /\ task' \in [Tasks -> Task \cup {NoTask}]
      /\ task'[t] = row /\ \A u \in Tasks : u # t => task'[u] = task[u]
  BY <1>4, <1>5
<1>7. TypeOK'
  BY <1>6 DEF TaskInv, TypeOK
<1>8. HasRequest(t)' /\ \A u \in Tasks : u # t => (HasRequest(u)' <=> HasRequest(u))
  BY <1>3, <1>4, <1>6 DEF HasRequest, NoTask, Task
<1>9. Linked'
  BY <1>3, <1>4, <1>6, <1>8 DEF TaskInv, Linked, Status, Draftish, PostSubmit
<1>10. CardsAreTrue'
  BY <1>1, <1>2, <1>4, <1>6 DEF TaskInv, CardsAreTrue, NoTask, Task
<1>16. OwnersNamed'
  BY <1>4, <1>6 DEF TaskInv, OwnersNamed, OwnerNamed
<1>11. ExecutionsAreConsumed'
  BY DEF ExecutionsAreConsumed, Judged
<1>12. ApprovalParams(t)' = ApprovalParams(t)
  BY <1>4, <1>6 DEF ApprovalParams
<1>13. ASSUME NEW u \in Tasks, u # t, HasRequest(u)
       PROVE  /\ RequestOf(u)' = RequestOf(u) /\ ApprovalParams(u)' = ApprovalParams(u)
              /\ task'[u] = task[u]
  BY <1>6, <1>13 DEF TaskInv, Linked, RequestOf, ApprovalParams
<1>14. AsDrafted'
  <2>1. Carries(RequestOf(t)', ApprovalParams(t)') /\ (card[t].draft = task[t].draft)'
    BY <1>2, <1>4, <1>6, <1>12 DEF RequestOf
  <2>2. ASSUME NEW u \in Tasks, u # t, HasRequest(u)'
        PROVE  Carries(RequestOf(u)', ApprovalParams(u)') /\ (card[u].draft = task[u].draft)'
    <3>1. HasRequest(u)
      BY <1>8, <2>2
    <3>2. Carries(RequestOf(u), ApprovalParams(u)) /\ card[u].draft = task[u].draft
      BY <3>1 DEF TaskInv, AsDrafted
    <3>. QED  BY <1>13, <2>2, <3>1, <3>2
  <2>3. ASSUME NEW u \in Tasks, HasRequest(u)'
        PROVE  Carries(RequestOf(u)', ApprovalParams(u)') /\ (card[u].draft = task[u].draft)'
    BY <2>1, <2>2, <2>3
  <2>. QED  BY <2>3 DEF AsDrafted, Carries
<1>15. StatusesFit'
  <2>1. Fits("awaiting_approval", RequestOf(t)') /\ Fits("idle", RequestOf(t)')
    BY DEF Fits
  <2>2. ASSUME NEW u \in Tasks, u # t, HasRequest(u)'
        PROVE  Fits(Status(u)', RequestOf(u)') /\ Fits(listing[u]', RequestOf(u)')
    <3>1. HasRequest(u)
      BY <1>8, <2>2
    <3>2. Fits(Status(u), RequestOf(u)) /\ Fits(listing[u], RequestOf(u))
      BY <3>1 DEF TaskInv, StatusesFit
    <3>. QED  BY <1>13, <2>2, <3>1, <3>2 DEF Status
  <2>3. Status(t)' = "awaiting_approval" /\ listing[t]' = "idle"
    BY <1>2, <1>4, <1>6 DEF Status
  <2>4. ASSUME NEW u \in Tasks, HasRequest(u)'
        PROVE  Fits(Status(u)', RequestOf(u)') /\ Fits(listing[u]', RequestOf(u)')
    BY <2>1, <2>2, <2>3, <2>4
  <2>. QED  BY <2>4 DEF StatusesFit, Fits, Dead
<1>. QED  BY <1>7, <1>9, <1>10, <1>11, <1>14, <1>15, <1>16 DEF TaskInv

\* The parameters of a typed draft make a typed request.
LEMMA ParamsFit ==
  ASSUME TypeOK, NEW t \in Tasks, task[t] \in Task
  PROVE  /\ NewRequest(ApprovalParams(t)) \in Request
         /\ Carries(NewRequest(ApprovalParams(t)), ApprovalParams(t))
         /\ Judged(NewRequest(ApprovalParams(t)))
<1>1. /\ task[t].kind \in Kinds /\ task[t].draft.owner \in Names \cup {NoName}
      /\ task[t].draft.ownerId \in Names \cup {NoName} /\ CaseOf[t] \in Cases
  BY AgentTasksAssumption DEF Task, Drafts
<1>2. Resolve(task[t].draft.owner) \in Names \cup {NoName}
  BY <1>1, AgentTasksAssumption DEF Resolve
<1>3. /\ ApprovalParams(t).case \in Cases /\ ApprovalParams(t).kind \in Kinds
      /\ ApprovalParams(t).owner \in Names \cup {NoName}
  BY <1>1, <1>2 DEF ApprovalParams
<1>. QED  BY <1>3 DEF NewRequest, Carries, Request, Judged, Verdicts

\* Submission, in its three outcomes.
LEMMA Submission ==
  ASSUME TaskInv, NEW t \in Tasks, Submit(t)
  PROVE  TaskInv'
<1>1. /\ task[t] \in Task /\ requests \in Seq(Request) /\ Len(requests) <= MaxRequests
      /\ cases \in [Cases -> CaseStatus] /\ CaseOf[t] \in Cases
      /\ \A m \in DOMAIN requests : Judged(requests[m])
  BY DraftHasNoRequest, AgentTasksAssumption
     DEF Submit, SubmitReuses, SubmitRequests, SubmitRefused, Submittable, Draftish, TaskInv,
         TypeOK, ExecutionsAreConsumed
<1>2. Planned(cases[CaseOf[t]]) \in CaseStatus
  BY <1>1 DEF Planned, CaseStatus
<1>3. /\ [cases EXCEPT ![CaseOf[t]] = Planned(@)] \in [Cases -> CaseStatus]
      /\ [cases EXCEPT ![CaseOf[t]] = "AWAITING_APPROVAL"] \in [Cases -> CaseStatus]
  BY <1>1, <1>2 DEF CaseStatus
<1>4. CASE SubmitReuses(t)
  <2>1. PICK n \in Reusable(ApprovalParams(t)) : Submitted(t, n)
    BY <1>4 DEF SubmitReuses
  <2>2. n \in DOMAIN requests /\ Carries(requests[n], ApprovalParams(t))
    BY DEF Reusable
  <2>. QED  BY <1>1, <1>3, <1>4, <2>1, <2>2, SubmissionMoves DEF SubmitReuses
<1>5. CASE SubmitRequests(t)
  <2>. DEFINE r == NewRequest(ApprovalParams(t))
              n == Len(requests) + 1
  <2>1. /\ r \in Request /\ Carries(r, ApprovalParams(t)) /\ Judged(r)
    BY <1>1, ParamsFit DEF TaskInv
  <2>. HIDE DEF r
  <2>2. requests' = Append(requests, r)
    BY <1>5 DEF SubmitRequests, r
  <2>3. /\ requests' \in Seq(Request) /\ Len(requests') = n
        /\ requests'[n] = r /\ \A m \in 1..Len(requests) : requests'[m] = requests[m]
    BY <1>1, <2>1, <2>2, AppendProperties
  <2>4. DOMAIN requests = 1..Len(requests) /\ DOMAIN requests' = 1..n /\ Len(requests) \in Nat
    BY <1>1, <2>3
  <2>5. Len(requests') <= MaxRequests
    BY <1>5, <2>3, <2>4, AgentTasksAssumption DEF SubmitRequests
  <2>6. \A m \in DOMAIN requests' : m \in DOMAIN requests \/ m = n
    BY <2>4
  <2>7. /\ n \in DOMAIN requests'
        /\ \A m \in DOMAIN requests : m \in DOMAIN requests' /\ requests'[m] = requests[m]
    BY <2>3, <2>4
  <2>8. \A m \in DOMAIN requests' : Judged(requests'[m])
    BY <1>1, <2>1, <2>3, <2>6, <2>7
  <2>. QED  BY <1>3, <1>5, <2>1, <2>3, <2>5, <2>7, <2>8, SubmissionMoves DEF SubmitRequests
<1>6. CASE SubmitRefused(t)
  <2>1. /\ cases' \in [Cases -> CaseStatus]
        /\ UNCHANGED <<sensitive, requests, task, card, listing>>
    BY <1>3, <1>6 DEF SubmitRefused
  <2>2. TypeOK'
    BY <2>1 DEF TaskInv, TypeOK
  <2>3. Linked'
    BY <2>1 DEF TaskInv, Linked, Status, HasRequest
  <2>4. CardsAreTrue' /\ OwnersNamed' /\ ExecutionsAreConsumed'
    BY <2>1 DEF TaskInv, CardsAreTrue, OwnersNamed, OwnerNamed, ExecutionsAreConsumed, Judged
  <2>5. AsDrafted'
    BY <2>1 DEF TaskInv, AsDrafted, HasRequest, RequestOf, ApprovalParams, Carries
  <2>6. StatusesFit'
    BY <2>1 DEF TaskInv, StatusesFit, Status, HasRequest, RequestOf, Fits, Dead
  <2>. QED  BY <2>2, <2>3, <2>4, <2>5, <2>6 DEF TaskInv
<1>. QED  BY <1>4, <1>5, <1>6 DEF Submit

\* A submitted task shows another status, one its request bears out.
LEMMA StatusMoves ==
  ASSUME TaskInv, NEW t \in Tasks, HasRequest(t),
         NEW s \in PostSubmit \cup Terminal, Fits(s, RequestOf(t)), SetStatus(t, s),
         listing' \in {listing, [listing EXCEPT ![t] = "idle"]},
         UNCHANGED <<sensitive, cases, requests, card>>
  PROVE  TaskInv'
<1>. DEFINE row == [task[t] EXCEPT !.status = s]
<1>1. /\ row \in Task /\ row.status = s /\ row.request = task[t].request
      /\ row.kind = task[t].kind /\ row.draft = task[t].draft /\ row.version = task[t].version
      /\ OwnerNamed(row)
  BY TaskRow DEF TaskInv, HasRequest, Task, TaskStatus, OwnersNamed, OwnerNamed
<1>. HIDE DEF row
<1>2. task \in [Tasks -> Task \cup {NoTask}] /\ task' = [task EXCEPT ![t] = row]
  BY DEF TaskInv, TypeOK, SetStatus, row
<1>3. /\ task' \in [Tasks -> Task \cup {NoTask}]
      /\ task'[t] = row /\ \A u \in Tasks : u # t => task'[u] = task[u]
  BY <1>1, <1>2
<1>4. /\ listing' \in [Tasks -> {"idle"} \cup PostSubmit \cup Terminal]
      /\ \A u \in Tasks : listing'[u] = listing[u] \/ listing'[u] = "idle"
  BY DEF TaskInv, TypeOK
<1>5. TypeOK'
  BY <1>3, <1>4 DEF TaskInv, TypeOK
<1>6. \A u \in Tasks : /\ HasRequest(u)' <=> HasRequest(u)
                      /\ RequestOf(u)' = RequestOf(u)
                      /\ ApprovalParams(u)' = ApprovalParams(u)
  BY <1>1, <1>3 DEF HasRequest, RequestOf, ApprovalParams, NoTask, Task
<1>7. task[t].request # 0 /\ task[t].request \in DOMAIN requests
  BY DEF TaskInv, Linked, HasRequest
<1>8. Linked'
  BY <1>1, <1>3, <1>4, <1>6, <1>7 DEF TaskInv, Linked, Status, Draftish, PostSubmit, Terminal
<1>9. CardsAreTrue' /\ OwnersNamed'
  BY <1>1, <1>3 DEF TaskInv, CardsAreTrue, OwnersNamed, OwnerNamed, HasRequest
<1>10. ExecutionsAreConsumed'
  BY DEF TaskInv, ExecutionsAreConsumed, Judged
<1>11. ASSUME NEW u \in Tasks, HasRequest(u)'
       PROVE  /\ Fits(Status(u)', RequestOf(u)') /\ Fits(listing[u]', RequestOf(u)')
              /\ (card[u].draft = task[u].draft)' /\ Carries(RequestOf(u)', ApprovalParams(u)')
  <2>1. /\ Fits(Status(u), RequestOf(u)) /\ Fits(listing[u], RequestOf(u))
        /\ card[u].draft = task[u].draft /\ Carries(RequestOf(u), ApprovalParams(u))
    BY <1>6, <1>11 DEF TaskInv, StatusesFit, AsDrafted
  <2>2. Fits("idle", RequestOf(u))
    BY DEF Fits
  <2>3. Status(u)' = IF u = t THEN s ELSE Status(u)
    BY <1>1, <1>3 DEF Status
  <2>4. task'[u].draft = task[u].draft
    BY <1>1, <1>3
  <2>. QED  BY <1>4, <1>6, <2>1, <2>2, <2>3, <2>4
<1>12. AsDrafted' /\ StatusesFit'
  BY <1>11 DEF AsDrafted, StatusesFit, Fits, Dead, Carries
<1>. QED  BY <1>5, <1>8, <1>9, <1>10, <1>12 DEF TaskInv

\* What get_status and list_tasks work out for a task fits its request.
LEMMA ProjectedFits ==
  ASSUME TaskInv, NEW t \in Tasks, Projected(t)
  PROVE  /\ HasRequest(t)
         /\ Projection(Status(t), RequestOf(t)) \in PostSubmit \cup {"expired"}
         /\ Fits(Projection(Status(t), RequestOf(t)), RequestOf(t))
<1>1. HasRequest(t)
  BY TaskRow DEF Projected, TaskInv, Linked, HasRequest, PostSubmit
<1>2. RequestOf(t) \in Request /\ Judged(RequestOf(t))
  BY <1>1 DEF TaskInv, TypeOK, Linked, ExecutionsAreConsumed, RequestOf
<1>. QED  BY <1>1, <1>2, ProjectionFits DEF Projected

\* get_status, and the two steps of list_tasks.
LEMMA Polling ==
  ASSUME TaskInv, NEW t \in Tasks, GetStatus(t) \/ List(t)
  PROVE  TaskInv'
<1>. PostSubmit \cup {"expired"} \subseteq PostSubmit \cup Terminal /\ "idle" \notin PostSubmit \cup Terminal
  BY DEF PostSubmit, Terminal
<1>1. CASE GetStatus(t)
  BY <1>1, ProjectedFits, StatusMoves DEF GetStatus
<1>2. CASE ListReads(t)
  <2>. DEFINE s == Projection(Status(t), RequestOf(t))
  <2>1. HasRequest(t) /\ s \in PostSubmit \cup Terminal /\ Fits(s, RequestOf(t))
    BY <1>2, ProjectedFits DEF ListReads
  <2>2. listing' = [listing EXCEPT ![t] = s] /\ UNCHANGED <<sensitive, cases, requests, task, card>>
    BY <1>2 DEF ListReads
  <2>. HIDE DEF s
  <2>3. /\ listing' \in [Tasks -> {"idle"} \cup PostSubmit \cup Terminal]
        /\ listing'[t] = s /\ \A u \in Tasks : u # t => listing'[u] = listing[u]
    BY <2>1, <2>2 DEF TaskInv, TypeOK
  <2>4. TypeOK' /\ Linked'
    BY <2>1, <2>2, <2>3 DEF TaskInv, TypeOK, Linked, Status, HasRequest
  <2>5. CardsAreTrue' /\ OwnersNamed' /\ ExecutionsAreConsumed' /\ AsDrafted'
    BY <2>2 DEF TaskInv, CardsAreTrue, OwnersNamed, OwnerNamed, ExecutionsAreConsumed, Judged, AsDrafted, HasRequest,
                RequestOf, ApprovalParams, Carries
  <2>6. StatusesFit'
    BY <2>1, <2>2, <2>3 DEF TaskInv, StatusesFit, HasRequest, RequestOf, Status, Fits, Dead
  <2>. QED  BY <2>4, <2>5, <2>6 DEF TaskInv
<1>3. CASE ListWrites(t)
  <2>1. /\ HasRequest(t) /\ Fits(listing[t], RequestOf(t))
        /\ listing[t] \in PostSubmit \cup Terminal
    BY <1>3 DEF ListWrites, TaskInv, TypeOK, Linked, StatusesFit
  <2>. QED  BY <1>3, <2>1, StatusMoves DEF ListWrites
<1>. QED  BY <1>1, <1>2, <1>3 DEF List

--------------------------------------------------------------------------------
(* Theorems.                                                               *)

\* Nothing is prepared yet.
LEMMA TaskInvInit == Init => TaskInv
<1>. SUFFICES ASSUME Init PROVE TaskInv
  OBVIOUS
<1>1. /\ requests = <<>> /\ DOMAIN requests = {} /\ requests \in Seq(Request) /\ Len(requests) = 0
  BY DEF Init
<1>2. TypeOK
  BY <1>1, AgentTasksAssumption DEF Init, TypeOK, CaseStatus
<1>3. \A t \in Tasks : Status(t) = "none" /\ ~HasRequest(t) /\ task[t] = NoTask /\ listing[t] = "idle"
  BY DEF Init, Status, HasRequest, NoTask
<1>4. Linked /\ CardsAreTrue /\ OwnersNamed /\ AsDrafted /\ StatusesFit
  BY <1>3 DEF Linked, CardsAreTrue, OwnersNamed, AsDrafted, StatusesFit, Draftish, PostSubmit
<1>5. ExecutionsAreConsumed
  BY <1>1 DEF ExecutionsAreConsumed
<1>. QED  BY <1>2, <1>4, <1>5 DEF TaskInv

\* Every step keeps it.
LEMMA TaskInvStep == TaskInv /\ [Next]_vars => TaskInv'
<1>. SUFFICES ASSUME TaskInv, [Next]_vars PROVE TaskInv'
  OBVIOUS
<1>1. ASSUME NEW t \in Tasks,
             \/ Prepare(t) \/ ProvideInput(t) \/ ExpireDraft(t) \/ Submit(t) \/ Cancel(t)
             \/ GetStatus(t) \/ List(t) \/ DraftLapses(t) \/ ReadCard(t)
      PROVE  TaskInv'
  BY <1>1, Editing, DraftEnds, Submission, Withdrawal, Polling DEF Cancel
<1>2. ASSUME NEW n \in DOMAIN requests, RequestLapses(n) \/ Decide(n) \/ Consume(n) \/ Execute(n)
      PROVE  TaskInv'
  BY <1>2, ChainMoves
<1>3. CASE UNCHANGED vars
  BY <1>3 DEF vars, TaskInv, TypeOK, Linked, CardsAreTrue, ExecutionsAreConsumed, StatusesFit,
              AsDrafted, OwnersNamed, OwnerNamed, Judged, Status, HasRequest, RequestOf, ApprovalParams, Fits, Dead, Carries
<1>. QED  BY <1>1, <1>2, <1>3 DEF Next

\* The inductive invariant holds in every reachable state.
THEOREM TaskInvariant == Spec => []TaskInv
BY TaskInvInit, TaskInvStep, PTL DEF Spec

\* Rows, cards and requests keep their types, whatever sentences compile to and
\* whatever users answer.
THEOREM TasksAreTyped == Spec => []TypeOK
<1>1. TaskInv => TypeOK
  BY DEF TaskInv
<1>. QED  BY TaskInvariant, <1>1, PTL

\* submit asks an approval for the case, the action and the owner on the card its user
\* confirmed, though another surface may have answered and moved the version since, and
\* though the approval may be one that an earlier task opened; only a followup whose owner
\* was changed, and an owner change whose owner was blanked, ask for another owner, a member
\* that an earlier version named.
THEOREM TheConfirmedIsRequested == Spec => []ConfirmedIsRequested
<1>1. TaskInv => ConfirmedIsRequested
  <2>. SUFFICES ASSUME TaskInv, NEW t \in Tasks, HasRequest(t)
                PROVE  /\ card[t].draft = task[t].draft
                       /\ RequestOf(t).case = CaseOf[t] /\ RequestOf(t).kind = task[t].kind
                       /\ RequestOf(t).owner # card[t].draft.owner =>
                            /\ task[t].kind = "followup" \/ card[t].draft.owner = NoName
                            /\ RequestOf(t).owner \in task[t].named \cap Members
    BY DEF ConfirmedIsRequested
  <2>1. /\ card[t].draft = task[t].draft /\ Carries(RequestOf(t), ApprovalParams(t))
        /\ OwnerNamed(task[t]) /\ task[t].kind \in Kinds
    BY TaskRow DEF TaskInv, AsDrafted, OwnersNamed, HasRequest, Task
  <2>2. CASE task[t].draft.ownerId = NoName
    <3>1. RequestOf(t).owner = task[t].draft.owner
      BY <2>1, <2>2 DEF Carries, ApprovalParams, Resolve
    <3>. QED  BY <2>1, <3>1 DEF Carries, ApprovalParams
  <2>3. CASE task[t].draft.ownerId # NoName
    <3>1. RequestOf(t).owner = task[t].draft.ownerId
      BY <2>1, <2>3 DEF Carries, ApprovalParams
    <3>. QED  BY <2>1, <2>3, <3>1 DEF Carries, ApprovalParams, OwnerNamed, Kinds
  <2>. QED  BY <2>2, <2>3
<1>. QED  BY TaskInvariant, <1>1, PTL

\* A poll shows "expired" only of a request that no decision and no consumption
\* can bring to an execution any more.
THEOREM ExpiredIsForGood == Spec => []ExpiredNeverExecutes
<1>1. TaskInv => ExpiredNeverExecutes
  <2>. SUFFICES ASSUME TaskInv, NEW t \in Tasks, HasRequest(t), Status(t) = "expired"
                PROVE  RequestOf(t).execution = "none"
    BY DEF ExpiredNeverExecutes
  <2>1. Dead(RequestOf(t))
    BY DEF TaskInv, StatusesFit, Fits
  <2>. QED  BY <2>1 DEF Dead
<1>. QED  BY TaskInvariant, <1>1, PTL

\* A final status is a verdict that the write has had, or its refusal, also when a list_tasks that read the
\* row earlier writes over what get_status has shown since.
THEOREM FinalStatusAgrees == Spec => []FinalAgreesWithWrite
<1>1. TaskInv => FinalAgreesWithWrite
  <2>. SUFFICES ASSUME TaskInv, NEW t \in Tasks, Status(t) \in {"succeeded", "failed"}
                PROVE  /\ Status(t) = "succeeded" => "SUCCEEDED" \in RequestOf(t).verdicts
                       /\ Status(t) = "failed" => \/ "FAILED" \in RequestOf(t).verdicts
                                                  \/ RequestOf(t).status \in {"REJECTED", "EXPIRED"}
    BY DEF FinalAgreesWithWrite
  <2>1. HasRequest(t)
    BY TaskRow DEF TaskInv, Linked, HasRequest, PostSubmit
  <2>. QED  BY <2>1 DEF TaskInv, StatusesFit, Fits
<1>. QED  BY TaskInvariant, <1>1, PTL

--------------------------------------------------------------------------------
(* The batch.                                                              *)

Count == [exists: BOOLEAN, completed: Nat, failed: Nat, status: {"analyzing", "completed"}]

\* Where a worker is, with what it carries there.
AtWork == [at: {"idle"}] \cup [at: {"start", "work", "persist"}, of: Analyses]
Counts == [at: {"count"}, of: Analyses, success: BOOLEAN]
Incs == [at: {"inc"}, of: Analyses, success: BOOLEAN, read: Count]
WorkerAt == AtWork \cup Counts \cup Incs

\* A task that says it runs is in a worker's hands, unless one of its own workers left it.
NobodyElseStrands ==
  \A t \in Analyses :
    analysis[t] = "running" => t \in abandoned \/ \E w \in Workers : At(w, "work") /\ worker[w].of = t

BatchInv == /\ BatchesTypeOK /\ lost \in Nat /\ batch \in Count
            /\ worker \in [Workers -> WorkerAt] /\ NobodyElseStrands

\* A worker that is not idle has a task.
LEMMA WorkerHolds ==
  ASSUME BatchInv, NEW w \in Workers
  PROVE  /\ worker[w].at \in {"idle", "start", "work", "persist", "count", "inc"}
         /\ worker[w].at # "idle" => worker[w].of \in Analyses
         /\ worker[w].at \in {"count", "inc"} => worker[w].success \in BOOLEAN
         /\ worker[w].at = "inc" => worker[w].read \in Count
BY DEF BatchInv, WorkerAt, AtWork, Counts, Incs

\* A worker goes on, and the tables it may write with it.
LEMMA WorkerMoves ==
  ASSUME BatchInv, NEW w \in Workers, NEW next \in WorkerAt, Moves(w, next),
         analysis' \in [Analyses -> {"absent", "completed", "failed"} \cup Unsettled],
         queue' \in [Analyses -> Nat], batch' \in Count, lost' \in Nat,
         aged' \subseteq Analyses, abandoned' \subseteq Analyses, abandoned \subseteq abandoned',
         \A t \in Analyses :
           analysis'[t] = "running" =>
             \/ t \in abandoned'
             \/ next.at = "work" /\ next.of = t
             \/ analysis[t] = "running" /\ (At(w, "work") => worker[w].of # t),
         UNCHANGED <<isItem, recorded, retrying>>
  PROVE  BatchInv'
<1>1. /\ worker' \in [Workers -> WorkerAt] /\ worker'[w] = next
      /\ \A v \in Workers : v # w => worker'[v] = worker[v]
  BY DEF BatchInv, Moves
<1>2. \A v \in Workers : worker'[v].at \in {"idle", "start", "work", "persist", "count", "inc"}
  BY <1>1 DEF WorkerAt, AtWork, Counts, Incs
<1>3. BatchesTypeOK'
  BY <1>2 DEF BatchInv, BatchesTypeOK, Count
<1>4. ASSUME NEW t \in Analyses, analysis'[t] = "running", t \notin abandoned'
      PROVE  \E v \in Workers : worker'[v].at = "work" /\ worker'[v].of = t
  <2>1. CASE next.at = "work" /\ next.of = t
    BY <1>1, <2>1
  <2>2. CASE analysis[t] = "running" /\ (At(w, "work") => worker[w].of # t)
    <3>1. t \notin abandoned
      BY <1>4
    <3>2. PICK v \in Workers : At(v, "work") /\ worker[v].of = t
      BY <2>2, <3>1 DEF BatchInv, NobodyElseStrands
    <3>3. v # w
      BY <2>2, <3>2
    <3>. QED  BY <1>1, <3>2, <3>3 DEF At
  <2>. QED  BY <1>4, <2>1, <2>2
<1>5. NobodyElseStrands'
  BY <1>4 DEF NobodyElseStrands, At
<1>. QED  BY <1>1, <1>3, <1>5 DEF BatchInv

\* What a request or the clock writes: no worker moves, no task starts to run.
LEMMA OthersMove ==
  ASSUME BatchInv, UNCHANGED worker,
         analysis' \in [Analyses -> {"absent", "completed", "failed"} \cup Unsettled],
         \A t \in Analyses : analysis'[t] = "running" => analysis[t] = "running",
         queue' \in [Analyses -> Nat], batch' \in Count, lost' \in Nat,
         aged' \subseteq Analyses, UNCHANGED abandoned,
         isItem' \subseteq Analyses, recorded' \subseteq isItem', retrying' \subseteq recorded'
  PROVE  BatchInv'
<1>1. BatchesTypeOK'
  BY DEF BatchInv, BatchesTypeOK, Count
<1>2. NobodyElseStrands'
  <2>. SUFFICES ASSUME NEW t \in Analyses, analysis'[t] = "running", t \notin abandoned'
                PROVE  \E v \in Workers : worker'[v].at = "work" /\ worker'[v].of = t
    BY DEF NobodyElseStrands, At
  <2>1. analysis[t] = "running" /\ t \notin abandoned
    OBVIOUS
  <2>. QED  BY <2>1 DEF BatchInv, NobodyElseStrands, At
<1>. QED  BY <1>1, <1>2 DEF BatchInv

\* The steps of a worker.
LEMMA WorkerSteps ==
  ASSUME BatchInv, NEW w \in Workers,
         \/ StartWork(w) \/ WorkSucceeds(w) \/ Persists(w) \/ WorkFails(w) \/ Escapes(w)
         \/ IncReads(w) \/ IncWrites(w) \/ WorkerLost(w)
         \/ \E t \in Analyses : Take(w, t) \/ AckLost(w, t)
  PROVE  BatchInv'
<1>. DEFINE u == worker[w].of
<1>1. /\ analysis \in [Analyses -> {"absent", "completed", "failed"} \cup Unsettled]
      /\ queue \in [Analyses -> Nat] /\ batch \in Count /\ lost \in Nat
      /\ aged \subseteq Analyses /\ abandoned \subseteq Analyses
  BY DEF BatchInv, BatchesTypeOK
<1>2. IdleWorker \in WorkerAt
  BY DEF IdleWorker, WorkerAt, AtWork
<1>3. ASSUME NEW s \in {"completed", "failed", "running"}, u \in Analyses,
             analysis' = [analysis EXCEPT ![u] = s]
      PROVE  /\ analysis' \in [Analyses -> {"absent", "completed", "failed"} \cup Unsettled]
             /\ analysis'[u] = s /\ \A t \in Analyses : t # u => analysis'[t] = analysis[t]
  BY <1>1, <1>3 DEF Unsettled
<1>4. ASSUME u \in Analyses, NEW place \in {"start", "work", "persist"}
      PROVE  [at |-> place, of |-> u] \in WorkerAt
  BY <1>4 DEF WorkerAt, AtWork
<1>5. ASSUME u \in Analyses, NEW success \in BOOLEAN
      PROVE  Counting(w, success) \in WorkerAt
  BY <1>5 DEF Counting, WorkerAt, Counts
<1>. HIDE DEF u
<1>6. CASE StartWork(w)
  <2>1. u \in Analyses /\ At(w, "start")
    BY <1>6, WorkerHolds DEF StartWork, At, u
  <2>. DEFINE next == [at |-> "work", of |-> u]
  <2>2. next \in WorkerAt /\ next.at = "work" /\ next.of = u
    BY <1>4, <2>1
  <2>3. analysis' = [analysis EXCEPT ![u] = "running"] /\ Moves(w, next)
    BY <1>6 DEF StartWork, u
  <2>. HIDE DEF next
  <2>4. /\ analysis' \in [Analyses -> {"absent", "completed", "failed"} \cup Unsettled]
        /\ \A t \in Analyses : analysis'[t] = "running" => next.of = t \/ analysis[t] = "running"
    BY <1>3, <2>1, <2>2, <2>3
  <2>5. /\ ~At(w, "work")
        /\ UNCHANGED <<queue, batch, lost, aged, abandoned, isItem, recorded, retrying>>
    BY <1>1, <1>6, <2>1 DEF StartWork, At, past
  <2>. QED  BY <1>1, <2>2, <2>3, <2>4, <2>5, WorkerMoves
<1>7. CASE WorkSucceeds(w)
  <2>1. u \in Analyses /\ At(w, "work")
    BY <1>7, WorkerHolds DEF WorkSucceeds, At, u
  <2>. DEFINE next == [at |-> "persist", of |-> u]
  <2>2. next \in WorkerAt
    BY <1>4, <2>1
  <2>3. analysis' = [analysis EXCEPT ![u] = "completed"] /\ Moves(w, next)
    BY <1>7 DEF WorkSucceeds, u
  <2>. HIDE DEF next
  <2>. QED  BY <1>1, <1>3, <1>7, <2>1, <2>2, <2>3, WorkerMoves DEF WorkSucceeds, u, past
<1>8. CASE Persists(w)
  <2>1. u \in Analyses /\ At(w, "persist")
    BY <1>8, WorkerHolds DEF Persists, At, u
  <2>. DEFINE next == Counting(w, TRUE)
  <2>2. next \in WorkerAt /\ Moves(w, next)
    BY <1>5, <1>8, <2>1 DEF Persists
  <2>. HIDE DEF next
  <2>. QED  BY <1>1, <1>8, <2>1, <2>2, WorkerMoves DEF Persists, At, past
<1>9. CASE WorkFails(w)
  <2>1. u \in Analyses
    <3>1. worker[w].at # "idle"
      BY <1>9 DEF WorkFails, CountsIn, At
    <3>. QED  BY <3>1, WorkerHolds DEF u
  <2>. DEFINE next == Counting(w, FALSE)
  <2>2. next \in WorkerAt /\ Moves(w, next)
    BY <1>5, <1>9, <2>1 DEF WorkFails
  <2>3. analysis' = [analysis EXCEPT ![u] = "failed"]
    BY <1>9 DEF WorkFails, u
  <2>. HIDE DEF next
  <2>4. /\ analysis' \in [Analyses -> {"absent", "completed", "failed"} \cup Unsettled]
        /\ \A t \in Analyses : analysis'[t] = "running" => analysis[t] = "running" /\ t # u
    BY <1>1, <1>3, <2>1, <2>3
  <2>. QED  BY <1>1, <1>9, <2>1, <2>2, <2>4, WorkerMoves DEF WorkFails, u, past
<1>10. CASE IncReads(w)
  <2>1. /\ u \in Analyses /\ At(w, "count") /\ worker[w].success \in BOOLEAN
    BY <1>10, WorkerHolds DEF IncReads, At, u
  <2>2. [at |-> "inc", of |-> u, success |-> worker[w].success, read |-> batch] \in WorkerAt
    BY <1>1, <2>1 DEF WorkerAt, Incs
  <2>3. PICK next \in WorkerAt : Moves(w, next)
    BY <1>2, <1>10, <2>2 DEF IncReads, u
  <2>. QED  BY <1>1, <1>10, <2>1, <2>3, WorkerMoves DEF IncReads, At, past
<1>11. CASE IncWrites(w)
  <2>1. At(w, "inc") /\ worker[w].read \in Count /\ Moves(w, IdleWorker)
    BY <1>11, WorkerHolds DEF IncWrites, At
  <2>2. batch' \in Count
    <3>. DEFINE done == worker[w].read.completed + worker[w].read.failed + 1
                status == IF done >= BatchSize THEN "completed" ELSE batch.status
    <3>1. /\ status \in {"analyzing", "completed"}
          /\ worker[w].read.completed + 1 \in Nat /\ worker[w].read.failed + 1 \in Nat
      BY <1>1, <2>1 DEF Count
    <3>2. \/ batch' = [batch EXCEPT !.completed = worker[w].read.completed + 1, !.status = status]
          \/ batch' = [batch EXCEPT !.failed = worker[w].read.failed + 1, !.status = status]
      BY <1>11 DEF IncWrites
    <3>. HIDE DEF status
    <3>. QED  BY <1>1, <3>1, <3>2 DEF Count
  <2>. QED  BY <1>1, <1>2, <1>11, <2>1, <2>2, WorkerMoves DEF IncWrites, At, past
<1>12. CASE WorkerLost(w)
  <2>1. u \in Analyses /\ lost' = lost + 1 /\ lost' \in Nat
    BY <1>1, <1>12, WorkerHolds DEF WorkerLost, At, u
  <2>2. queue' \in [Analyses -> Nat]
    BY <1>1, <1>12, <2>1 DEF WorkerLost, u
  <2>3. abandoned' = abandoned \cup {u}
    BY <1>12 DEF WorkerLost, u
  <2>. QED  BY <1>1, <1>2, <1>12, <2>1, <2>2, <2>3, WorkerMoves DEF WorkerLost, u
<1>15. CASE Escapes(w)
  <2>1. u \in Analyses /\ abandoned' = abandoned \cup {u}
    BY <1>15, WorkerHolds DEF Escapes, At, u
  <2>. QED  BY <1>1, <1>2, <1>15, <2>1, WorkerMoves DEF Escapes, u
<1>13. ASSUME NEW t \in Analyses, Take(w, t)
       PROVE  BatchInv'
  <2>. DEFINE next == [at |-> "start", of |-> t]
  <2>1. next \in WorkerAt /\ Moves(w, next) /\ At(w, "idle")
    BY <1>13 DEF Take, WorkerAt, AtWork
  <2>. HIDE DEF next
  <2>2. queue' \in [Analyses -> Nat]
    BY <1>1, <1>13 DEF Take
  <2>. QED  BY <1>1, <1>13, <2>1, <2>2, WorkerMoves DEF Take, At, past
<1>14. ASSUME NEW t \in Analyses, AckLost(w, t)
       PROVE  BatchInv'
  <2>1. queue' \in [Analyses -> Nat] /\ lost' \in Nat
    BY <1>1, <1>14 DEF AckLost
  <2>. QED  BY <1>1, <1>14, <2>1, OthersMove DEF AckLost, BatchInv, BatchesTypeOK
<1>. QED  BY <1>6, <1>7, <1>8, <1>9, <1>10, <1>11, <1>12, <1>13, <1>14, <1>15

\* The steps of the requests and of the clock.
LEMMA RequestSteps ==
  ASSUME BatchInv,
         \/ CreateBatch \/ RetrySends \/ RetryCommits \/ TimePasses \/ ExpireStaleTasks
         \/ \E t \in Analyses : StartAsyncTask(t) \/ DispatchItem(t)
  PROVE  BatchInv'
<1>1. /\ analysis \in [Analyses -> {"absent", "completed", "failed"} \cup Unsettled]
      /\ queue \in [Analyses -> Nat] /\ batch \in Count /\ lost \in Nat
      /\ isItem \subseteq Analyses /\ recorded \subseteq isItem /\ retrying \subseteq recorded
      /\ aged \subseteq Analyses
  BY DEF BatchInv, BatchesTypeOK
<1>2. CASE CreateBatch
  <2>1. batch' \in Count
    BY <1>1, <1>2 DEF CreateBatch, Count
  <2>. QED  BY <1>1, <1>2, <2>1, OthersMove DEF CreateBatch, past
<1>3. CASE RetrySends
  <2>1. /\ retrying' \subseteq recorded
        /\ \E sent : queue' = [t \in Analyses |-> IF t \in sent THEN queue[t] + 1 ELSE queue[t]]
    BY <1>3 DEF RetrySends
  <2>2. queue' \in [Analyses -> Nat]
    BY <1>1, <2>1
  <2>. QED  BY <1>1, <1>3, <2>1, <2>2, OthersMove DEF RetrySends
<1>4. CASE RetryCommits
  <2>1. /\ analysis' \in [Analyses -> {"absent", "completed", "failed"} \cup Unsettled]
        /\ \A t \in Analyses : analysis'[t] = "running" => analysis[t] = "running"
    BY <1>1, <1>4 DEF RetryCommits, Unsettled
  <2>. QED  BY <1>1, <1>4, <2>1, OthersMove DEF RetryCommits, past
<1>5. CASE TimePasses
  BY <1>1, <1>5, OthersMove DEF TimePasses
<1>6. CASE ExpireStaleTasks
  <2>1. /\ analysis' \in [Analyses -> {"absent", "completed", "failed"} \cup Unsettled]
        /\ \A t \in Analyses : analysis'[t] = "running" => analysis[t] = "running"
    BY <1>1, <1>6 DEF ExpireStaleTasks, Unsettled
  <2>. QED  BY <1>1, <1>6, <2>1, OthersMove DEF ExpireStaleTasks, past
<1>7. ASSUME NEW t \in Analyses, StartAsyncTask(t) \/ DispatchItem(t)
      PROVE  BatchInv'
  <2>1. /\ analysis' \in [Analyses -> {"absent", "completed", "failed"} \cup Unsettled]
        /\ \A v \in Analyses : analysis'[v] = "running" => analysis[v] = "running"
        /\ queue' \in [Analyses -> Nat]
    BY <1>1, <1>7 DEF StartAsyncTask, DispatchItem, Unsettled
  <2>2. /\ isItem' \subseteq Analyses /\ recorded' \subseteq isItem' /\ retrying' \subseteq recorded'
        /\ UNCHANGED <<worker, batch, aged, abandoned, lost>>
    BY <1>1, <1>7 DEF StartAsyncTask, DispatchItem, past
  <2>. QED  BY <1>1, <2>1, <2>2, OthersMove
<1>. QED  BY <1>2, <1>3, <1>4, <1>5, <1>6, <1>7

\* Nothing is dispatched yet.
LEMMA BatchInvInit == BatchesInit => BatchInv
BY DEF BatchesInit, BatchInv, BatchesTypeOK, NobodyElseStrands, Count, WorkerAt, AtWork, IdleWorker,
       NoBatch

\* Every step keeps it.
LEMMA BatchInvStep == BatchInv /\ [BatchesNext]_batchVars => BatchInv'
<1>. SUFFICES ASSUME BatchInv, [BatchesNext]_batchVars PROVE BatchInv'
  OBVIOUS
<1>1. CASE UNCHANGED batchVars
  BY <1>1 DEF batchVars, past, BatchInv, BatchesTypeOK, NobodyElseStrands, At
<1>2. CASE BatchesNext
  BY <1>2, WorkerSteps, RequestSteps DEF BatchesNext
<1>. QED  BY <1>1, <1>2

\* A task says "running" with no worker at it only where one of its own workers left it
\* without an end: was lost, or got an exception where no except branch writes, or in that
\* branch.  A retry, also one cut off while it sends, a stale reset and a second message
\* for the same task, in whatever order they meet the worker's own writes, strand none.
THEOREM OnlyTheAbandonedStrand == BatchesSpec => []NobodyElseStrands
<1>1. BatchInv => NobodyElseStrands
  BY DEF BatchInv
<1>. QED  BY BatchInvInit, BatchInvStep, <1>1, PTL DEF BatchesSpec

\* Whichever of the two models runs, every variable keeps its type, whatever
\* sentences compile to, however many workers and messages there are.
THEOREM BothAreTyped == BothSpec => []TasksTypeOK
<1>1. BothInit => TaskInv /\ BatchInv
  BY TaskInvInit, BatchInvInit DEF BothInit
<1>2. TaskInv /\ BatchInv /\ [BothNext]_bothVars => TaskInv' /\ BatchInv'
  <2>1. BothNext \/ UNCHANGED bothVars => [Next]_vars /\ [BatchesNext]_batchVars
    BY DEF BothNext, bothVars
  <2>. QED  BY <2>1, TaskInvStep, BatchInvStep
<1>3. TaskInv /\ BatchInv => TasksTypeOK
  BY DEF TaskInv, BatchInv, TasksTypeOK
<1>. QED  BY <1>1, <1>2, <1>3, PTL DEF BothSpec
================================================================================
