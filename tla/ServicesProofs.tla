---------------------------- MODULE ServicesProofs -----------------------------
(***************************************************************************)
(* The types of the parts of MC_Services, each of which runs while the     *)
(* others stand still: what a worker, a request, a row or an envelope may  *)
(* hold, at every step, for any numbers of them.                           *)
(*                                                                         *)
(* The types of a part rest on what RequestsProofs or KnowledgeProofs say  *)
(* of it; those of an approval, of the row of an employee, and of a sum of *)
(* turns on how many of something there may be.                            *)
(***************************************************************************)
EXTENDS MC_Services, RequestsProofs, KnowledgeProofs

--------------------------------------------------------------------------------
(***************************************************************************)
(* Intake.                                                                 *)
(***************************************************************************)

\* The source, and who holds it.
IntakeTypes ==
  /\ IntakeInv
  /\ configured \in BOOLEAN /\ bound \subseteq {SenderOf[m] : m \in Inbound}
  /\ sourceLock \in Callbacks \cup {"free"}

\* Every step keeps the types.
LEMMA IntakeTypesStep == IntakeTypes /\ [IntakeNext]_intakeVars => IntakeTypes'
<1>. SUFFICES ASSUME IntakeTypes, [IntakeNext]_intakeVars PROVE IntakeTypes'
  OBVIOUS
<1>0. IntakeInv'
  BY IntakeStep DEF IntakeTypes
<1>1. CASE UNCHANGED <<configured, bound, sourceLock>>
  BY <1>0, <1>1 DEF IntakeTypes
<1>2. CASE Reconfigure
  BY <1>0, <1>2 DEF Reconfigure, IntakeTypes
<1>3. ASSUME NEW c \in Callbacks, ClaimEvent(c) \/ RecordEvent(c) \/ CallbackDies(c)
      PROVE  IntakeTypes'
  BY <1>0, <1>3 DEF ClaimEvent, RecordEvent, CallbackDies, IntakeTypes
<1>4. ASSUME NEW m \in Inbound, BindIdentity(SenderOf[m])
      PROVE  IntakeTypes'
  BY <1>0, <1>4 DEF BindIdentity, IntakeTypes
<1>. QED
  BY <1>1, <1>2, <1>3, <1>4
     DEF IntakeNext, FetchPage, ConsumeItem, SaveCursor, SyncDies, Receive, intakeVars

\* Nobody is bound, and the source is free.
LEMMA IntakeTypesInit == IntakeInit => IntakeTypes
BY IntakeInvInit DEF IntakeInit, IntakeTypes

\* They are the types of the model.
LEMMA IntakeIsTyped == IntakeTypes => IntakeTypeOK
<1>. SUFFICES ASSUME IntakeTypes PROVE IntakeTypeOK
  OBVIOUS
<1>1. syncPage.last <= Len(Stream)
  BY IntakeAssumption DEF IntakeTypes, IntakeInv, PageOK, NoPage
<1>. QED  BY <1>1 DEF IntakeTypes, IntakeInv, IntakeTyped, PageOK, IntakeTypeOK

--------------------------------------------------------------------------------
(***************************************************************************)
(* Triage.                                                                 *)
(***************************************************************************)

\* The request, its answers and their attempts.
AttemptStatus == {"none", "queued", "simulated_accepted", "retryable_failed", "rejected"}
TriageTypes ==
  /\ ToldInv
  /\ origin \in {"none", "employee", "platform"} /\ inScope \in BOOLEAN /\ assigned \in BOOLEAN
  /\ status \in {"submitted", "needs_materials", "in_progress", "resolved"}
  /\ sourceOpen \in BOOLEAN /\ crashes <= MaxCrashes
  /\ newest \subseteq Answers /\ shown \subseteq Answers
  /\ attempt \in [Answers -> AttemptStatus]
  /\ \A p \in Staff : staff[p].at \in {"desk", "scope", "deliver", "sending"}
  /\ \A p \in Staff : staff[p].at = "scope" => staff[p].sees \in BOOLEAN

\* Every step keeps the types.
LEMMA TriageTypesStep == TriageTypes /\ [TriageNext]_triageVars => TriageTypes'
<1>. SUFFICES ASSUME TriageTypes, [TriageNext]_triageVars PROVE TriageTypes'
  OBVIOUS
<1>0. ToldInv' /\ DOMAIN staff = Staff /\ crashes \in Nat
      /\ attempt \in [Answers -> AttemptStatus]
      /\ \A p \in Staff : staff[p].at \in {"deliver", "sending"} => staff[p].of \in Answers
  BY TriageStep DEF TriageTypes, ToldInv
<1>1. CASE UNCHANGED triageVars
  BY <1>0, <1>1 DEF triageVars, requestVars, messageVars, TriageTypes
<1>2. CASE FileRequest \/ MoveEmployee \/ CloseSource
  BY <1>0, <1>2 DEF FileRequest, MoveEmployee, CloseSource, requestVars, messageVars, TriageTypes
<1>3. ASSUME NEW p \in Staff, ListOpen(p)
      PROVE  TriageTypes'
  BY <1>0, <1>3 DEF ListOpen, requestVars, TriageTypes
<1>4. ASSUME NEW p \in Staff, LookUpScope(p) \/ NotSeen(p) \/ TakeAttempt(p)
      PROVE  TriageTypes'
  BY <1>0, <1>4 DEF LookUpScope, NotSeen, TakeAttempt, Desk, requestVars, messageVars, TriageTypes
<1>5. ASSUME NEW p \in Staff, NEW a \in Answers, RetryDelivery(p, a)
      PROVE  TriageTypes'
  BY <1>0, <1>5 DEF RetryDelivery, Desk, requestVars, messageVars, TriageTypes
<1>6. ASSUME NEW p \in Staff, NEW a \in Answers, Answer(p, a)
      PROVE  TriageTypes'
  <2>1. /\ status' \in {"needs_materials", "in_progress", "resolved"}
        /\ UNCHANGED <<origin, inScope, shown, sourceOpen, crashes>>
    BY <1>6, TriageAssumption DEF Answer
  <2>2. assigned' \in BOOLEAN
    BY <1>6 DEF Answer, Assignable, TriageTypes
  <2>3. attempt' \in [Answers -> AttemptStatus] /\ newest' \subseteq Answers
    BY <1>0, <1>6 DEF Answer, AttemptStatus, TriageTypes
  <2>4. \A q \in Staff : /\ staff'[q].at \in {"desk", "scope", "deliver", "sending"}
                         /\ staff'[q].at = "scope" => staff'[q].sees \in BOOLEAN
    BY <1>0, <1>6 DEF Answer, Desk, TriageTypes
  <2>. QED  BY <1>0, <2>1, <2>2, <2>3, <2>4 DEF TriageTypes
<1>7. ASSUME NEW p \in Staff, Deliver(p)
      PROVE  TriageTypes'
  <2>1. staff[p].of \in Answers /\ Outcome \subseteq AttemptStatus
    BY <1>0, <1>7 DEF Deliver, Outcome, AttemptStatus
  <2>2. attempt' \in [Answers -> AttemptStatus] /\ shown' \subseteq Answers
    BY <1>0, <1>7, <2>1 DEF Deliver, TriageTypes
  <2>3. \A q \in Staff : /\ staff'[q].at \in {"desk", "scope", "deliver", "sending"}
                         /\ staff'[q].at = "scope" => staff'[q].sees \in BOOLEAN
    BY <1>0, <1>7 DEF Deliver, Desk, TriageTypes
  <2>. QED  BY <1>0, <1>7, <2>2, <2>3 DEF Deliver, requestVars, TriageTypes
<1>8. ASSUME NEW p \in Staff, DeliveryCrashes(p)
      PROVE  TriageTypes'
  <2>1. crashes' <= MaxCrashes
    BY <1>0, <1>8, TriageAssumption DEF DeliveryCrashes
  <2>2. \A q \in Staff : /\ staff'[q].at \in {"desk", "scope", "deliver", "sending"}
                         /\ staff'[q].at = "scope" => staff'[q].sees \in BOOLEAN
    BY <1>0, <1>8 DEF DeliveryCrashes, Desk, TriageTypes
  <2>. QED  BY <1>0, <1>8, <2>1, <2>2 DEF DeliveryCrashes, requestVars, TriageTypes
<1>. QED  BY <1>1, <1>2, <1>3, <1>4, <1>5, <1>6, <1>7, <1>8 DEF TriageNext

\* The request is not filed.
LEMMA TriageTypesInit == TriageInit => TriageTypes
<1>. SUFFICES ASSUME TriageInit PROVE TriageTypes
  OBVIOUS
<1>1. \A p \in Staff : staff[p].at = "desk"
  BY DEF TriageInit, Desk
<1>2. attempt \in [Answers -> AttemptStatus] /\ crashes <= MaxCrashes
  BY TriageAssumption DEF TriageInit, AttemptStatus
<1>. QED  BY <1>1, <1>2, ToldInvInit DEF TriageInit, TriageTypes

\* They are the types of the model.
LEMMA TriageIsTyped == TriageTypes => TriageTypeOK
BY TriageAssumption DEF TriageTypes, ToldInv, AttemptStatus, TriageTypeOK

--------------------------------------------------------------------------------
(***************************************************************************)
(* WorkTasks.                                                              *)
(***************************************************************************)

\* The row of the parent, and the transaction a clerk has open.
SomeSubtasks == 0..Cardinality(Subtasks)
ParentRow == [status : {"open", "in_progress", "completed"}, done : Nat, total : SomeSubtasks]
SubRow == SubStatuses \cup {"none"}
Clerk ==
  [at : {"away"}] \cup [at : {"parent"}, seen : SUBSET ParentRow] \cup
  [at : {"read", "flushed"}, of : Subtasks, was : SubRow, to : SubStatuses, writes : BOOLEAN,
   seen : SUBSET ParentRow] \cup
  [at : {"counted"}, of : Subtasks, was : SubRow, to : SubStatuses, writes : BOOLEAN,
   seen : SUBSET ParentRow, total : SomeSubtasks, done : SomeSubtasks]

\* The rows, and what the clerks read of them.
WorkTasksTypes ==
  /\ CountInv
  /\ sub \in [Subtasks -> SubRow] /\ parent \in ParentRow /\ counted \in BOOLEAN
  /\ clerk \in [Clerks -> Clerk]

\* There are no more live or done subtasks than subtasks.
LEMMA CountsAreSmall == \A subs : /\ Cardinality(Live(subs)) \in SomeSubtasks
                                  /\ Cardinality(Done(subs)) \in SomeSubtasks
<1>. SUFFICES ASSUME NEW set \in SUBSET Subtasks PROVE Cardinality(set) \in SomeSubtasks
  BY DEF Live, Done
<1>1. IsFiniteSet(set) /\ Cardinality(set) <= Cardinality(Subtasks)
  BY WorkTasksAssumption, FS_Subset
<1>. QED  BY <1>1, WorkTasksAssumption, FS_CardinalityType DEF SomeSubtasks

\* Every step keeps the types.
LEMMA WorkTasksTypesStep == WorkTasksTypes /\ [WorkTasksNext]_workTasksVars => WorkTasksTypes'
<1>. SUFFICES ASSUME WorkTasksTypes, [WorkTasksNext]_workTasksVars PROVE WorkTasksTypes'
  OBVIOUS
<1>0. CountInv' /\ sub \in [Subtasks -> SubRow] /\ parent \in ParentRow /\ counted \in BOOLEAN
      /\ clerk \in [Clerks -> Clerk] /\ Away \in Clerk
  BY WorkTasksStep DEF WorkTasksTypes, Away, Clerk
<1>1. ASSUME NEW p \in Clerks, NEW to \in Clerk, ClerkGoes(p, to), UNCHANGED <<sub, parent, counted>>
      PROVE  WorkTasksTypes'
  <2>1. clerk' \in [Clerks -> Clerk]
    BY <1>0, <1>1 DEF ClerkGoes
  <2>. QED  BY <1>0, <1>1, <2>1 DEF WorkTasksTypes
<1>2. CASE UNCHANGED workTasksVars
  BY <1>0, <1>2 DEF workTasksVars, WorkTasksTypes
<1>3. ASSUME NEW p \in Clerks, NEW s \in Subtasks, ReadForSubtask(p, s)
      PROVE  WorkTasksTypes'
  <2>. DEFINE to == [at |-> "read", of |-> s, was |-> "none", to |-> "open",
                     writes |-> TRUE, seen |-> {parent}]
  <2>1. to \in Clerk
    BY <1>0 DEF Clerk, SubRow, SubStatuses
  <2>2. ClerkGoes(p, to) /\ UNCHANGED <<sub, parent, counted>>
    BY <1>3 DEF ReadForSubtask
  <2>. HIDE DEF to
  <2>. QED  BY <1>1, <2>1, <2>2
<1>4. ASSUME NEW p \in Clerks, NEW s \in Subtasks, NEW end \in SubStatuses, ReadForUpdate(p, s, end)
      PROVE  WorkTasksTypes'
  <2>. PICK writes \in BOOLEAN : writes = (end # sub[s])
    OBVIOUS
  <2>. DEFINE to == [at |-> "read", of |-> s, was |-> sub[s], to |-> end,
                     writes |-> writes, seen |-> {}]
  <2>1. to \in Clerk
    BY <1>0 DEF Clerk
  <2>2. ClerkGoes(p, to) /\ UNCHANGED <<sub, parent, counted>>
    BY <1>4 DEF ReadForUpdate
  <2>. HIDE DEF to
  <2>. QED  BY <1>1, <2>1, <2>2
<1>5. ASSUME NEW p \in Clerks, Flush(p)
      PROVE  WorkTasksTypes'
  <2>1. clerk[p] \in Clerk /\ clerk[p].at = "read"
    BY <1>0, <1>5 DEF Flush
  <2>2. [clerk[p] EXCEPT !.at = "flushed"] \in Clerk
    BY <2>1 DEF Clerk
  <2>. QED  BY <1>0, <1>1, <1>5, <2>2 DEF Flush
<1>6. ASSUME NEW p \in Clerks, Recount(p)
      PROVE  WorkTasksTypes'
  <2>1. clerk[p] \in Clerk /\ clerk[p].at = "flushed"
    BY <1>0, <1>6 DEF Recount
  <2>2. /\ clerk[p].of \in Subtasks /\ clerk[p].was \in SubRow /\ clerk[p].to \in SubStatuses
        /\ clerk[p].writes \in BOOLEAN /\ clerk[p].seen \in SUBSET ParentRow
    BY <2>1 DEF Clerk
  <2>. PICK seen \in SUBSET ParentRow : seen = IF clerk[p].seen = {} THEN {parent} ELSE clerk[p].seen
    BY <1>0, <2>2
  <2>. PICK total \in SomeSubtasks, done \in SomeSubtasks :
         total = Cardinality(Live(Seen(p))) /\ done = Cardinality(Done(Seen(p)))
    BY CountsAreSmall
  <2>. DEFINE to == [at |-> "counted", of |-> clerk[p].of, was |-> clerk[p].was,
                     to |-> clerk[p].to, writes |-> clerk[p].writes, seen |-> seen,
                     total |-> total, done |-> done]
  <2>3. to \in Clerk
    BY <2>2 DEF Clerk
  <2>4. ClerkGoes(p, to) /\ UNCHANGED <<sub, parent, counted>>
    BY <1>6 DEF Recount
  <2>. HIDE DEF to
  <2>. QED  BY <1>1, <2>3, <2>4
<1>7. ASSUME NEW p \in Clerks, DeadlockAbort(p)
      PROVE  WorkTasksTypes'
  BY <1>0, <1>1, <1>7 DEF DeadlockAbort
<1>8. ASSUME NEW p \in Clerks, CommitSubtask(p)
      PROVE  WorkTasksTypes'
  <2>1. clerk[p] \in Clerk /\ clerk[p].at = "counted"
    BY <1>0, <1>8 DEF CommitSubtask
  <2>2. /\ clerk[p].of \in Subtasks /\ clerk[p].to \in SubStatuses /\ clerk[p].writes \in BOOLEAN
        /\ clerk[p].seen \subseteq ParentRow
        /\ clerk[p].total \in SomeSubtasks /\ clerk[p].done \in SomeSubtasks
    BY <2>1 DEF Clerk
  <2>3. Seen(p) \in [Subtasks -> SubRow]
    BY <1>0, <2>2 DEF Seen, SubRow
  <2>. PICK c : c = clerk[p]
    OBVIOUS
  <2>4. SomeSubtasks \subseteq Nat
    BY WorkTasksAssumption, FS_CardinalityType DEF SomeSubtasks
  <2>5. PICK read \in c.seen : /\ sub' = Seen(p)
                               /\ parent' = IF c.total = 0 THEN parent
                                            ELSE [parent EXCEPT !.total = Changed(read.total, c.total, @),
                                                                !.done = Changed(read.done, c.done, @)]
                               /\ counted' = (c.total > 0 /\ c.was # "none")
    BY <1>8 DEF CommitSubtask
  <2>6. /\ Changed(read.total, c.total, parent.total) \in SomeSubtasks
        /\ Changed(read.done, c.done, parent.done) \in Nat
    BY <1>0, <2>2, <2>4 DEF Changed, ParentRow
  <2>7. parent' \in ParentRow
    BY <1>0, <2>5, <2>6 DEF ParentRow
  <2>8. clerk' \in [Clerks -> Clerk]
    BY <1>0, <1>8 DEF CommitSubtask, ClerkGoes
  <2>9. counted' \in BOOLEAN
    BY <2>5
  <2>. QED  BY <1>0, <2>3, <2>5, <2>7, <2>8, <2>9 DEF WorkTasksTypes
<1>9. ASSUME NEW p \in Clerks, ReadParent(p)
      PROVE  WorkTasksTypes'
  <2>1. [at |-> "parent", seen |-> {parent}] \in Clerk
    BY <1>0 DEF Clerk
  <2>. QED  BY <1>1, <1>9, <2>1 DEF ReadParent
<1>10. ASSUME NEW p \in Clerks, NEW end \in {"open", "completed"}, NEW units \in 0..MaxUnits,
              PatchParent(p, end, units)
       PROVE  WorkTasksTypes'
  <2>1. clerk[p] \in Clerk /\ clerk[p].at = "parent"
    BY <1>0, <1>10 DEF PatchParent
  <2>2. clerk[p].seen \subseteq ParentRow
    BY <2>1 DEF Clerk
  <2>3. PICK read, done, new :
          /\ read \in clerk[p].seen
          /\ done = IF end = "completed" /\ read.total > 0 THEN read.total ELSE units
          /\ new = [status |-> Changed(read.status, end, parent.status),
                    done |-> Changed(read.done, done, parent.done), total |-> parent.total]
          /\ parent' = IF units <= read.total /\ Truthful(new) THEN new ELSE parent
          /\ counted' = (counted /\ ~(units <= read.total /\ Truthful(new)))
    BY <1>10, Zenon DEF PatchParent
  <2>4. SomeSubtasks \subseteq Nat /\ units \in Nat
    BY WorkTasksAssumption, FS_CardinalityType DEF SomeSubtasks
  <2>5. read.total \in Nat
    BY <2>2, <2>3, <2>4 DEF ParentRow
  <2>6. done \in Nat
    BY <2>3, <2>4, <2>5
  <2>7. new \in ParentRow
    BY <1>0, <2>3, <2>6 DEF ParentRow, Changed
  <2>8. parent' \in ParentRow
    BY <1>0, <2>3, <2>7
  <2>9. counted' \in BOOLEAN
    BY <2>3, Zenon
  <2>10. clerk' \in [Clerks -> Clerk] /\ sub' = sub
    BY <1>0, <1>10 DEF PatchParent, ClerkGoes
  <2>. QED  BY <1>0, <2>8, <2>9, <2>10 DEF WorkTasksTypes
<1>11. ASSUME NEW p \in Clerks, AdvanceParent(p)
       PROVE  WorkTasksTypes'
  <2>. PICK done : done = parent.done + 1
    OBVIOUS
  <2>1. done \in Nat
    BY <1>0 DEF ParentRow
  <2>2. parent' = [parent EXCEPT !.done = done, !.status = "in_progress"]
    BY <1>11 DEF AdvanceParent
  <2>3. parent' \in ParentRow
    BY <1>0, <2>1, <2>2 DEF ParentRow
  <2>. QED  BY <1>0, <1>11, <2>3 DEF AdvanceParent, WorkTasksTypes
<1>. QED
  BY <1>2, <1>3, <1>4, <1>5, <1>6, <1>7, <1>8, <1>9, <1>10, <1>11 DEF WorkTasksNext

\* There is no subtask yet.
LEMMA WorkTasksTypesInit == WorkTasksInit => WorkTasksTypes
<1>. SUFFICES ASSUME WorkTasksInit PROVE WorkTasksTypes
  OBVIOUS
<1>1. 0 \in SomeSubtasks
  BY WorkTasksAssumption, FS_CardinalityType DEF SomeSubtasks
<1>2. parent \in ParentRow
  BY <1>1 DEF WorkTasksInit, ParentRow
<1>3. clerk \in [Clerks -> Clerk]
  BY DEF WorkTasksInit, Away, Clerk
<1>. QED  BY <1>2, <1>3, CountInvInit DEF WorkTasksInit, WorkTasksTypes, SubRow

\* They are the types of the model.
LEMMA WorkTasksAreTyped == WorkTasksTypes => WorkTasksTypeOK
<1>1. ASSUME NEW c \in Clerk
      PROVE  c.at \in {"away", "read", "flushed", "counted", "parent"}
  BY DEF Clerk
<1>. QED  BY <1>1 DEF WorkTasksTypes, WorkTasksTypeOK, ParentRow, SubRow, SomeSubtasks

--------------------------------------------------------------------------------
(***************************************************************************)
(* CaseTimeline.                                                           *)
(***************************************************************************)

\* The rows of the timeline, and the transactions.
TimelineStatus == CaseStatus \cup {"same", "owner"}
EventRow == [seq : Nat, status : TimelineStatus]
RunStatus == {"RUNNING", "COMPLETED", "HANDED_OFF", "AWAITING_APPROVAL"}
TodoStep == [op : {"event"}, status : TimelineStatus] \cup {ReadTool, AskStep}
ApprovalKind == {"none", "pending", "approved"}
OpenTx ==
  [at : {"open"}, status : CaseStatus, todo : Seq(TodoStep), seq : Nat, own : SUBSET EventRow,
   takes : ApprovalKind, gives : ApprovalKind, run : RunStatus \cup {"none"}]

\* The open transactions that take an approval of a kind are no more than there are.
Takers(of) == {r \in Handlers : tx[r] # NoTx /\ tx[r].takes = of}
TakersOK(number, of) ==
  number \in Nat /\ IsFiniteSet(Takers(of)) /\ Cardinality(Takers(of)) <= number

\* The case, its timeline, its approvals, and who holds which lock.
TimelineTypes ==
  /\ OrderInv
  /\ caseStatus \in CaseStatus /\ timeline \subseteq EventRow /\ agentRuns \subseteq RunStatus
  /\ advisory \in Handlers \cup {Nobody} /\ rowLock \in Handlers \cup {Nobody}
  /\ tx \in [Handlers -> {NoTx} \cup OpenTx]
  /\ TakersOK(pending, "pending") /\ TakersOK(approved, "approved")

\* An open transaction is a record.
LEMMA TxIsOpen ==
  ASSUME TimelineTypes, NEW r \in Handlers, Busy(r)
  PROVE  tx[r] \in OpenTx /\ tx[r] # NoTx
BY DEF TimelineTypes, Busy, NoTx

\* A transaction goes on with what it took.
LEMMA TakersStay ==
  ASSUME TimelineTypes, NEW r \in Handlers, Busy(r), NEW next \in OpenTx,
         tx' = [tx EXCEPT ![r] = next], next.takes = tx[r].takes, UNCHANGED <<pending, approved>>
  PROVE  /\ tx' \in [Handlers -> {NoTx} \cup OpenTx]
         /\ TakersOK(pending, "pending")' /\ TakersOK(approved, "approved")'
<1>1. tx \in [Handlers -> {NoTx} \cup OpenTx] /\ tx[r] # NoTx /\ next # NoTx
  BY TxIsOpen DEF TimelineTypes, OpenTx, NoTx
<1>2. tx' \in [Handlers -> {NoTx} \cup OpenTx]
  BY <1>1
<1>3. \A of : Takers(of)' = Takers(of)
  BY <1>1 DEF Takers
<1>. QED  BY <1>2, <1>3 DEF TimelineTypes, TakersOK

\* A transaction ends, and hands in what it took.
LEMMA TakersLeave ==
  ASSUME TimelineTypes, NEW r \in Handlers, tx' = [tx EXCEPT ![r] = NoTx],
         NEW of, NEW number, TakersOK(number, of), NEW number2 \in Int,
         number2 >= number \/ (r \in Takers(of) /\ number2 >= number - 1)
  PROVE  TakersOK(number2, of)'
<1>1. tx \in [Handlers -> {NoTx} \cup OpenTx]
  BY DEF TimelineTypes
<1>2. Takers(of)' = Takers(of) \ {r}
  BY <1>1 DEF Takers
<1>3. number \in Nat /\ IsFiniteSet(Takers(of)) /\ Cardinality(Takers(of)) <= number
  BY DEF TakersOK
<1>4. /\ IsFiniteSet(Takers(of) \ {r}) /\ Cardinality(Takers(of)) \in Nat
      /\ Cardinality(Takers(of) \ {r}) =
           IF r \in Takers(of) THEN Cardinality(Takers(of)) - 1 ELSE Cardinality(Takers(of))
  BY <1>3, FS_RemoveElement, FS_CardinalityType
<1>5. Cardinality(Takers(of) \ {r}) \in Nat
  BY <1>4, FS_CardinalityType
<1>6. number2 \in Nat /\ Cardinality(Takers(of) \ {r}) <= number2
  <2>. PICK n, m : n = Cardinality(Takers(of)) /\ m = Cardinality(Takers(of) \ {r})
    OBVIOUS
  <2>1. n \in Nat /\ m \in Nat /\ n <= number /\ number \in Nat
    BY <1>3, <1>4, <1>5
  <2>2. CASE r \in Takers(of)
    <3>1. m = n - 1
      BY <1>4, <2>2
    <3>2. number2 >= number - 1
      BY <2>1
    <3>. QED  BY <2>1, <3>1, <3>2
  <2>3. CASE r \notin Takers(of)
    <3>1. m = n /\ number2 >= number
      BY <1>4, <2>3
    <3>. QED  BY <2>1, <3>1
  <2>. QED  BY <2>2, <2>3
<1>. QED  BY <1>2, <1>4, <1>6 DEF TakersOK

\* A transaction begins, and takes no approval that another one takes.
LEMMA OpenTyped ==
  ASSUME TimelineTypes, NEW r \in Handlers, NEW todo \in Seq(TodoStep),
         NEW run \in RunStatus \cup {"none"}, NEW takes \in ApprovalKind, NEW gives \in ApprovalKind,
         Open(r, todo, run, takes, gives),
         takes = "pending" => Untaken(pending, "pending"),
         takes = "approved" => Untaken(approved, "approved")
  PROVE  TimelineTypes'
<1>. DEFINE next == [at |-> "open", status |-> caseStatus, todo |-> todo, seq |-> 0, own |-> {},
                     takes |-> takes, gives |-> gives, run |-> run]
<1>1. tx' = [tx EXCEPT ![r] = next] /\ tx[r] = NoTx
      /\ UNCHANGED <<caseStatus, timeline, pending, approved, advisory, rowLock, agentRuns>>
  BY DEF Open
<1>2. next \in OpenTx /\ next.takes = takes
  BY DEF TimelineTypes, OpenTx
<1>. HIDE DEF next
<1>3. next # NoTx /\ tx \in [Handlers -> {NoTx} \cup OpenTx]
  BY <1>2 DEF OpenTx, NoTx, TimelineTypes
<1>4. tx' \in [Handlers -> {NoTx} \cup OpenTx]
  BY <1>1, <1>2, <1>3
<1>5. ASSUME NEW of, NEW number, TakersOK(number, of), takes = of => Untaken(number, of)
      PROVE  TakersOK(number, of)'
  <2>1. CASE takes # of
    <3>1. Takers(of)' = Takers(of)
      BY <1>1, <1>2, <1>3, <2>1 DEF Takers
    <3>. QED  BY <1>5, <3>1 DEF TakersOK
  <2>2. CASE takes = of
    <3>1. Takers(of)' = Takers(of) \cup {r} /\ r \notin Takers(of)
      BY <1>1, <1>2, <1>3, <2>2 DEF Takers
    <3>2. Cardinality(Takers(of)) < number /\ IsFiniteSet(Takers(of)) /\ number \in Nat
      BY <1>5, <2>2 DEF Untaken, Takers, TakersOK
    <3>3. /\ IsFiniteSet(Takers(of) \cup {r}) /\ Cardinality(Takers(of)) \in Nat
          /\ Cardinality(Takers(of) \cup {r}) = Cardinality(Takers(of)) + 1
      BY <3>1, <3>2, FS_AddElement, FS_CardinalityType
    <3>4. Cardinality(Takers(of) \cup {r}) <= number
      BY <3>2, <3>3
    <3>. QED  BY <3>1, <3>2, <3>3, <3>4 DEF TakersOK
  <2>. QED  BY <2>1, <2>2
<1>6. TakersOK(pending, "pending")' /\ TakersOK(approved, "approved")'
  <2>1. TakersOK(pending, "pending") /\ TakersOK(approved, "approved")
    BY DEF TimelineTypes
  <2>. PICK m, n : m = pending /\ n = approved /\ m = pending' /\ n = approved'
    BY <1>1
  <2>2. TakersOK(m, "pending")' /\ TakersOK(n, "approved")'
    BY <1>5, <2>1
  <2>. QED  BY <2>2 DEF TakersOK
<1>7. OrderInv'
  BY OpenStep DEF TimelineTypes
<1>. QED  BY <1>1, <1>4, <1>6, <1>7 DEF TimelineTypes

\* The lists of events the handlers write.
LEMMA EventsAreSteps ==
  /\ \A s \in TimelineStatus : Event(s) \in TodoStep /\ <<Event(s)>> \in Seq(TodoStep)
  /\ Hops(caseStatus) \in Seq(TodoStep)
  /\ \A plan \in SavedPlans : plan \in Seq(TodoStep)
<1>1. ASSUME NEW s \in TimelineStatus
      PROVE  Event(s) \in TodoStep /\ <<Event(s)>> \in Seq(TodoStep)
  <2>1. Event(s) \in TodoStep
    BY DEF Event, TodoStep
  <2>. QED  BY <2>1
<1>2. Hops(caseStatus) \in Seq(TodoStep)
  <2>1. Event("TRIAGED") \in TodoStep /\ Event("EVIDENCE_READY") \in TodoStep
    BY <1>1 DEF TimelineStatus, CaseStatus
  <2>. QED  BY <2>1 DEF Hops
<1>3. ASSUME NEW plan \in SavedPlans
      PROVE  plan \in Seq(TodoStep)
  <2>1. {ReadTool, AskStep} \subseteq TodoStep
    BY DEF TodoStep
  <2>2. <<ReadTool>> \in Seq(TodoStep)
    BY <2>1
  <2>3. ASSUME NEW n \in 0..PlanSteps, plan \in [1..n -> {ReadTool, AskStep}]
        PROVE  plan \in Seq(TodoStep)
    <3>1. n \in Nat
      BY TimelineAssumption
    <3>2. plan \in [1..n -> TodoStep]
      BY <2>1, <2>3
    <3>. QED  BY <3>1, <3>2, SeqDef
  <2>. QED  BY <2>2, <2>3 DEF SavedPlans, BoundedSeq, SeqOf
<1>. QED  BY <1>1, <1>2, <1>3

\* Each handler opens a transaction of the type.
LEMMA HandlersOpen ==
  ASSUME TimelineTypes, NEW r \in Handlers,
         PlanCase(r) \/ RunCasePlan(r) \/ RequestOverMcp(r) \/ Decide(r) \/ PrepareWrite(r)
         \/ WorkerMoves(r) \/ AssignCaseOwner(r)
  PROVE  TimelineTypes'
<1>0. /\ {"PLAN_READY", "EXECUTING", "RESOLVED", "FAILED", "same", "owner"} \subseteq TimelineStatus
      /\ {"none", "pending", "approved"} \subseteq ApprovalKind
      /\ {"none", "RUNNING", "COMPLETED"} \subseteq RunStatus \cup {"none"}
      /\ AskStep \in TodoStep
  BY DEF TimelineStatus, CaseStatus, ApprovalKind, RunStatus, TodoStep
<1>1. CASE PlanCase(r)
  <2>1. Hops(caseStatus) \o <<Event("PLAN_READY")>> \in Seq(TodoStep)
    BY <1>0, EventsAreSteps, ConcatProperties
  <2>. QED  BY <1>0, <1>1, <2>1, OpenTyped DEF PlanCase
<1>2. CASE RunCasePlan(r)
  BY <1>0, <1>2, EventsAreSteps, OpenTyped DEF RunCasePlan
<1>3. CASE RequestOverMcp(r)
  <2>1. <<AskStep>> \in Seq(TodoStep)
    BY <1>0
  <2>. QED  BY <1>0, <1>3, <2>1, OpenTyped DEF RequestOverMcp
<1>4. CASE Decide(r)
  <2>1. Event("same") \in TodoStep /\ Event("PLAN_READY") \in TodoStep
    BY <1>0, EventsAreSteps
  <2>2. <<Event("same")>> \in Seq(TodoStep) /\ <<Event("same"), Event("PLAN_READY")>> \in Seq(TodoStep)
    BY <2>1
  <2>. QED  BY <1>0, <1>4, <2>2, OpenTyped DEF Decide
<1>5. CASE PrepareWrite(r)
  BY <1>0, <1>5, EventsAreSteps, OpenTyped DEF PrepareWrite
<1>6. CASE WorkerMoves(r)
  <2>1. PICK target \in {"EXECUTING", "RESOLVED", "FAILED"} :
          Open(r, (IF target = "EXECUTING" THEN <<>> ELSE <<Event("same")>>) \o <<Event(target)>>,
               "none", "none", "none")
    BY <1>6 DEF WorkerMoves
  <2>. PICK first : first = IF target = "EXECUTING" THEN <<>> ELSE <<Event("same")>>
    OBVIOUS
  <2>2. first \in Seq(TodoStep) /\ <<Event(target)>> \in Seq(TodoStep)
    BY <1>0, EventsAreSteps
  <2>3. first \o <<Event(target)>> \in Seq(TodoStep)
    BY <2>2, ConcatProperties
  <2>4. Open(r, first \o <<Event(target)>>, "none", "none", "none")
    BY <2>1
  <2>. QED  BY <1>0, <2>3, <2>4, OpenTyped
<1>7. CASE AssignCaseOwner(r)
  BY <1>0, <1>7, EventsAreSteps, OpenTyped DEF AssignCaseOwner
<1>. QED  BY <1>1, <1>2, <1>3, <1>4, <1>5, <1>6, <1>7

\* The steps of an open transaction.
LEMMA StepsTyped ==
  ASSUME TimelineTypes, NEW r \in Handlers, Busy(r),
         NumberEvent(r) \/ InsertEvent(r) \/ RunReadTool(r) \/ ReuseApproval(r) \/ FlushApproval(r)
  PROVE  TimelineTypes'
<1>. PICK t : t = tx[r]
  OBVIOUS
<1>0. /\ t \in OpenTx /\ t # NoTx /\ t.todo \in Seq(TodoStep) /\ t.todo # <<>>
      /\ Tail(t.todo) \in Seq(TodoStep) /\ Head(t.todo) \in TodoStep
  <2>1. t \in OpenTx /\ t # NoTx /\ t.todo # <<>>
    BY TxIsOpen DEF NumberEvent, InsertEvent, RunReadTool, ReuseApproval, FlushApproval, Doing
  <2>2. t.todo \in Seq(TodoStep)
    BY <2>1 DEF OpenTx
  <2>. QED  BY <2>1, <2>2, HeadTailProperties
<1>1. OrderInv' /\ caseStatus' = caseStatus /\ timeline' = timeline /\ agentRuns' = agentRuns
      /\ UNCHANGED <<pending, approved>>
  BY NumberStep, InsertStep, AskStepKeeps
     DEF TimelineTypes, NumberEvent, InsertEvent, RunReadTool, ReuseApproval, FlushApproval
<1>2. /\ advisory' \in Handlers \cup {Nobody} /\ rowLock' \in Handlers \cup {Nobody}
  BY DEF TimelineTypes, NumberEvent, InsertEvent, RunReadTool, ReuseApproval, FlushApproval
<1>3. ASSUME NEW next \in OpenTx, next.takes = t.takes, tx' = [tx EXCEPT ![r] = next]
      PROVE  TimelineTypes'
  <2>1. /\ tx' \in [Handlers -> {NoTx} \cup OpenTx]
        /\ TakersOK(pending, "pending")' /\ TakersOK(approved, "approved")'
    BY <1>1, <1>3, TakersStay
  <2>. QED  BY <1>1, <1>2, <2>1 DEF TimelineTypes
<1>4. Head(t.todo).op = "event" => Head(t.todo).status \in TimelineStatus
  BY <1>0 DEF TodoStep, ReadTool, AskStep
<1>5. CASE NumberEvent(r)
  <2>1. CASE UNCHANGED tx
    <3>1. TakersOK(pending, "pending")' /\ TakersOK(approved, "approved")'
      BY <1>1, <2>1 DEF TimelineTypes, TakersOK, Takers
    <3>. QED  BY <1>1, <1>2, <2>1, <3>1 DEF TimelineTypes
  <2>2. CASE tx' # tx
    <3>. DEFINE to == Head(tx[r].todo).status
                next == [tx[r] EXCEPT !.seq = MaxSeq(r) + 1, !.status = IF Moves(to) THEN to ELSE @]
    <3>1. tx' = [tx EXCEPT ![r] = next] /\ Head(t.todo).op = "event"
      BY <1>5, <2>2 DEF NumberEvent, Steps, Doing
    <3>2. MaxSeq(r) + 1 \in Nat
      <4>1. IsFiniteSet(timeline \cup tx[r].own)
        BY DEF TimelineTypes, OrderInv, OpenOK, Counted
      <4>. QED  BY <4>1, FS_CardinalityType DEF MaxSeq
    <3>3. (IF Moves(to) THEN to ELSE t.status) \in CaseStatus
      BY <1>0, <1>4, <3>1 DEF Moves, TimelineStatus, OpenTx
    <3>. PICK seq, end : seq = MaxSeq(r) + 1 /\ end = IF Moves(to) THEN to ELSE t.status
      OBVIOUS
    <3>4. next = [t EXCEPT !.seq = seq, !.status = end]
      OBVIOUS
    <3>5. seq \in Nat /\ end \in CaseStatus
      BY <3>2, <3>3
    <3>. HIDE DEF next
    <3>6. next \in OpenTx /\ next.takes = t.takes
      BY <1>0, <3>4, <3>5 DEF OpenTx
    <3>. QED  BY <1>3, <3>1, <3>6
  <2>. QED  BY <2>1, <2>2
<1>6. CASE InsertEvent(r)
  <2>. PICK row : row = [seq |-> t.seq, status |-> Head(t.todo).status]
    OBVIOUS
  <2>. DEFINE next == [Rest(r) EXCEPT !.seq = 0, !.own = @ \cup {row}]
  <2>1. tx' = [tx EXCEPT ![r] = next] /\ Head(t.todo).op = "event"
    BY <1>6 DEF InsertEvent, Steps, Doing
  <2>2. row \in EventRow
    BY <1>0, <1>4, <2>1 DEF EventRow, OpenTx
  <2>3. Rest(r) \in OpenTx /\ Rest(r).takes = t.takes
    BY <1>0 DEF OpenTx, Rest
  <2>4. next \in OpenTx /\ next.takes = t.takes
    BY <2>2, <2>3 DEF OpenTx
  <2>. HIDE DEF next
  <2>. QED  BY <1>3, <2>1, <2>4
<1>7. CASE RunReadTool(r) \/ ReuseApproval(r) \/ FlushApproval(r)
  <2>1. Rest(r) \in OpenTx /\ Rest(r).takes = t.takes
    BY <1>0 DEF OpenTx, Rest
  <2>2. /\ [t EXCEPT !.todo = <<>>, !.run = "HANDED_OFF"] \in OpenTx
        /\ [t EXCEPT !.todo = <<>>, !.run = "HANDED_OFF"].takes = t.takes
    <3>1. <<>> \in Seq(TodoStep) /\ "HANDED_OFF" \in RunStatus
      BY DEF RunStatus
    <3>. QED  BY <1>0, <3>1 DEF OpenTx
  <2>3. CASE RunReadTool(r)
    BY <1>3, <2>1, <2>2, <2>3 DEF RunReadTool, Steps
  <2>4. CASE ReuseApproval(r)
    <3>. DEFINE next == [Rest(r) EXCEPT !.run = IF @ = "none" THEN @ ELSE "AWAITING_APPROVAL"]
    <3>1. next \in OpenTx /\ next.takes = t.takes
      BY <2>1 DEF OpenTx, RunStatus
    <3>2. tx' = [tx EXCEPT ![r] = next]
      BY <2>4 DEF ReuseApproval, Steps
    <3>. HIDE DEF next
    <3>. QED  BY <1>3, <3>1, <3>2
  <2>5. CASE FlushApproval(r)
    <3>. DEFINE next == [t EXCEPT !.todo = <<Event("AWAITING_APPROVAL")>>, !.gives = "pending",
                                  !.status = "AWAITING_APPROVAL",
                                  !.run = IF @ = "none" THEN @ ELSE "AWAITING_APPROVAL"]
    <3>1. <<Event("AWAITING_APPROVAL")>> \in Seq(TodoStep)
      BY EventsAreSteps DEF TimelineStatus, CaseStatus
    <3>. PICK run : run = IF t.run = "none" THEN t.run ELSE "AWAITING_APPROVAL"
      OBVIOUS
    <3>2. run \in RunStatus \cup {"none"} /\ "AWAITING_APPROVAL" \in CaseStatus
          /\ "pending" \in ApprovalKind
      BY DEF RunStatus, CaseStatus, ApprovalKind
    <3>3. next = [t EXCEPT !.todo = <<Event("AWAITING_APPROVAL")>>, !.gives = "pending",
                           !.status = "AWAITING_APPROVAL", !.run = run]
      OBVIOUS
    <3>4. next \in OpenTx /\ next.takes = t.takes
      BY <1>0, <3>1, <3>2, <3>3 DEF OpenTx
    <3>5. tx' = [tx EXCEPT ![r] = next]
      BY <2>5 DEF FlushApproval, Steps
    <3>. HIDE DEF next
    <3>. QED  BY <1>3, <3>4, <3>5
  <2>. QED  BY <1>7, <2>3, <2>4, <2>5
<1>. QED  BY <1>5, <1>6, <1>7

\* A transaction ends: committed, it hands in the approval it took and the one it gives.
LEMMA EndsTyped ==
  ASSUME TimelineTypes, NEW r \in Handlers, Commit(r) \/ Rollback(r)
  PROVE  TimelineTypes'
<1>. PICK t : t = tx[r]
  OBVIOUS
<1>1. Busy(r) /\ t \in OpenTx /\ t # NoTx
  BY TxIsOpen DEF Commit, Rollback, Refused, Deadlocked, Doing
<1>2. OrderInv' /\ tx' = [tx EXCEPT ![r] = NoTx]
  BY CommitStep, RollbackStep DEF TimelineTypes, Commit, Rollback, Steps
<1>3. /\ advisory' \in Handlers \cup {Nobody} /\ rowLock' \in Handlers \cup {Nobody}
      /\ tx' \in [Handlers -> {NoTx} \cup OpenTx]
  BY <1>2 DEF TimelineTypes, Commit, Rollback, Released
<1>4. caseStatus' \in CaseStatus /\ timeline' \subseteq EventRow /\ agentRuns' \subseteq RunStatus
  BY <1>1 DEF TimelineTypes, Commit, Rollback, OpenTx
<1>5. ASSUME NEW of, NEW number, TakersOK(number, of), NEW number2,
             number2 \in {number, number + Moved(r, of)}
      PROVE  TakersOK(number2, of)'
  <2>1. r \in Takers(of) <=> t.takes = of
    BY <1>1 DEF Takers
  <2>2. number \in Nat /\ Moved(r, of) \in {-1, 0, 1} /\ (t.takes # of => Moved(r, of) \in {0, 1})
    <3>. PICK gives, takes : /\ gives = IF t.gives = of THEN 1 ELSE 0
                             /\ takes = IF t.takes = of THEN 1 ELSE 0
      OBVIOUS
    <3>1. Moved(r, of) = gives - takes
      BY DEF Moved
    <3>2. gives \in {0, 1} /\ takes \in {0, 1} /\ (t.takes # of => takes = 0)
      OBVIOUS
    <3>. QED  BY <1>5, <3>1, <3>2 DEF TakersOK
  <2>3. number2 \in Int /\ (number2 >= number \/ (r \in Takers(of) /\ number2 >= number - 1))
    BY <1>5, <2>1, <2>2
  <2>. QED  BY <1>2, <1>5, <2>3, TakersLeave
<1>6. TakersOK(pending, "pending")' /\ TakersOK(approved, "approved")'
  <2>. PICK m, n : m = pending' /\ n = approved'
    OBVIOUS
  <2>1. m \in {pending, pending + Moved(r, "pending")}
        /\ n \in {approved, approved + Moved(r, "approved")}
    BY DEF Commit, Rollback
  <2>2. TakersOK(m, "pending")' /\ TakersOK(n, "approved")'
    BY <1>5, <2>1 DEF TimelineTypes
  <2>. QED  BY <2>2 DEF TakersOK
<1>. QED  BY <1>2, <1>3, <1>4, <1>6 DEF TimelineTypes

\* Every step keeps the types.
LEMMA TimelineTypesStep == TimelineTypes /\ [TimelineNext]_timelineVars => TimelineTypes'
<1>. SUFFICES ASSUME TimelineTypes, [TimelineNext]_timelineVars PROVE TimelineTypes'
  OBVIOUS
<1>1. CASE UNCHANGED timelineVars
  <2>1. OrderInv'
    BY TimelineStep DEF TimelineTypes
  <2>. QED  BY <1>1, <2>1 DEF timelineVars, TimelineTypes, TakersOK, Takers
<1>2. ASSUME NEW r \in Handlers,
             NumberEvent(r) \/ InsertEvent(r) \/ RunReadTool(r) \/ ReuseApproval(r) \/ FlushApproval(r)
      PROVE  TimelineTypes'
  <2>1. Busy(r)
    BY <1>2 DEF NumberEvent, InsertEvent, RunReadTool, ReuseApproval, FlushApproval, Doing
  <2>. QED  BY <1>2, <2>1, StepsTyped
<1>. QED  BY <1>1, <1>2, HandlersOpen, EndsTyped DEF TimelineNext

\* The case is new.
LEMMA TimelineTypesInit == TimelineInit => TimelineTypes
<1>. SUFFICES ASSUME TimelineInit PROVE TimelineTypes
  OBVIOUS
<1>1. caseStatus \in CaseStatus /\ timeline \subseteq EventRow
  BY DEF TimelineInit, CaseStatus, EventRow, TimelineStatus
<1>2. tx = [r \in Handlers |-> NoTx] /\ pending = 0 /\ approved = 0
  BY DEF TimelineInit
<1>3. \A of : Takers(of) = {}
  BY <1>2 DEF Takers
<1>4. TakersOK(pending, "pending") /\ TakersOK(approved, "approved")
  BY <1>2, <1>3, FS_EmptySet DEF TakersOK
<1>. QED  BY <1>1, <1>2, <1>4, OrderInvInit DEF TimelineInit, TimelineTypes

\* They are the types of the model.
LEMMA TimelineIsTyped == TimelineTypes => TimelineTypeOK
BY DEF TimelineTypes, TimelineTypeOK, EventRow, TimelineStatus, RunStatus, TakersOK

--------------------------------------------------------------------------------
(***************************************************************************)
(* Workbench.                                                              *)
(***************************************************************************)

\* The statuses an item of a type may have.
StatusOf(type) == DOMAIN Labels[type] \cup {"none", "resolved", "decided", "cancelled"}

\* The items, the reports that are being drafted, and the page.
WorkbenchTypes ==
  /\ BoardInv
  /\ stamp <= MaxStamp
  /\ \A i \in WorkItems : work[i] \in StatusOf(TypeOf[i])
  /\ drafting \in [WorkItems -> {"none", "asked", "written"}]
  /\ \A i \in WorkItems : drafting[i] # "none" => TypeOf[i] = "weekly_report"
  /\ gathering.next \in 0..(Len(Collectors) + 1)
  /\ board.attention \cup board.resume \cup board.finished \subseteq board.rows

\* What may follow a status of an item is a status of its type.
LEMMA FollowingTyped ==
  ASSUME NEW i \in WorkItems
  PROVE  /\ FollowingStatus(i) \subseteq StatusOf(TypeOf[i])
         /\ TypeOf[i] = "weekly_report" => {"draft", "published"} \subseteq StatusOf(TypeOf[i])
<1>1. /\ \A type \in {"interview_digest", "voice_insight"} :
           {"running", "completed", "failed"} \subseteq DOMAIN Labels[type]
      /\ {"draft", "published"} \subseteq DOMAIN Labels["weekly_report"]
      /\ "asked" \in DOMAIN Labels["policy_qa"]
      /\ {"submitted", "needs_materials", "in_progress"} \subseteq DOMAIN Labels["employee_request"]
      /\ "open" \in DOMAIN Labels["knowledge_feedback"]
      /\ {"in_progress", "waiting", "completed"} \subseteq DOMAIN Labels["work_task"]
  <2>1. /\ DOMAIN AnalysisLabels = {"running", "completed", "failed"}
        /\ DOMAIN ReportLabels = {"draft", "published"} /\ DOMAIN SessionLabels = {"asked"}
        /\ DOMAIN RequestLabels = {"submitted", "needs_materials", "in_progress"}
        /\ DOMAIN CandidateLabels = {"open"}
        /\ DOMAIN TaskLabels = {"in_progress", "waiting", "completed"}
    BY DEF AnalysisLabels, ReportLabels, SessionLabels, RequestLabels, CandidateLabels, TaskLabels
  <2>2. /\ Labels["interview_digest"] = AnalysisLabels /\ Labels["voice_insight"] = AnalysisLabels
        /\ Labels["weekly_report"] = ReportLabels /\ Labels["policy_qa"] = SessionLabels
        /\ Labels["employee_request"] = RequestLabels
        /\ Labels["knowledge_feedback"] = CandidateLabels /\ Labels["work_task"] = TaskLabels
    BY DEF Labels
  <2>. QED  BY <2>1, <2>2
<1>. PICK type : type = TypeOf[i]
  OBVIOUS
<1>. QED  BY <1>1 DEF FollowingStatus, StatusOf

\* An item takes a status of its type, at a new instant.
LEMMA BecomesTyped ==
  ASSUME WorkbenchTypes, NEW i \in WorkItems, NEW end \in StatusOf(TypeOf[i]), Becomes(i, end)
  PROVE  stamp' <= MaxStamp /\ \A j \in WorkItems : work'[j] \in StatusOf(TypeOf[j])
<1>1. stamp \in Nat /\ DOMAIN work = WorkItems
  BY DEF WorkbenchTypes, BoardInv
<1>2. stamp' <= MaxStamp
  BY <1>1, WorkbenchAssumption DEF Becomes
<1>. QED  BY <1>1, <1>2 DEF Becomes, WorkbenchTypes

\* Every step keeps the types.
LEMMA WorkbenchTypesStep == WorkbenchTypes /\ [WorkbenchNext]_workbenchVars => WorkbenchTypes'
<1>. SUFFICES ASSUME WorkbenchTypes, [WorkbenchNext]_workbenchVars PROVE WorkbenchTypes'
  OBVIOUS
<1>0. BoardInv' /\ drafting \in [WorkItems -> {"none", "asked", "written"}]
  BY WorkbenchStep DEF WorkbenchTypes
<1>1. CASE UNCHANGED workbenchVars
  BY <1>0, <1>1 DEF workbenchVars, WorkbenchTypes
<1>2. CASE OpenBoard
  <2>1. gathering'.next \in 0..(Len(Collectors) + 1)
    BY <1>2 DEF OpenBoard, Collectors
  <2>. QED  BY <1>0, <1>2, <2>1 DEF OpenBoard, WorkbenchTypes
<1>3. CASE Gather
  <2>1. gathering'.next \in 0..(Len(Collectors) + 1)
    <3>1. DOMAIN Collectors = 1..6 /\ Len(Collectors) = 6
      BY DEF Collectors
    <3>2. gathering.next \in 1..6 /\ gathering'.next = gathering.next + 1
      BY <1>3, <3>1 DEF Gather
    <3>. QED  BY <3>1, <3>2
  <2>. QED  BY <1>0, <1>3, <2>1 DEF Gather, WorkbenchTypes
<1>4. CASE ShowBoard
  <2>1. gathering'.next \in 0..(Len(Collectors) + 1)
    BY <1>4 DEF ShowBoard, NotGathering, Collectors
  <2>2. board'.attention \cup board'.resume \cup board'.finished \subseteq board'.rows
    <3>. PICK rows : rows = gathering.rows
      OBVIOUS
    <3>. PICK kept : kept = Deduplicated(rows)
      OBVIOUS
    <3>1. /\ kept \subseteq rows /\ Latest(Resumable(kept)) \subseteq kept
          /\ \A some, n : Newest(some, n) \subseteq some
      BY DEF Deduplicated, Latest, Resumable, Newest
    <3>5. PICK open : open = {r \in kept : r.label \in {"failed", "to confirm", "processing"}}
                            \ Latest(Resumable(kept))
      OBVIOUS
    <3>6. PICK done : done = {r \in kept : r.label = "done" /\ Day(r.at) = Day(stamp)}
      OBVIOUS
    <3>2. /\ board'.rows = rows /\ board'.resume = Latest(Resumable(kept))
          /\ board'.attention = Newest(open, AttentionLimit)
          /\ board'.finished = Newest(done, FinishedLimit)
      BY <1>4, <3>5, <3>6 DEF ShowBoard, Buckets
    <3>3. open \subseteq kept /\ done \subseteq kept
      BY <3>5, <3>6
    <3>4. board'.attention \subseteq open /\ board'.finished \subseteq done
      BY <3>1, <3>2
    <3>. QED  BY <3>1, <3>2, <3>3, <3>4
  <2>. QED  BY <1>0, <1>4, <2>1, <2>2 DEF ShowBoard, WorkbenchTypes
<1>5. ASSUME NEW i \in WorkItems, WorkChanges(i) \/ SaveReport(i)
      PROVE  WorkbenchTypes'
  <2>1. PICK end \in StatusOf(TypeOf[i]) : Becomes(i, end)
    BY <1>5, FollowingTyped DEF WorkChanges, SaveReport
  <2>2. UNCHANGED <<drafting, gathering, board>>
    BY <1>5 DEF WorkChanges, SaveReport
  <2>. QED  BY <1>0, <2>1, <2>2, BecomesTyped DEF WorkbenchTypes
<1>6. ASSUME NEW i \in WorkItems, GenerateReport(i) \/ WriteDraft(i)
      PROVE  WorkbenchTypes'
  <2>1. /\ drafting' \in [WorkItems -> {"none", "asked", "written"}]
        /\ \A j \in WorkItems : drafting'[j] # "none" => TypeOf[j] = "weekly_report"
    BY <1>0, <1>6 DEF GenerateReport, WriteDraft, Drafts, WorkbenchTypes
  <2>. QED  BY <1>0, <1>6, <2>1 DEF GenerateReport, WriteDraft, WorkbenchTypes
<1>7. ASSUME NEW i \in WorkItems, StoreReport(i)
      PROVE  WorkbenchTypes'
  <2>1. /\ drafting' \in [WorkItems -> {"none", "asked", "written"}] /\ UNCHANGED <<gathering, board>>
        /\ \A j \in WorkItems : drafting'[j] # "none" => TypeOf[j] = "weekly_report"
    BY <1>0, <1>7 DEF StoreReport, Drafts, WorkbenchTypes
  <2>2. CASE UNCHANGED <<stamp, work, updated>>
    BY <1>0, <2>1, <2>2 DEF WorkbenchTypes
  <2>3. CASE Becomes(i, "draft")
    <3>1. TypeOf[i] = "weekly_report"
      BY <1>7 DEF StoreReport, WorkbenchTypes
    <3>. QED  BY <1>0, <2>1, <2>3, <3>1, FollowingTyped, BecomesTyped DEF WorkbenchTypes
  <2>. QED  BY <1>7, <2>2, <2>3 DEF StoreReport
<1>. QED  BY <1>1, <1>2, <1>3, <1>4, <1>5, <1>6, <1>7 DEF WorkbenchNext

\* Nothing is shown.
LEMMA WorkbenchTypesInit == WorkbenchInit => WorkbenchTypes
<1>. SUFFICES ASSUME WorkbenchInit PROVE WorkbenchTypes
  OBVIOUS
<1>1. stamp <= MaxStamp /\ gathering.next \in 0..(Len(Collectors) + 1)
  BY WorkbenchAssumption DEF WorkbenchInit, NotGathering, Collectors
<1>2. board.attention \cup board.resume \cup board.finished \subseteq board.rows
  BY DEF WorkbenchInit, Nothing
<1>3. \A i \in WorkItems : work[i] \in StatusOf(TypeOf[i])
  BY DEF WorkbenchInit, StatusOf
<1>. QED  BY <1>1, <1>2, <1>3, BoardInvInit DEF WorkbenchInit, WorkbenchTypes

\* They are the types of the model.
LEMMA WorkbenchIsTyped == WorkbenchTypes => WorkbenchTypeOK
<1>. SUFFICES ASSUME WorkbenchTypes PROVE WorkbenchTypeOK
  OBVIOUS
<1>1. stamp \in 0..MaxStamp /\ updated \in [WorkItems -> 0..MaxStamp]
  BY WorkbenchAssumption DEF WorkbenchTypes, BoardInv
<1>. QED  BY <1>1 DEF WorkbenchTypes, WorkbenchTypeOK, StatusOf

--------------------------------------------------------------------------------
(***************************************************************************)
(* Ingestion.                                                              *)
(***************************************************************************)

\* A run, and where a worker stands.
IngestRun ==
  [status : {"pending", "running", "completed", "partial", "failed"}, docs : SUBSET Docs,
   aged : BOOLEAN, queued : BOOLEAN]
IndexerRow ==
  [at : {"rest"}] \cup
  [at : {"loop"}, run : Nat, todo : SUBSET Docs, doc : Docs \cup {"none"}, ok : BOOLEAN, bad : BOOLEAN]
  \cup
  [at : {"embed", "flushed", "upserted", "undone", "compensate"}, run : Nat, todo : SUBSET Docs,
   doc : Docs, ok : BOOLEAN, bad : BOOLEAN]

\* The stores, and the runs with their workers.
StoresOK ==
  /\ kb \in {"open", "listed", "gone"} /\ listed \subseteq Docs /\ hand \in [Docs -> Hands]
  /\ object \subseteq Docs /\ chunks \subseteq Docs /\ vectors \subseteq Docs
RunsOK == ingestRuns \in Seq(IngestRun) /\ Len(ingestRuns) <= MaxRuns
IngestTypes == VectorInv /\ StoresOK /\ RunsOK /\ indexer \in [Indexers -> IndexerRow]

\* A run is written.
LEMMA RunWritten ==
  ASSUME RunsOK, NEW n, NEW run, n \in DOMAIN ingestRuns => run \in IngestRun,
         ingestRuns' = [ingestRuns EXCEPT ![n] = run]
  PROVE  RunsOK'
<1>1. ingestRuns' \in Seq(IngestRun) /\ Len(ingestRuns') = Len(ingestRuns)
  <2>1. CASE n \in DOMAIN ingestRuns
    <3>1. run \in IngestRun
      BY <2>1
    <3>. QED  BY <2>1, <3>1, ExceptSeq DEF RunsOK
  <2>2. CASE n \notin DOMAIN ingestRuns
    <3>1. ingestRuns' = ingestRuns
      BY <2>2 DEF RunsOK
    <3>. QED  BY <3>1 DEF RunsOK
  <2>. QED  BY <2>1, <2>2
<1>. QED  BY <1>1 DEF RunsOK

\* A run of the list is a record.
LEMMA RunIsTyped ==
  ASSUME RunsOK, NEW n \in DOMAIN ingestRuns
  PROVE  ingestRuns[n] \in IngestRun /\ n \in Nat
BY DEF RunsOK

\* Runs that are too old fail.
LEMMA ExpiredTyped ==
  ASSUME RunsOK
  PROVE  Expired \in Seq(IngestRun) /\ Len(Expired) = Len(ingestRuns)
<1>1. Len(ingestRuns) \in Nat /\ DOMAIN ingestRuns = 1..Len(ingestRuns)
  BY DEF RunsOK
<1>2. ASSUME NEW n \in DOMAIN ingestRuns
      PROVE  Expired[n] \in IngestRun
  <2>. PICK run : run = ingestRuns[n]
    OBVIOUS
  <2>1. run \in IngestRun /\ [run EXCEPT !.status = "failed"] \in IngestRun
    BY RunIsTyped DEF IngestRun
  <2>. QED  BY <2>1 DEF Expired
<1>3. Expired \in [1..Len(ingestRuns) -> IngestRun]
  BY <1>1, <1>2 DEF Expired
<1>. QED  BY <1>1, <1>3, IsASeq, LenProperties

\* Upload and deletion.
LEMMA HandTyped ==
  ASSUME IngestTypes, NEW d \in Docs,
         Upload(d) \/ InsertRow(d) \/ DeleteDocument(d) \/ RemoveObject(d) \/ RemoveVectors(d)
  PROVE  IngestTypes'
<1>1. VectorInv'
  BY HandStep DEF IngestTypes
<1>2. UNCHANGED <<ingestRuns, indexer>>
  BY DEF Upload, InsertRow, DeleteDocument, RemoveObject, RemoveVectors
<1>3. PICK at \in Hands : hand' = [hand EXCEPT ![d] = at]
  BY DEF Upload, InsertRow, DeleteDocument, RemoveObject, RemoveVectors, Hand, Hands
<1>4. UNCHANGED <<kb, listed>> /\ object' \subseteq object \cup {d} /\ chunks' \subseteq chunks
      /\ vectors' \subseteq vectors
  BY DEF Upload, InsertRow, DeleteDocument, RemoveObject, RemoveVectors
<1>5. StoresOK'
  BY <1>3, <1>4 DEF IngestTypes, StoresOK
<1>. QED  BY <1>1, <1>2, <1>5 DEF IngestTypes, RunsOK

\* The base, its list of documents, and its runs.
LEMMA BaseTyped ==
  ASSUME IngestTypes,
         \/ ListKb \/ DeleteKb \/ ListDocuments \/ TriggerIngestion
         \/ \E n \in DOMAIN ingestRuns : RunAges(n)
         \/ UNCHANGED ingestVars
  PROVE  IngestTypes'
<1>1. VectorInv' /\ UNCHANGED indexer
  BY BaseStep
     DEF IngestTypes, ListKb, DeleteKb, ListDocuments, TriggerIngestion, RunAges, ingestVars
<1>2. CASE ListKb \/ DeleteKb \/ UNCHANGED ingestVars
  <2>1. hand' \in [Docs -> Hands] /\ UNCHANGED ingestRuns
    BY <1>2 DEF ListKb, DeleteKb, ingestVars, Hands, IngestTypes, StoresOK
  <2>2. StoresOK'
    BY <1>2, <2>1 DEF ListKb, DeleteKb, ingestVars, Rows, IngestTypes, StoresOK
  <2>. QED  BY <1>1, <2>1, <2>2 DEF IngestTypes, RunsOK
<1>3. CASE ListDocuments
  <2>1. StoresOK'
    BY <1>3 DEF ListDocuments, IngestTypes, StoresOK
  <2>2. RunsOK'
    BY <1>3, ExpiredTyped DEF ListDocuments, IngestTypes, RunsOK
  <2>. QED  BY <1>1, <2>1, <2>2 DEF IngestTypes
<1>4. CASE TriggerIngestion
  <2>1. StoresOK'
    BY <1>4 DEF TriggerIngestion, IngestTypes, StoresOK
  <2>2. PICK run \in IngestRun : ingestRuns' = Append(Expired, run)
    <3>. PICK claimed \in SUBSET Docs : claimed = {d \in Docs : Swept[d] \in {"uploaded", "error"}}
      OBVIOUS
    <3>. DEFINE run == [status |-> "pending", docs |-> claimed, aged |-> FALSE, queued |-> FALSE]
    <3>1. run \in IngestRun
      BY DEF IngestRun
    <3>2. \/ ingestRuns' = Append(Expired, [run EXCEPT !.queued = TRUE])
          \/ ingestRuns' = Append(Expired, run)
          \/ ingestRuns' = Append(Expired, [run EXCEPT !.status = "failed"])
      BY <1>4 DEF TriggerIngestion
    <3>. HIDE DEF run
    <3>3. [run EXCEPT !.queued = TRUE] \in IngestRun /\ [run EXCEPT !.status = "failed"] \in IngestRun
      BY <3>1 DEF IngestRun
    <3>. QED  BY <3>1, <3>2, <3>3
  <2>3. ingestRuns' \in Seq(IngestRun) /\ Len(ingestRuns') = Len(ingestRuns) + 1
    BY <2>2, ExpiredTyped, AppendProperties DEF IngestTypes
  <2>4. Len(ingestRuns) < MaxRuns /\ Len(ingestRuns) \in Nat
    BY <1>4 DEF TriggerIngestion, IngestTypes, RunsOK
  <2>5. RunsOK'
    BY <2>3, <2>4, IngestionAssumption DEF RunsOK
  <2>. QED  BY <1>1, <2>1, <2>5 DEF IngestTypes
<1>5. ASSUME NEW n \in DOMAIN ingestRuns, RunAges(n)
      PROVE  IngestTypes'
  <2>1. StoresOK'
    BY <1>5 DEF RunAges, IngestTypes, StoresOK
  <2>2. [ingestRuns[n] EXCEPT !.aged = TRUE] \in IngestRun
    BY RunIsTyped DEF IngestTypes, IngestRun
  <2>3. RunsOK'
    BY <1>5, <2>2, RunWritten DEF RunAges, IngestTypes
  <2>. QED  BY <1>1, <2>1, <2>3 DEF IngestTypes
<1>. QED  BY <1>2, <1>3, <1>4, <1>5

\* A worker with a document.
LEMMA WorkingTyped ==
  ASSUME IngestTypes, NEW w \in Indexers,
         indexer[w].at \in {"embed", "flushed", "upserted", "undone", "compensate"}
  PROVE  /\ indexer[w].doc \in Docs /\ IndexerRests \in IndexerRow
         /\ \A at \in {"flushed", "upserted", "undone", "compensate"} : [indexer[w] EXCEPT !.at = at] \in IndexerRow
         /\ [indexer[w] EXCEPT !.at = "loop", !.bad = TRUE] \in IndexerRow
         /\ [indexer[w] EXCEPT !.at = "loop", !.ok = TRUE] \in IndexerRow
<1>1. indexer[w] \in IndexerRow
  BY DEF IngestTypes
<1>2. indexer[w] \in [at : {"embed", "flushed", "upserted", "undone", "compensate"}, run : Nat,
                      todo : SUBSET Docs, doc : Docs, ok : BOOLEAN, bad : BOOLEAN]
  BY <1>1 DEF IndexerRow
<1>3. IndexerRests \in IndexerRow
  BY DEF IndexerRow, IndexerRests
<1>. QED  BY <1>2, <1>3 DEF IndexerRow

\* The workers.
LEMMA WorkersTyped ==
  ASSUME IngestTypes, NEW w \in Indexers,
         \/ EmbedFails(w) \/ FlushChunks(w) \/ FlushRefused(w) \/ Upsert(w) \/ UpsertFails(w)
         \/ CommitChunks(w) \/ CommitFails(w) \/ Compensate(w) \/ FinishRun(w) \/ IndexerDies(w)
         \/ \E n \in DOMAIN ingestRuns : TakeRun(w, n)
         \/ \E d \in Docs : NextDocument(w, d)
  PROVE  IngestTypes'
<1>0. VectorInv' /\ IndexerRests \in IndexerRow /\ indexer[w] \in IndexerRow
  BY WorkerStep DEF IngestTypes, IndexerRow, IndexerRests
<1>1. ASSUME NEW row \in IndexerRow, Place(w, row), StoresOK', RunsOK'
      PROVE  IngestTypes'
  BY <1>0, <1>1 DEF Place, IngestTypes
<1>2. CASE EmbedFails(w) \/ Compensate(w)
  <2>1. indexer[w].at \in {"embed", "undone", "compensate"} /\ DocumentFails(w)
        /\ vectors' \subseteq vectors /\ UNCHANGED <<kb, listed, object, chunks, hand, ingestRuns>>
    BY <1>2 DEF EmbedFails, Compensate
  <2>2. StoresOK' /\ RunsOK'
    BY <2>1 DEF IngestTypes, StoresOK, RunsOK
  <2>. QED  BY <1>1, <2>1, <2>2, WorkingTyped DEF DocumentFails
<1>3. CASE FlushChunks(w) \/ FlushRefused(w) \/ Upsert(w) \/ UpsertFails(w) \/ CommitFails(w)
  <2>1. indexer[w].at \in {"embed", "flushed", "upserted"}
        /\ UNCHANGED <<kb, listed, object, chunks, hand, ingestRuns>>
        /\ vectors' \subseteq vectors \cup {indexer[w].doc}
    BY <1>3 DEF FlushChunks, FlushRefused, Upsert, MayUpsert, UpsertFails, CommitFails
  <2>2. StoresOK' /\ RunsOK'
    BY <2>1, WorkingTyped DEF IngestTypes, StoresOK, RunsOK
  <2>. QED
    BY <1>1, <1>3, <2>1, <2>2, WorkingTyped
       DEF FlushChunks, FlushRefused, Upsert, UpsertFails, CommitFails, Working
<1>4. CASE CommitChunks(w)
  <2>1. indexer[w].at = "upserted" /\ UNCHANGED <<kb, listed, object, vectors, hand, ingestRuns>>
        /\ chunks' = chunks \cup {indexer[w].doc}
    BY <1>4 DEF CommitChunks
  <2>2. StoresOK' /\ RunsOK'
    BY <2>1, WorkingTyped DEF IngestTypes, StoresOK, RunsOK
  <2>. QED  BY <1>1, <1>4, <2>1, <2>2, WorkingTyped DEF CommitChunks
<1>5. CASE FinishRun(w)
  <2>. PICK n, end : /\ n = indexer[w].run
                     /\ end = IF ~indexer[w].bad THEN "completed"
                              ELSE IF indexer[w].ok THEN "partial" ELSE "failed"
    OBVIOUS
  <2>1. ingestRuns' = [ingestRuns EXCEPT ![n] = [ingestRuns[n] EXCEPT !.docs = {}, !.status = end]]
    BY <1>5 DEF FinishRun
  <2>2. n \in DOMAIN ingestRuns => [ingestRuns[n] EXCEPT !.docs = {}, !.status = end] \in IngestRun
    BY RunIsTyped DEF IngestTypes, IngestRun
  <2>3. RunsOK'
    BY <2>1, <2>2, RunWritten DEF IngestTypes
  <2>4. StoresOK' /\ Place(w, IndexerRests)
    BY <1>5 DEF FinishRun, IngestTypes, StoresOK
  <2>. QED  BY <1>0, <1>1, <2>3, <2>4
<1>6. CASE IndexerDies(w)
  <2>1. PICK again \in BOOLEAN : ingestRuns' = [ingestRuns EXCEPT ![indexer[w].run].queued = again]
    BY <1>6 DEF IndexerDies
  <2>. PICK n : n = indexer[w].run
    OBVIOUS
  <2>2. n \in DOMAIN ingestRuns => [ingestRuns[n] EXCEPT !.queued = again] \in IngestRun
    BY RunIsTyped DEF IngestTypes, IngestRun
  <2>3. RunsOK'
    BY <2>1, <2>2, RunWritten DEF IngestTypes
  <2>4. StoresOK' /\ Place(w, IndexerRests)
    BY <1>6 DEF IndexerDies, IngestTypes, StoresOK
  <2>. QED  BY <1>0, <1>1, <2>3, <2>4
<1>7. ASSUME NEW n \in DOMAIN ingestRuns, TakeRun(w, n)
      PROVE  IngestTypes'
  <2>. PICK end : end = IF kb = "gone" THEN "failed" ELSE "running"
    OBVIOUS
  <2>1. ingestRuns[n] \in IngestRun /\ n \in Nat
    BY RunIsTyped DEF IngestTypes
  <2>2. ingestRuns' = [ingestRuns EXCEPT ![n] = [ingestRuns[n] EXCEPT !.queued = FALSE, !.status = end]]
    BY <1>7 DEF TakeRun
  <2>3. [ingestRuns[n] EXCEPT !.queued = FALSE, !.status = end] \in IngestRun
    BY <2>1 DEF IngestRun
  <2>4. RunsOK'
    BY <2>2, <2>3, RunWritten DEF IngestTypes
  <2>5. [at |-> "loop", run |-> n, todo |-> ingestRuns[n].docs, doc |-> "none",
         ok |-> FALSE, bad |-> FALSE] \in IndexerRow
    BY <2>1 DEF IngestRun, IndexerRow
  <2>6. StoresOK'
    BY <1>7 DEF TakeRun, IngestTypes, StoresOK
  <2>. QED  BY <1>0, <1>1, <1>7, <2>4, <2>5, <2>6 DEF TakeRun
<1>8. ASSUME NEW d \in Docs, NextDocument(w, d)
      PROVE  IngestTypes'
  <2>. DEFINE Loop == [at : {"loop"}, run : Nat, todo : SUBSET Docs, doc : Docs \cup {"none"},
                       ok : BOOLEAN, bad : BOOLEAN]
  <2>1. indexer[w] \in Loop
    BY <1>0, <1>8 DEF NextDocument, IndexerRow
  <2>2. /\ [indexer[w] EXCEPT !.at = "embed", !.doc = d, !.todo = @ \ {d}] \in IndexerRow
        /\ [indexer[w] EXCEPT !.bad = TRUE, !.todo = @ \ {d}] \in IndexerRow
    BY <2>1 DEF IndexerRow
  <2>3. StoresOK' /\ RunsOK'
    BY <1>8 DEF NextDocument, IngestTypes, StoresOK, RunsOK
  <2>. QED  BY <1>1, <1>8, <2>2, <2>3 DEF NextDocument
<1>. QED  BY <1>2, <1>3, <1>4, <1>5, <1>6, <1>7, <1>8

\* Every step keeps the types.
LEMMA IngestTypesStep == IngestTypes /\ [IngestNext]_ingestVars => IngestTypes'
BY HandTyped, BaseTyped, WorkersTyped DEF IngestNext

\* The base is empty.
LEMMA IngestTypesInit == IngestInit => IngestTypes
<1>. SUFFICES ASSUME IngestInit PROVE IngestTypes
  OBVIOUS
<1>1. StoresOK
  BY DEF IngestInit, StoresOK, Hands
<1>2. RunsOK
  BY IngestionAssumption DEF IngestInit, RunsOK
<1>3. indexer \in [Indexers -> IndexerRow]
  BY DEF IngestInit, IndexerRests, IndexerRow
<1>. QED  BY <1>1, <1>2, <1>3, VectorInvInit DEF IngestTypes

\* They are the types of the model.
LEMMA IngestIsTyped == IngestTypes => IngestTypeOK
BY RunIsTyped DEF IngestTypes, VectorInv, StoresOK, RunsOK, IngestRun, IngestTypeOK

--------------------------------------------------------------------------------
(***************************************************************************)
(* Answering.                                                              *)
(***************************************************************************)

\* What a saved answer says, the places of a request, and the fields it has there.
Sayings == {"answer", "refusal", "safe reply", "no evidence", "low confidence"}
TurnRow == [says : Sayings, cited : BOOLEAN]
Stops == {"none", "answered", "failed"}

Stopped(q) == "at" \in DOMAIN q /\ q.at \in Stops
Asked(q) ==
  /\ {"at", "stream", "found"} \subseteq DOMAIN q
  /\ q.at \in Midway /\ q.stream \in BOOLEAN
CallOK(q) ==
  /\ {"partly", "first", "todo", "calls"} \subseteq DOMAIN q
  /\ q.partly \subseteq Providers /\ q.calls \subseteq {<<p, ModelOf[p]>> : p \in Providers}
  /\ q.first \in Providers /\ q.todo \subseteq Providers /\ q.todo # {}
UnderWay(q) ==
  /\ Asked(q)
  /\ q.at \in {"call", "guard"} => CallOK(q)
  /\ q.at = "save" => "text" \in DOMAIN q /\ q.text \in Sayings

\* The session, and the requests.
SessionOK ==
  /\ shownRows \subseteq Policies /\ activeModel \in Providers
  /\ turns \in Seq(TurnRow) /\ Len(turns) <= MaxTurns /\ rated \subseteq DOMAIN turns
DialoguesOK == DOMAIN ask = Dialogues /\ \A r \in Dialogues : Stopped(ask[r]) \/ UnderWay(ask[r])
AnsweringTypes == SessionOK /\ DialoguesOK

\* A request goes on as it should.
LEMMA GoesOnTyped ==
  ASSUME AnsweringTypes, NEW r \in Dialogues, NEW next, To(r, next),
         Stopped(next) \/ UnderWay(next), SessionOK'
  PROVE  AnsweringTypes'
BY DEF AnsweringTypes, DialoguesOK, To

\* And so it is when it fails.
LEMMA FailsTyped ==
  ASSUME AnsweringTypes, NEW r \in Dialogues, Fails(r), SessionOK'
  PROVE  AnsweringTypes'
<1>. DEFINE next == [at |-> "failed"]
<1>1. To(r, next)
  BY DEF Fails
<1>2. Stopped(next)
  BY DEF Stopped, Stops
<1>. HIDE DEF next
<1>. QED  BY <1>1, <1>2, GoesOnTyped

\* The session stands still.
LEMMA SessionStays ==
  ASSUME SessionOK, UNCHANGED <<shownRows, activeModel, turns, rated>>
  PROVE  SessionOK'
BY DEF SessionOK

\* A request that ends with a reply of its own.
LEMMA RepliesTyped ==
  ASSUME NEW q, {"at", "stream", "found"} \subseteq DOMAIN q, q.stream \in BOOLEAN, NEW text \in Sayings
  PROVE  UnderWay(Overlaid(q, [at |-> "save", text |-> text]))
<1>. DEFINE fields == [at |-> "save", text |-> text]
            next == Overlaid(q, fields)
<1>1. DOMAIN fields = {"at", "text"} /\ fields["at"] = "save" /\ fields["text"] = text
  OBVIOUS
<1>. HIDE DEF fields
<1>2. /\ DOMAIN next = DOMAIN q \cup {"at", "text"} /\ next["at"] = "save" /\ next["text"] = text
      /\ next["stream"] = q["stream"]
  BY <1>1 DEF Overlaid
<1>. HIDE DEF next
<1>3. UnderWay(next)
  BY <1>2 DEF UnderWay, Asked, Midway
<1>. QED  BY <1>3 DEF next, fields

\* A question is asked.
LEMMA AskTyped ==
  ASSUME AnsweringTypes, NEW r \in Dialogues, NEW stream \in BOOLEAN, NEW text, AskPolicy(r, stream, text)
  PROVE  AnsweringTypes'
<1>1. PICK history : LET asked == [at |-> "retrieve", stream |-> stream, history |-> history,
                                   found |-> {}, told |-> {}, missing |-> {}] IN
        \/ To(r, asked) \/ Fails(r)
        \/ To(r, Overlaid(asked, [at |-> "save", text |-> "refusal"]))
  BY DEF AskPolicy
<1>2. SessionOK'
  BY SessionStays DEF AskPolicy, AnsweringTypes
<1>. DEFINE asked == [at |-> "retrieve", stream |-> stream, history |-> history,
                      found |-> {}, told |-> {}, missing |-> {}]
<1>3. {"at", "stream", "found"} \subseteq DOMAIN asked /\ asked.stream \in BOOLEAN /\ asked.at = "retrieve"
  OBVIOUS
<1>. HIDE DEF asked
<1>4. CASE To(r, asked)
  <2>1. UnderWay(asked)
    BY <1>3 DEF UnderWay, Asked, Midway
  <2>. QED  BY <1>2, <1>4, <2>1, GoesOnTyped
<1>5. CASE Fails(r)
  BY <1>2, <1>5, FailsTyped
<1>6. CASE To(r, Overlaid(asked, [at |-> "save", text |-> "refusal"]))
  <2>1. UnderWay(Overlaid(asked, [at |-> "save", text |-> "refusal"]))
    BY <1>3, RepliesTyped DEF Sayings
  <2>. QED  BY <1>2, <1>6, <2>1, GoesOnTyped
<1>. QED  BY <1>1, <1>4, <1>5, <1>6 DEF asked

\* A search.
LEMMA RetrieveTyped ==
  ASSUME AnsweringTypes, NEW r \in Dialogues, Retrieve(r)
  PROVE  AnsweringTypes'
<1>1. SessionOK'
  BY SessionStays DEF Retrieve, AnsweringTypes
<1>2. \/ Fails(r)
      \/ \E at \in {"variant", "screen"} : \E found, told, missing :
           Still(r, [at |-> at, found |-> found, told |-> told, missing |-> missing])
  <2>1. \A rewriting : AfterSearch(r, rewriting) \in {"variant", "screen"}
    BY DEF AfterSearch
  <2>2. \/ Fails(r)
        \/ \E rewriting, found, told, missing :
             Still(r, [at |-> AfterSearch(r, rewriting), found |-> found,
                       told |-> told, missing |-> missing])
    BY Zenon DEF Retrieve
  <2>. QED  BY <2>1, <2>2
<1>3. CASE Fails(r)
  BY <1>1, <1>3, FailsTyped
<1>4. ASSUME NEW at \in {"variant", "screen"}, NEW found, NEW told, NEW missing,
             Still(r, [at |-> at, found |-> found, told |-> told, missing |-> missing])
      PROVE  AnsweringTypes'
  <2>. DEFINE fields == [at |-> at, found |-> found, told |-> told, missing |-> missing]
              next == Overlaid(ask[r], fields)
  <2>1. To(r, next)
    BY <1>4 DEF Still
  <2>2. DOMAIN fields = {"at", "found", "told", "missing"} /\ fields["at"] = at
    OBVIOUS
  <2>3. Asked(ask[r])
    BY DEF Retrieve, AnsweringTypes, DialoguesOK, Stopped, Stops, UnderWay
  <2>. HIDE DEF fields
  <2>4. /\ {"at", "stream", "found"} \subseteq DOMAIN next /\ next["at"] = at
        /\ next["stream"] = ask[r]["stream"]
    BY <2>2, <2>3 DEF Asked, Overlaid
  <2>. HIDE DEF next
  <2>5. UnderWay(next)
    BY <2>3, <2>4 DEF UnderWay, Asked, Midway
  <2>. QED  BY <1>1, <2>1, <2>5, GoesOnTyped
<1>. QED  BY <1>2, <1>3, <1>4

\* What was found is screened, and the request routed.
LEMMA ScreenTyped ==
  ASSUME AnsweringTypes, NEW r \in Dialogues, Screen(r)
  PROVE  AnsweringTypes'
<1>1. SessionOK'
  BY SessionStays DEF Screen, AnsweringTypes
<1>2. Asked(ask[r])
  BY DEF Screen, AnsweringTypes, DialoguesOK, Stopped, Stops, UnderWay
<1>3. CASE Fails(r)
  BY <1>1, <1>3, FailsTyped
<1>4. CASE Still(r, [at |-> "save", text |-> "safe reply"])
  <2>1. UnderWay(Overlaid(ask[r], [at |-> "save", text |-> "safe reply"]))
    BY <1>2, RepliesTyped DEF Asked, Sayings
  <2>. QED  BY <1>1, <1>4, <2>1, GoesOnTyped DEF Still
<1>5. ASSUME NEW first \in Providers,
             Still(r, [at |-> "call", partly |-> {}, first |-> first, todo |-> Providers, calls |-> {}])
      PROVE  AnsweringTypes'
  <2>. DEFINE fields == [at |-> "call", partly |-> {}, first |-> first, todo |-> Providers, calls |-> {}]
              next == Overlaid(ask[r], fields)
  <2>1. To(r, next)
    BY <1>5 DEF Still
  <2>2. /\ DOMAIN fields = {"at", "partly", "first", "todo", "calls"} /\ fields["at"] = "call"
        /\ fields["partly"] = {} /\ fields["first"] = first /\ fields["todo"] = Providers
        /\ fields["calls"] = {}
    OBVIOUS
  <2>. HIDE DEF fields
  <2>3. /\ {"at", "stream", "found", "partly", "first", "todo", "calls"} \subseteq DOMAIN next
        /\ next["at"] = "call" /\ next["stream"] = ask[r]["stream"] /\ next["partly"] = {}
        /\ next["first"] = first /\ next["todo"] = Providers /\ next["calls"] = {}
    BY <1>2, <2>2 DEF Asked, Overlaid
  <2>. HIDE DEF next
  <2>4. Asked(next)
    BY <1>2, <2>3 DEF Asked, Midway
  <2>5. CallOK(next)
    BY <2>3 DEF CallOK, Providers
  <2>6. UnderWay(next)
    BY <2>3, <2>4, <2>5 DEF UnderWay
  <2>. QED  BY <1>1, <2>1, <2>6, GoesOnTyped
<1>6. Routed(ask[r].stream) \in Providers
  BY DEF Routed, Providers, AnsweringTypes, SessionOK
<1>. QED  BY <1>3, <1>4, <1>5, <1>6 DEF Screen

\* A request that calls: the provider it is at, and the calls it has made.
LEMMA CallTyped ==
  ASSUME AnsweringTypes, NEW r \in Dialogues, ask[r].at = "call"
  PROVE  /\ Asked(ask[r]) /\ CallOK(ask[r])
         /\ Current(r) \in ask[r].todo /\ Current(r) \in Providers
         /\ Called(r) \subseteq {<<p, ModelOf[p]>> : p \in Providers}
<1>1. Asked(ask[r]) /\ CallOK(ask[r])
  BY DEF AnsweringTypes, DialoguesOK, Stopped, Stops, UnderWay
<1>2. Current(r) \in ask[r].todo /\ Current(r) \in Providers
  BY <1>1 DEF Current, CallOK
<1>3. Called(r) = ask[r].calls \cup {<<Current(r), ModelOf[Current(r)]>>}
  BY DEF Called, ModelFor
<1>. PICK provider : provider = Current(r)
  OBVIOUS
<1>4. Called(r) \subseteq {<<p, ModelOf[p]>> : p \in Providers}
  BY <1>1, <1>2, <1>3 DEF CallOK
<1>. QED  BY <1>1, <1>2, <1>4

\* A provider answers.
LEMMA AnswersTyped ==
  ASSUME AnsweringTypes, NEW r \in Dialogues, ProviderAnswers(r)
  PROVE  AnsweringTypes'
<1>1. SessionOK'
  BY SessionStays DEF ProviderAnswers, AnsweringTypes
<1>. PICK calls : calls = Called(r)
  OBVIOUS
<1>2. /\ Asked(ask[r]) /\ CallOK(ask[r])
      /\ calls \subseteq {<<p, ModelOf[p]>> : p \in Providers}
  BY CallTyped DEF ProviderAnswers
<1>3. PICK text : Still(r, [at |-> "guard", text |-> text, calls |-> calls])
  BY DEF ProviderAnswers
<1>. DEFINE fields == [at |-> "guard", text |-> text, calls |-> calls]
            next == Overlaid(ask[r], fields)
<1>4. To(r, next)
  BY <1>3 DEF Still
<1>5. DOMAIN fields = {"at", "text", "calls"} /\ fields["at"] = "guard" /\ fields["calls"] = calls
  OBVIOUS
<1>. HIDE DEF fields
<1>6. /\ {"at", "stream", "found", "partly", "first", "todo", "calls"} \subseteq DOMAIN next
      /\ next["at"] = "guard" /\ next["calls"] = calls
      /\ \A f \in {"stream", "partly", "first", "todo"} : next[f] = ask[r][f]
  BY <1>2, <1>5 DEF Asked, CallOK, Overlaid
<1>. HIDE DEF next
<1>7. Asked(next)
  BY <1>2, <1>6 DEF Asked, Midway
<1>8. CallOK(next)
  BY <1>2, <1>6 DEF CallOK
<1>9. UnderWay(next)
  BY <1>6, <1>7, <1>8 DEF UnderWay
<1>. QED  BY <1>1, <1>4, <1>9, GoesOnTyped

\* A provider fails, and the next one is asked.
LEMMA ProviderFailsTyped ==
  ASSUME AnsweringTypes, NEW r \in Dialogues, ProviderFails(r)
  PROVE  AnsweringTypes'
<1>1. SessionOK'
  BY SessionStays DEF ProviderFails, AnsweringTypes
<1>. PICK calls, left : calls = Called(r) /\ left = ask[r].todo \ {Current(r)}
  OBVIOUS
<1>2. /\ Asked(ask[r]) /\ CallOK(ask[r]) /\ Current(r) \in ask[r].todo /\ Current(r) \in Providers
      /\ calls \subseteq {<<p, ModelOf[p]>> : p \in Providers}
  BY CallTyped DEF ProviderFails
<1>3. CASE Fails(r)
  BY <1>1, <1>3, FailsTyped
<1>4. ASSUME Cardinality(ask[r].todo) # 1, NEW brought \in Brought(r),
             Still(r, [todo |-> left, calls |-> calls, partly |-> ask[r].partly \cup brought])
      PROVE  AnsweringTypes'
  <2>. PICK partly : partly = ask[r].partly \cup brought
    OBVIOUS
  <2>1. partly \subseteq Providers
    BY <1>2 DEF Brought, CallOK
  <2>2. left # {} /\ left \subseteq Providers
    <3>1. CASE ask[r].todo = {Current(r)}
      BY <1>4, <3>1, FS_Singleton
    <3>2. CASE ask[r].todo # {Current(r)}
      BY <1>2, <3>2 DEF CallOK
    <3>. QED  BY <3>1, <3>2
  <2>. DEFINE fields == [todo |-> left, calls |-> calls, partly |-> partly]
              next == Overlaid(ask[r], fields)
  <2>3. To(r, next)
    BY <1>4 DEF Still
  <2>4. /\ DOMAIN fields = {"todo", "calls", "partly"} /\ fields["todo"] = left
        /\ fields["calls"] = calls /\ fields["partly"] = partly
    OBVIOUS
  <2>. HIDE DEF fields
  <2>5. /\ {"at", "stream", "found", "partly", "first", "todo", "calls"} \subseteq DOMAIN next
        /\ next["todo"] = left /\ next["calls"] = calls /\ next["partly"] = partly
        /\ \A f \in {"at", "stream", "first"} : next[f] = ask[r][f]
    BY <1>2, <2>4 DEF Asked, CallOK, Overlaid
  <2>. HIDE DEF next
  <2>6. Asked(next) /\ next["at"] = "call"
    BY <1>2, <2>5 DEF Asked, ProviderFails
  <2>7. CallOK(next)
    BY <1>2, <2>1, <2>2, <2>5 DEF CallOK
  <2>8. UnderWay(next)
    BY <2>6, <2>7 DEF UnderWay
  <2>. QED  BY <1>1, <2>3, <2>8, GoesOnTyped
<1>. QED  BY <1>3, <1>4 DEF ProviderFails

\* The guard lets a text of its own through.
LEMMA GuardTyped ==
  ASSUME AnsweringTypes, NEW r \in Dialogues, GuardOutput(r)
  PROVE  AnsweringTypes'
<1>1. SessionOK'
  BY SessionStays DEF GuardOutput, AnsweringTypes
<1>2. Asked(ask[r])
  BY DEF GuardOutput, AnsweringTypes, DialoguesOK, Stopped, Stops, UnderWay
<1>3. PICK text : text \in Sayings /\ Still(r, [at |-> "save", text |-> text])
  BY DEF GuardOutput, Grounded, Sayings
<1>4. UnderWay(Overlaid(ask[r], [at |-> "save", text |-> text]))
  BY <1>2, <1>3, RepliesTyped DEF Asked
<1>. QED  BY <1>1, <1>3, <1>4, GoesOnTyped DEF Still

\* A turn is saved.
LEMMA SaveTyped ==
  ASSUME AnsweringTypes, NEW r \in Dialogues, Save(r)
  PROVE  AnsweringTypes'
<1>1. Asked(ask[r]) /\ ask[r].text \in Sayings
  BY DEF Save, AnsweringTypes, DialoguesOK, Stopped, Stops, UnderWay
<1>2. CASE Fails(r) /\ UNCHANGED turns
  BY <1>2, SessionStays, FailsTyped DEF Save, AnsweringTypes
<1>3. CASE /\ Len(turns) < MaxTurns
           /\ turns' = Append(turns, [says |-> ask[r].text, cited |-> Cited(r)])
           /\ To(r, [at |-> "answered", told |-> ask[r].told, missing |-> ask[r].missing])
  <2>1. [says |-> ask[r].text, cited |-> Cited(r)] \in TurnRow
    BY <1>1 DEF Cited, TurnRow, Asked
  <2>2. turns \in Seq(TurnRow) /\ Len(turns) \in Nat /\ DOMAIN turns = 1..Len(turns)
    BY DEF AnsweringTypes, SessionOK
  <2>3. turns' \in Seq(TurnRow) /\ Len(turns') = Len(turns) + 1
    BY <1>3, <2>1, <2>2, AppendProperties
  <2>4. DOMAIN turns' = 1..(Len(turns) + 1)
    BY <2>3
  <2>5. Len(turns') <= MaxTurns /\ DOMAIN turns \subseteq DOMAIN turns'
    BY <1>3, <2>2, <2>3, <2>4, AnsweringAssumption
  <2>6. SessionOK'
    BY <2>3, <2>5 DEF Save, AnsweringTypes, SessionOK
  <2>. DEFINE next == [at |-> "answered", told |-> ask[r].told, missing |-> ask[r].missing]
  <2>7. Stopped(next)
    BY DEF Stopped, Stops
  <2>. HIDE DEF next
  <2>. QED  BY <1>3, <2>6, <2>7, GoesOnTyped DEF next
<1>. QED  BY <1>2, <1>3 DEF Save

\* Every step keeps the types.
LEMMA AnsweringTypesStep == AnsweringTypes /\ [AnsweringNext]_answeringVars => AnsweringTypes'
<1>. SUFFICES ASSUME AnsweringTypes, [AnsweringNext]_answeringVars PROVE AnsweringTypes'
  OBVIOUS
<1>1. ASSUME UNCHANGED ask, SessionOK'
      PROVE  AnsweringTypes'
  BY <1>1 DEF AnsweringTypes, DialoguesOK
<1>2. CASE UNCHANGED answeringVars
  BY <1>1, <1>2, SessionStays DEF answeringVars, AnsweringTypes
<1>3. CASE \/ \E i \in DOMAIN turns : Rate(i)
           \/ \E p \in Providers : SwitchProvider(p)
           \/ \E d \in Policies : DeletePolicy(d)
  <2>1. SessionOK'
    BY <1>3 DEF AnsweringTypes, SessionOK, Rate, SwitchProvider, DeletePolicy
  <2>. QED  BY <1>1, <1>3, <2>1 DEF Rate, SwitchProvider, DeletePolicy
<1>. QED  BY <1>2, <1>3, AskTyped, RetrieveTyped, ScreenTyped, AnswersTyped, ProviderFailsTyped,
             GuardTyped, SaveTyped DEF AnsweringNext

\* Nothing is asked.
LEMMA AnsweringTypesInit == AnsweringInit => AnsweringTypes
BY AnsweringAssumption
   DEF AnsweringInit, AnsweringTypes, SessionOK, DialoguesOK, NotAsked, Stopped, Stops

\* They are the types of the model.
LEMMA AnsweringIsTyped == AnsweringTypes => AnsweringTypeOK
<1>. SUFFICES ASSUME AnsweringTypes PROVE AnsweringTypeOK
  OBVIOUS
<1>1. turns \in Seq(TurnRow) /\ Len(turns) \in 0..MaxTurns
  BY AnsweringAssumption DEF AnsweringTypes, SessionOK
<1>2. turns \in [1..Len(turns) -> TurnRow]
  BY <1>1
<1>3. turns \in BoundedSeq(TurnRow, MaxTurns)
  BY <1>1, <1>2 DEF BoundedSeq, SeqOf
<1>4. \A r \in Dialogues : ask[r].at \in Stops \cup Midway
  BY DEF AnsweringTypes, DialoguesOK, Stopped, UnderWay, Asked
<1>5. \A r \in Dialogues : ask[r].at \in {"call", "guard"} => CallOK(ask[r])
  BY DEF AnsweringTypes, DialoguesOK, Stopped, Stops, UnderWay
<1>6. \A r \in Dialogues : ask[r].at \in {"call", "guard"} =>
        ask[r].partly \subseteq Providers /\ ask[r].calls \subseteq {<<p, ModelOf[p]>> : p \in Providers}
  BY <1>5 DEF CallOK
<1>7. \A r \in Dialogues : ask[r].at \in {"none", "retrieve", "variant", "screen", "call",
                                    "guard", "save", "answered", "failed"}
  BY <1>4 DEF Stops, Midway
<1>. QED  BY <1>3, <1>6, <1>7 DEF AnsweringTypeOK, TurnRow, Sayings, AnsweringTypes, SessionOK

--------------------------------------------------------------------------------
(***************************************************************************)
(* Feedback.                                                               *)
(***************************************************************************)

\* A sum over a set: of the empty one it is 0, of another the weight of the element it
\* chooses and the sum over the rest.
Adds(g, s, w) ==
  g[s] = IF s = {} THEN 0 ELSE w[CHOOSE y \in s : TRUE] + g[s \ {CHOOSE y \in s : TRUE}]
AddsUpTo(g, S, w, n) ==
  LET small == {s \in SUBSET S : Cardinality(s) <= n} IN
  g \in [small -> Nat] /\ \A s \in small : Adds(g, s, w)

\* The element a set chooses, and the rest.
LEMMA OneLess ==
  ASSUME NEW S, IsFiniteSet(S), NEW s \in SUBSET S
  PROVE  /\ IsFiniteSet(s) /\ Cardinality(s) \in Nat
         /\ s # {} => LET x == CHOOSE y \in s : TRUE IN
              x \in s /\ s \ {x} \in SUBSET S /\ Cardinality(s \ {x}) = Cardinality(s) - 1
              /\ Cardinality(s) # 0
<1>1. IsFiniteSet(s) /\ Cardinality(s) \in Nat
  BY FS_Subset, FS_CardinalityType
<1>2. ASSUME s # {}
      PROVE  LET x == CHOOSE y \in s : TRUE IN
               x \in s /\ s \ {x} \in SUBSET S /\ Cardinality(s \ {x}) = Cardinality(s) - 1
               /\ Cardinality(s) # 0
  <2>. PICK x \in s : x = CHOOSE y \in s : TRUE
    BY <1>2
  <2>1. Cardinality(s \ {x}) = Cardinality(s) - 1
    BY <1>1, FS_RemoveElement
  <2>2. Cardinality(s) # 0
    BY <1>1, <1>2, FS_EmptySet
  <2>. QED  BY <2>1, <2>2
<1>. QED  BY <1>1, <1>2

\* Sums over the subsets of a finite set exist, one size after the other.
LEMMA SumsExist ==
  ASSUME NEW S, IsFiniteSet(S), NEW w, \A a \in S : w[a] \in Nat, NEW n \in Nat
  PROVE  \E g : AddsUpTo(g, S, w, n)
<1>. DEFINE Unknown == {m \in Nat : \A g : ~AddsUpTo(g, S, w, m)}
<1>. SUFFICES ASSUME n \in Unknown PROVE FALSE
  OBVIOUS
<1>1. PICK m \in Unknown : \A k \in Unknown : m <= k
  <2>1. Unknown \subseteq Nat /\ Unknown # {}
    OBVIOUS
  <2>. HIDE DEF Unknown
  <2>. QED  BY <2>1, LeastNatural
<1>2. m \in Nat /\ \A g : ~AddsUpTo(g, S, w, m)
  OBVIOUS
<1>. DEFINE Small(k) == {s \in SUBSET S : Cardinality(s) <= k}
<1>3. CASE m = 0
  <2>1. \A s \in Small(0) : s = {}
    <3>. SUFFICES ASSUME NEW s \in Small(0), s # {} PROVE FALSE
      OBVIOUS
    <3>1. Cardinality(s) \in Nat /\ Cardinality(s) # 0 /\ Cardinality(s) <= 0
      BY OneLess
    <3>. QED  BY <3>1
  <2>. PICK g : g = [s \in Small(0) |-> 0]
    OBVIOUS
  <2>2. g \in [Small(0) -> Nat] /\ \A s \in Small(0) : Adds(g, s, w)
    BY <2>1 DEF Adds
  <2>. QED  BY <1>2, <1>3, <2>2 DEF AddsUpTo
<1>4. CASE m # 0
  <2>. PICK k : k = m - 1
    OBVIOUS
  <2>1. k \in Nat /\ m = k + 1 /\ ~(m <= k)
    BY <1>2, <1>4
  <2>2. PICK g : AddsUpTo(g, S, w, k)
    <3>. HIDE DEF Unknown
    <3>1. k \notin Unknown
      BY <1>1, <2>1
    <3>. QED  BY <2>1, <3>1 DEF Unknown
  <2>3. g \in [Small(k) -> Nat] /\ \A s \in Small(k) : Adds(g, s, w)
    BY <2>2 DEF AddsUpTo
  <2>. DEFINE Chosen(s) == CHOOSE y \in s : TRUE
              value(s) == IF s = {} THEN 0 ELSE w[Chosen(s)] + g[s \ {Chosen(s)}]
  <2>. PICK h : h = [s \in Small(m) |-> value(s)]
    OBVIOUS
  <2>4. ASSUME NEW s \in Small(m), s # {}
        PROVE  Chosen(s) \in S /\ s \ {Chosen(s)} \in Small(k) /\ s \ {Chosen(s)} \in Small(m)
    <3>. PICK x : x = Chosen(s)
      OBVIOUS
    <3>. HIDE DEF Chosen
    <3>1. /\ x \in s /\ s \ {x} \in SUBSET S /\ Cardinality(s \ {x}) = Cardinality(s) - 1
          /\ Cardinality(s) \in Nat /\ Cardinality(s) <= m
      BY <2>4, OneLess DEF Chosen
    <3>2. Cardinality(s \ {x}) <= k /\ Cardinality(s \ {x}) <= m
      BY <2>1, <3>1
    <3>. QED  BY <3>1, <3>2
  <2>5. \A s \in Small(k) : s \in Small(m) /\ h[s] = g[s]
    <3>. SUFFICES ASSUME NEW s \in Small(k) PROVE s \in Small(m) /\ h[s] = g[s]
      OBVIOUS
    <3>1. s \in Small(m)
      <4>1. Cardinality(s) \in Nat /\ Cardinality(s) <= k
        BY OneLess
      <4>2. Cardinality(s) <= m
        BY <2>1, <4>1
      <4>. QED  BY <4>2
    <3>2. g[s] = value(s)
      BY <2>3 DEF Adds
    <3>. HIDE DEF Small, value
    <3>. QED  BY <3>1, <3>2
  <2>6. \A s \in Small(m) : value(s) \in Nat
    <3>. SUFFICES ASSUME NEW s \in Small(m), s # {} PROVE w[Chosen(s)] + g[s \ {Chosen(s)}] \in Nat
      OBVIOUS
    <3>. PICK x, rest : x = Chosen(s) /\ rest = s \ {Chosen(s)}
      OBVIOUS
    <3>. HIDE DEF Chosen, Small
    <3>1. w[x] \in Nat /\ g[rest] \in Nat
      BY <2>3, <2>4
    <3>. QED  BY <3>1
  <2>7. \A s \in Small(m) : Adds(h, s, w)
    <3>. SUFFICES ASSUME NEW s \in Small(m) PROVE Adds(h, s, w)
      OBVIOUS
    <3>1. CASE s = {}
      <4>. HIDE DEF Small
      <4>. QED  BY <3>1 DEF Adds
    <3>2. CASE s # {}
      <4>. HIDE DEF Small
      <4>1. h[s] = w[Chosen(s)] + g[s \ {Chosen(s)}]
        BY <3>2
      <4>2. h[s \ {Chosen(s)}] = g[s \ {Chosen(s)}]
        BY <2>4, <2>5, <3>2
      <4>. QED  BY <3>2, <4>1, <4>2 DEF Adds
    <3>. QED  BY <3>1, <3>2
  <2>8. h \in [Small(m) -> Nat]
    <3>. HIDE DEF Small, value
    <3>. QED  BY <2>6
  <2>. QED  BY <1>2, <2>7, <2>8 DEF AddsUpTo
<1>. QED  BY <1>3, <1>4

\* MapThenSumSet of the weights.
SumOver(w, S) ==
  LET iter[s \in SUBSET S] ==
        IF s = {} THEN 0
        ELSE LET x == CHOOSE y \in s : TRUE IN w[x] + iter[s \ {x}]
  IN iter[S]

\* A sum of naturals over a finite set is a natural.
LEMMA SumIsNatural ==
  ASSUME NEW S, IsFiniteSet(S), NEW w, \A a \in S : w[a] \in Nat
  PROVE  SumOver(w, S) \in Nat
<1>. DEFINE body(g, s) ==
       IF s = {} THEN 0 ELSE w[CHOOSE y \in s : TRUE] + g[s \ {CHOOSE y \in s : TRUE}]
            Iterates(g) == g = [s \in SUBSET S |-> body(g, s)]
            iter == CHOOSE g : Iterates(g)
<1>1. SumOver(w, S) = iter[S]
  BY DEF SumOver
<1>2. \E g : Iterates(g)
  <2>1. Cardinality(S) \in Nat
    BY FS_CardinalityType
  <2>2. PICK g : AddsUpTo(g, S, w, Cardinality(S))
    BY <2>1, SumsExist
  <2>3. {s \in SUBSET S : Cardinality(s) <= Cardinality(S)} = SUBSET S
    BY FS_Subset
  <2>4. g \in [SUBSET S -> Nat] /\ \A s \in SUBSET S : g[s] = body(g, s)
    BY <2>2, <2>3 DEF AddsUpTo, Adds
  <2>5. Iterates(g)
    <3>. HIDE DEF body
    <3>. QED  BY <2>4
  <2>. HIDE DEF Iterates
  <2>. QED  BY <2>5
<1>3. Iterates(iter)
  <2>. HIDE DEF Iterates
  <2>. QED  BY <1>2
<1>. HIDE DEF iter
<1>4. \A s \in SUBSET S : iter[s] = body(iter, s)
  <2>. HIDE DEF body
  <2>. QED  BY <1>3
<1>5. ASSUME iter[S] \notin Nat
      PROVE  FALSE
  <2>. DEFINE Sizes_Wrong == {n \in Nat : \E s \in SUBSET S : Cardinality(s) = n /\ iter[s] \notin Nat}
  <2>1. Sizes_Wrong \subseteq Nat /\ Sizes_Wrong # {}
    BY <1>5, FS_CardinalityType
  <2>2. PICK n \in Sizes_Wrong : \A m \in Sizes_Wrong : n <= m
    <3>. HIDE DEF Sizes_Wrong
    <3>. QED  BY <2>1, LeastNatural
  <2>3. PICK s \in SUBSET S : Cardinality(s) = n /\ iter[s] \notin Nat
    OBVIOUS
  <2>4. s # {}
    BY <1>4, <2>3
  <2>. PICK x, rest : x = (CHOOSE y \in s : TRUE) /\ rest = s \ {CHOOSE y \in s : TRUE}
    OBVIOUS
  <2>5. x \in s /\ rest \in SUBSET S /\ Cardinality(rest) = Cardinality(s) - 1
        /\ Cardinality(s) # 0 /\ Cardinality(s) \in Nat
    BY <2>4, OneLess
  <2>6. iter[s] = w[x] + iter[rest]
    BY <1>4, <2>4
  <2>7. Cardinality(rest) \in Nat /\ ~(n <= Cardinality(rest))
    BY <2>3, <2>5
  <2>8. iter[rest] \in Nat
    <3>1. Cardinality(rest) \notin Sizes_Wrong
      <4>. HIDE DEF Sizes_Wrong
      <4>. QED  BY <2>2, <2>7
    <3>. QED  BY <2>5, <2>7, <3>1
  <2>9. w[x] \in Nat
    BY <2>5
  <2>10. w[x] + iter[rest] \in Nat
    BY <2>8, <2>9
  <2>. QED  BY <2>3, <2>6, <2>10
<1>. QED  BY <1>1, <1>5

\* What a row or a signal says of its turns.
SaysTurns(c) ==
  c.seen \in Nat \ {0} /\ c.source \in {"no_evidence", "negative_feedback", "repeated_theme"}

\* Rows, and the signals of a look.
FeedbackTypes ==
  /\ AskedInv
  /\ unit \in [Askers -> Units \cup {NoUnit}] /\ answers \in [Askers -> 0..MaxAnswers]
  /\ down \subseteq Askers
  /\ \A c \in candidates : SaysTurns(c)
  /\ \A m \in Curators : /\ look[m].at \in {"none", "collected"}
                         /\ look[m].at = "collected" => \A g \in look[m].signals : SaysTurns(g)

\* A scope has as many turns as its people, and its signal says of what kind.
LEMMA SignalSaysTurns ==
  ASSUME FeedbackTypes, NEW s
  PROVE  CandidateTurns(s) \in Nat /\ (CandidateTurns(s) > 0 => SaysTurns(Signal(s)))
<1>1. CandidateTurns(s) \in Nat
  <2>. PICK people : people = Submitters(s)
    OBVIOUS
  <2>1. people \subseteq Askers /\ IsFiniteSet(people)
    BY FeedbackAssumption, FS_Subset DEF Submitters
  <2>2. \A a \in people : answers[a] \in Nat
    BY <2>1, FeedbackAssumption DEF FeedbackTypes
  <2>3. SumOver(answers, people) \in Nat
    BY <2>1, <2>2, SumIsNatural
  <2>4. CandidateTurns(s) = SumOver(answers, people)
    BY DEF CandidateTurns, MapThenSumSet, MapThenFoldSet, SumOver
  <2>. QED  BY <2>3, <2>4
<1>2. /\ Signal(s).seen = CandidateTurns(s)
      /\ Signal(s).source \in {"no_evidence", "negative_feedback", "repeated_theme"}
  BY DEF Signal, SourceOf
<1>. QED  BY <1>1, <1>2 DEF SaysTurns

\* The chat, and who belongs where.
LEMMA ChatTyped ==
  ASSUME FeedbackTypes, NEW a \in Askers, AnswerBadly(a) \/ \E u \in Units \cup {NoUnit} : MoveAsker(a, u)
  PROVE  FeedbackTypes'
<1>1. AskedInv' /\ UNCHANGED <<candidates, look>>
  BY FeedbackStep DEF FeedbackTypes, FeedbackNext, AnswerBadly, MoveAsker
<1>2. answers' \in [Askers -> 0..MaxAnswers]
  <2>. PICK n : n = answers[a]
    OBVIOUS
  <2>1. n \in 0..MaxAnswers
    BY DEF FeedbackTypes
  <2>2. n < MaxAnswers => n + 1 \in 0..MaxAnswers
    BY <2>1, FeedbackAssumption
  <2>3. UNCHANGED answers \/ (n < MaxAnswers /\ answers' = [answers EXCEPT ![a] = n + 1])
    BY DEF AnswerBadly, MoveAsker
  <2>. QED  BY <2>2, <2>3 DEF FeedbackTypes
<1>3. unit' \in [Askers -> Units \cup {NoUnit}] /\ down' \subseteq Askers
  BY DEF FeedbackTypes, AnswerBadly, MoveAsker
<1>. QED  BY <1>1, <1>2, <1>3 DEF FeedbackTypes, SaysTurns

\* A look collects signals.
LEMMA CollectTyped ==
  ASSUME FeedbackTypes, NEW m \in Curators, Collect(m)
  PROVE  FeedbackTypes'
<1>1. AskedInv' /\ UNCHANGED <<unit, answers, down, candidates>>
  BY SignalsCollected DEF FeedbackTypes, Collect
<1>. PICK signals, stored :
       /\ signals = {Signal(s) : s \in {x \in Sight[m] : CandidateTurns(x) > 0}}
       /\ look' = [look EXCEPT ![m] = [at |-> "collected", signals |-> signals, stored |-> stored]]
  BY DEF Collect
<1>2. \A g \in signals : SaysTurns(g)
  BY SignalSaysTurns
<1>3. look'[m].at = "collected" /\ look'[m].signals = signals
      /\ \A q \in Curators : q # m => look'[q] = look[q]
  BY DEF FeedbackTypes, AskedInv
<1>. QED  BY <1>1, <1>2, <1>3 DEF FeedbackTypes, SaysTurns

\* A look writes its signals.
LEMMA MaterialiseTyped ==
  ASSUME FeedbackTypes, NEW m \in Curators, Materialise(m)
  PROVE  FeedbackTypes'
<1>. DEFINE open == {c \in look[m].stored : c.status = "open"}
            fresh == {g \in look[m].signals : /\ ~\E c \in look[m].stored : c.scope = g.scope
                                              /\ ~Materialised(g)}
            Refreshed(c) ==
              IF \E o \in open : o.scope = c.scope /\ o.n = c.n /\ \E g \in look[m].signals : g.scope = c.scope
              THEN LET g == CHOOSE g \in look[m].signals : g.scope = c.scope
                   IN [c EXCEPT !.source = g.source, !.seen = g.seen]
              ELSE c
<1>1. AskedInv' /\ UNCHANGED <<unit, answers, down>>
  BY Materialises DEF FeedbackTypes, Materialise
<1>2. /\ candidates' = {Refreshed(c) : c \in candidates} \cup {CandidateRow(g) : g \in fresh}
      /\ look' = [look EXCEPT ![m] = Elsewhere] /\ look[m].at = "collected"
  BY DEF Materialise
<1>3. \A g \in look[m].signals : SaysTurns(g)
  BY <1>2 DEF FeedbackTypes
<1>4. \A c \in candidates : SaysTurns(Refreshed(c))
  <2>. SUFFICES ASSUME NEW c \in candidates PROVE SaysTurns(Refreshed(c))
    OBVIOUS
  <2>1. SaysTurns(c) /\ {"seen", "source"} \subseteq DOMAIN c
    BY DEF FeedbackTypes, AskedInv, RowOK
  <2>2. ASSUME NEW g \in look[m].signals
        PROVE  SaysTurns([c EXCEPT !.source = g.source, !.seen = g.seen])
    BY <1>3, <2>1 DEF SaysTurns
  <2>3. Refreshed(c) = c
        \/ \E g \in look[m].signals : Refreshed(c) = [c EXCEPT !.source = g.source, !.seen = g.seen]
    OBVIOUS
  <2>. QED  BY <2>1, <2>2, <2>3
<1>5. \A g \in fresh : SaysTurns(CandidateRow(g))
  BY <1>3 DEF CandidateRow, SaysTurns
<1>. HIDE DEF fresh, Refreshed
<1>6. \A c \in candidates' : SaysTurns(c)
  BY <1>2, <1>4, <1>5
<1>7. look'[m].at = "none" /\ \A q \in Curators : q # m => look'[q] = look[q]
  BY <1>2 DEF FeedbackTypes, AskedInv, Elsewhere
<1>. QED  BY <1>1, <1>6, <1>7 DEF FeedbackTypes, SaysTurns

\* A decision.
LEMMA DecisionTyped ==
  ASSUME FeedbackTypes, NEW m \in Curators, NEW c \in candidates, NEW verdict \in Verdicts,
         Decide_candidate(m, c, verdict)
  PROVE  FeedbackTypes'
<1>1. AskedInv' /\ UNCHANGED <<unit, answers, down, look>>
  BY Decides DEF FeedbackTypes, Decide_candidate
<1>2. candidates' = (candidates \ {c}) \cup {[c EXCEPT !.status = verdict]}
  BY DEF Decide_candidate
<1>3. SaysTurns([c EXCEPT !.status = verdict])
  BY DEF FeedbackTypes, AskedInv, RowOK, SaysTurns
<1>4. \A d \in candidates' : SaysTurns(d)
  BY <1>2, <1>3 DEF FeedbackTypes
<1>. QED  BY <1>1, <1>4 DEF FeedbackTypes, SaysTurns

\* Every step keeps the types.
LEMMA FeedbackTypesStep == FeedbackTypes /\ [FeedbackNext]_feedbackVars => FeedbackTypes'
<1>1. ASSUME FeedbackTypes, UNCHANGED feedbackVars
      PROVE  FeedbackTypes'
  BY <1>1 DEF feedbackVars, FeedbackTypes, AskedInv, RowOK, SaysTurns
<1>. QED  BY <1>1, ChatTyped, CollectTyped, MaterialiseTyped, DecisionTyped DEF FeedbackNext

\* Nobody is asked.
LEMMA FeedbackTypesInit == FeedbackInit => FeedbackTypes
BY AskedInvInit, FeedbackAssumption DEF FeedbackInit, FeedbackTypes, Elsewhere

\* They are the types of the model.
LEMMA FeedbackIsTyped == FeedbackTypes => FeedbackTypeOK
BY DEF FeedbackTypes, AskedInv, RowOK, SaysTurns, UndecidedRows, FeedbackTypeOK

--------------------------------------------------------------------------------
(***************************************************************************)
(* Records.                                                                *)
(***************************************************************************)

\* The requests that may still create the row of the employee: each has a task of its
\* own, and so has every row of the employee there is.
Founders == {f \in Filers : filing[f].at \in {"employee", "create"}}
FoundersOK ==
  /\ IsFiniteSet(Founders) /\ employees \in Nat
  /\ employees + Cardinality(Founders) <= Len(stages) /\ Len(stages) <= MaxMaterial

\* No row is filed before its time.
TimesOK ==
  /\ \A m \in material : m.time <= today
  /\ \A f \in Filers : filing[f].at = "commit" => filing[f].time <= today

RecordsTypes == RecordsInv /\ FoundersOK /\ TimesOK

\* Fewer requests to create the row, and no fewer tasks.
LEMMA FewerFounders ==
  ASSUME FoundersOK, Founders' \subseteq Founders, employees' = employees,
         Len(stages) \in Nat, Len(stages') \in Nat, Len(stages) <= Len(stages'), Len(stages') <= MaxMaterial
  PROVE  FoundersOK'
<1>1. /\ IsFiniteSet(Founders') /\ Cardinality(Founders') <= Cardinality(Founders)
      /\ Cardinality(Founders') \in Nat /\ Cardinality(Founders) \in Nat
  BY FS_Subset, FS_CardinalityType DEF FoundersOK
<1>2. employees' + Cardinality(Founders') <= Len(stages')
  BY <1>1 DEF FoundersOK
<1>. QED  BY <1>1, <1>2 DEF FoundersOK

\* What a step of a request makes of the requests.
LEMMA FiledTyped ==
  ASSUME RowsOK, NEW f \in Filers, NEW step, Files(f, step)
  PROVE  /\ filing'[f] = step /\ \A g \in Filers : g # f => filing'[g] = filing[g]
         /\ Founders' \subseteq Founders \cup {f}
         /\ step.at \notin {"employee", "create"} => Founders' \subseteq Founders \ {f}
         /\ f \in Founders => Founders' \subseteq Founders
<1>1. filing'[f] = step /\ \A g \in Filers : g # f => filing'[g] = filing[g]
  BY DEF RowsOK, Files
<1>. QED  BY <1>1 DEF Founders

\* A task starts, and its request may create the row.
LEMMA StartTyped ==
  ASSUME RecordsTypes, NEW f \in Filers, StartMaterial(f)
  PROVE  FoundersOK' /\ TimesOK'
<1>1. RowsOK /\ FoundersOK /\ Len(stages) \in Nat /\ Len(stages) < MaxMaterial
  BY DEF RecordsTypes, RecordsInv, RowsOK, StartMaterial
<1>2. UNCHANGED <<today, employees, material>>
  BY DEF StartMaterial
<1>3. PICK begun \in {"pending", "failed"} : stages' = Append(stages, begun)
  BY DEF StartMaterial
<1>4. Len(stages') = Len(stages) + 1
  BY <1>3 DEF RowsOK, RecordsTypes, RecordsInv
<1>5. Len(stages') <= MaxMaterial
  BY <1>1, <1>4, RecordsAssumption
<1>6. CASE UNCHANGED filing
  <2>1. Founders' \subseteq Founders /\ TimesOK'
    BY <1>2, <1>6 DEF Founders, TimesOK, RecordsTypes
  <2>. QED  BY <1>1, <1>2, <1>4, <1>5, <2>1, FewerFounders
<1>7. ASSUME NEW at \in {"employee", "insert"}, Files(f, [at |-> at, task |-> Len(stages')])
      PROVE  FoundersOK' /\ TimesOK'
  <2>. DEFINE step == [at |-> at, task |-> Len(stages')]
  <2>1. /\ filing'[f] = step /\ \A g \in Filers : g # f => filing'[g] = filing[g]
        /\ Founders' \subseteq Founders \cup {f}
    BY <1>1, <1>7, FiledTyped
  <2>2. TimesOK'
    BY <1>2, <2>1 DEF TimesOK, RecordsTypes
  <2>3. /\ IsFiniteSet(Founders) /\ IsFiniteSet(Founders \cup {f}) /\ Cardinality(Founders) \in Nat
        /\ Cardinality(Founders \cup {f}) \in Nat
        /\ Cardinality(Founders \cup {f}) <= Cardinality(Founders) + 1
    <3>1. IsFiniteSet(Founders) /\ IsFiniteSet(Founders \cup {f})
      BY <1>1, FS_AddElement DEF FoundersOK
    <3>2. Cardinality(Founders) \in Nat /\ Cardinality(Founders \cup {f}) \in Nat
      BY <3>1, FS_CardinalityType
    <3>3. Cardinality(Founders \cup {f}) \in {Cardinality(Founders), Cardinality(Founders) + 1}
      BY <3>1, FS_AddElement
    <3>. QED  BY <3>1, <3>2, <3>3
  <2>4. /\ IsFiniteSet(Founders') /\ Cardinality(Founders') <= Cardinality(Founders \cup {f})
        /\ Cardinality(Founders') \in Nat
    BY <2>1, <2>3, FS_Subset, FS_CardinalityType
  <2>5. employees \in Nat /\ employees + Cardinality(Founders) <= Len(stages)
    BY <1>1 DEF FoundersOK
  <2>. PICK before, after, more : /\ before = Cardinality(Founders) /\ after = Cardinality(Founders')
                                  /\ more = Cardinality(Founders \cup {f})
    OBVIOUS
  <2>6. employees + after <= Len(stages')
    BY <1>1, <1>4, <2>3, <2>4, <2>5
  <2>7. FoundersOK'
    BY <1>2, <1>5, <2>4, <2>5, <2>6 DEF FoundersOK
  <2>. QED  BY <2>2, <2>7
<1>. QED  BY <1>6, <1>7 DEF StartMaterial

\* The row of the employee, and the material.
LEMMA FilingTyped ==
  ASSUME RecordsTypes, NEW f \in Filers,
         \/ FindEmployee(f) \/ CreateEmployee(f) \/ InsertMaterial(f) \/ CommitMaterial(f)
         \/ FilingFails(f)
  PROVE  FoundersOK' /\ TimesOK'
<1>1. RowsOK /\ FoundersOK /\ TimesOK /\ Len(stages) \in Nat /\ Len(stages) <= MaxMaterial
  BY DEF RecordsTypes, RecordsInv, RowsOK, FoundersOK
<1>2. UNCHANGED <<today, stages>> /\ today \in Int
  BY <1>1, RecordsAssumption
     DEF FindEmployee, CreateEmployee, InsertMaterial, CommitMaterial, FilingFails, RowsOK
<1>3. ASSUME NEW step, Files(f, step), step.at \in {"idle", "insert", "commit"} \/ f \in Founders,
             employees' = employees
      PROVE  FoundersOK'
  <2>1. Founders' \subseteq Founders
    BY <1>1, <1>3, FiledTyped
  <2>. QED  BY <1>1, <1>2, <1>3, <2>1, FewerFounders
<1>4. ASSUME NEW step, Files(f, step), step.at = "commit" => step.time <= today, material' = material
      PROVE  TimesOK'
  BY <1>1, <1>2, <1>4, FiledTyped DEF TimesOK
<1>. PICK mine : mine = filing[f]
  OBVIOUS
<1>5. FilingStep(mine)
  BY <1>1 DEF RowsOK
<1>6. CASE FindEmployee(f)
  <2>1. f \in Founders /\ "at" \in DOMAIN mine
    BY <1>5, <1>6 DEF FindEmployee, Founders, FilingStep, Unoccupied
  <2>. PICK step : step = CASE employees = 0 -> [mine EXCEPT !.at = "create"]
                            [] employees = 1 -> [mine EXCEPT !.at = "insert"]
                            [] OTHER -> Unoccupied
    OBVIOUS
  <2>2. step.at \in {"create", "insert", "idle"}
    BY <2>1 DEF Unoccupied
  <2>3. Files(f, step) /\ UNCHANGED <<employees, material>>
    BY <1>6 DEF FindEmployee
  <2>4. FoundersOK'
    BY <1>3, <2>1, <2>3
  <2>5. TimesOK'
    BY <1>4, <2>2, <2>3
  <2>. QED  BY <2>4, <2>5
<1>7. CASE CreateEmployee(f)
  <2>. PICK step : step = [mine EXCEPT !.at = "insert"]
    OBVIOUS
  <2>1. f \in Founders /\ step.at = "insert"
    BY <1>5, <1>7 DEF CreateEmployee, Founders, FilingStep, Unoccupied
  <2>2. Files(f, step) /\ UNCHANGED material /\ employees' = employees + 1
    BY <1>7 DEF CreateEmployee
  <2>3. TimesOK'
    BY <1>4, <2>1, <2>2
  <2>4. Founders' \subseteq Founders \ {f}
    BY <1>1, <2>1, <2>2, FiledTyped
  <2>. PICK before, after : before = Cardinality(Founders) /\ after = Cardinality(Founders')
    OBVIOUS
  <2>5. /\ IsFiniteSet(Founders \ {f}) /\ Cardinality(Founders \ {f}) = before - 1
        /\ before \in Nat
    BY <1>1, <2>1, FS_RemoveElement, FS_CardinalityType DEF FoundersOK
  <2>6. IsFiniteSet(Founders') /\ after \in Nat /\ after <= before - 1
    BY <2>4, <2>5, FS_Subset, FS_CardinalityType
  <2>7. employees \in Nat /\ employees + before <= Len(stages)
    BY <1>1 DEF FoundersOK
  <2>8. employees' \in Nat /\ employees' + after <= Len(stages)
    BY <1>1, <2>2, <2>5, <2>6, <2>7
  <2>9. FoundersOK'
    BY <1>1, <1>2, <2>6, <2>8 DEF FoundersOK
  <2>. QED  BY <2>3, <2>9
<1>8. CASE InsertMaterial(f)
  <2>1. PICK id : Files(f, [at |-> "commit", task |-> mine.task, id |-> id, time |-> today])
    BY <1>8 DEF InsertMaterial
  <2>2. UNCHANGED <<employees, material>>
    BY <1>8 DEF InsertMaterial
  <2>. DEFINE step == [at |-> "commit", task |-> mine.task, id |-> id, time |-> today]
  <2>3. step.at = "commit" /\ step.time = today
    OBVIOUS
  <2>. HIDE DEF step
  <2>4. FoundersOK'
    BY <1>3, <2>1, <2>2, <2>3 DEF step
  <2>5. TimesOK'
    BY <1>2, <1>4, <2>1, <2>2, <2>3 DEF step
  <2>. QED  BY <2>4, <2>5
<1>9. CASE CommitMaterial(f)
  <2>1. Files(f, Unoccupied) /\ UNCHANGED employees /\ Unoccupied.at = "idle"
    BY <1>9 DEF CommitMaterial, Unoccupied
  <2>2. \A m \in material' : m.time <= today
    BY <1>1, <1>9 DEF CommitMaterial, TimesOK
  <2>3. \A g \in Filers : filing'[g].at = "commit" => filing'[g].time <= today
    BY <1>1, <2>1, FiledTyped DEF TimesOK
  <2>4. FoundersOK'
    BY <1>3, <2>1
  <2>. QED  BY <1>2, <2>2, <2>3, <2>4 DEF TimesOK
<1>10. CASE FilingFails(f)
  <2>1. Files(f, Unoccupied) /\ UNCHANGED <<employees, material>> /\ Unoccupied.at = "idle"
    BY <1>10 DEF FilingFails, Unoccupied
  <2>2. FoundersOK'
    BY <1>3, <2>1
  <2>3. TimesOK'
    BY <1>4, <2>1
  <2>. QED  BY <2>2, <2>3
<1>. QED  BY <1>6, <1>7, <1>8, <1>9, <1>10

\* Tasks end, days pass, and readers turn pages.
LEMMA ElsewhereTyped ==
  ASSUME RecordsTypes,
         (\E t \in DOMAIN stages, to \in TaskStages : AnalysisMoves(t, to)) \/ DayPasses \/ FirstPage \/ NextPage \/ CloseList \/ UNCHANGED recordsVars
  PROVE  FoundersOK' /\ TimesOK'
<1>1. RowsOK /\ FoundersOK /\ TimesOK /\ Len(stages) \in Nat
  BY DEF RecordsTypes, RecordsInv, RowsOK
<1>2. UNCHANGED <<employees, filing, material>>
  BY DEF AnalysisMoves, DayPasses, FirstPage, NextPage, CloseList, recordsVars
<1>3. Len(stages') = Len(stages)
  BY <1>1 DEF AnalysisMoves, DayPasses, FirstPage, NextPage, CloseList, recordsVars, RowsOK
<1>4. FoundersOK'
  BY <1>1, <1>2, <1>3 DEF FoundersOK, Founders
<1>5. TimesOK'
  <2>1. CASE today' = today
    BY <1>1, <1>2, <2>1 DEF TimesOK
  <2>2. CASE DayPasses
    <3>1. today \in Nat /\ today' = today + 1
      BY <1>1, <2>2, RecordsAssumption DEF RowsOK, DayPasses
    <3>2. /\ \A m \in material : m.time \in Nat
          /\ \A f \in Filers : filing[f].at = "commit" => filing[f].time \in Nat
      BY <1>1, RecordsAssumption DEF RowsOK, FilingStep, Unoccupied
    <3>. QED  BY <1>1, <1>2, <3>1, <3>2 DEF TimesOK
  <2>. QED  BY <2>1, <2>2 DEF AnalysisMoves, FirstPage, NextPage, CloseList, recordsVars
<1>. QED  BY <1>4, <1>5

\* Every step keeps the types.
LEMMA RecordsTypesStep == RecordsTypes /\ [RecordsNext]_recordsVars => RecordsTypes'
BY RecordsStep, RecordsAssumption, StartTyped, FilingTyped, ElsewhereTyped DEF RecordsTypes, RecordsNext

\* Nothing is filed.
LEMMA RecordsTypesInit == RecordsInit => RecordsTypes
<1>. SUFFICES ASSUME RecordsInit PROVE RecordsTypes
  OBVIOUS
<1>1. Founders = {} /\ TimesOK
  BY DEF RecordsInit, Founders, TimesOK, Unoccupied
<1>2. IsFiniteSet(Founders) /\ Cardinality(Founders) = 0 /\ Len(stages) = 0 /\ employees = 0
  BY <1>1, FS_EmptySet DEF RecordsInit
<1>3. FoundersOK
  BY <1>2, RecordsAssumption DEF FoundersOK
<1>. QED  BY <1>1, <1>3, RecordsInvInit DEF RecordsTypes

\* They are the types of the model.
LEMMA RecordsAreTyped == RecordsTypes => RecordsTypeOK
<1>. SUFFICES ASSUME RecordsTypes PROVE RecordsTypeOK
  OBVIOUS
<1>1. RowsOK /\ ReadingOK
  BY DEF RecordsTypes, RecordsInv
<1>2. employees \in 0..MaxMaterial
  <2>1. Cardinality(Founders) \in Nat
    BY FS_CardinalityType DEF RecordsTypes, FoundersOK
  <2>2. employees \in Nat /\ employees <= Len(stages) /\ Len(stages) <= MaxMaterial /\ Len(stages) \in Nat
    BY <1>1, <2>1 DEF RecordsTypes, FoundersOK, RowsOK
  <2>. QED  BY <2>2, RecordsAssumption
<1>3. \A f \in Filers : filing[f].at \in {"idle", "employee", "create", "insert", "commit"}
  BY <1>1 DEF RowsOK, FilingStep, Unoccupied
<1>4. reading.open \in BOOLEAN
  <2>1. CASE reading = NotReading
    BY <2>1 DEF NotReading
  <2>2. ASSUME NEW asked, NEW owed, NEW more, NEW key, NEW seen,
               reading = [open |-> TRUE, filter |-> asked, promised |-> owed, more |-> more,
                          cursor |-> key, seen |-> seen]
        PROVE  reading.open \in BOOLEAN
    BY <2>2
  <2>. QED  BY <1>1, <2>1, <2>2 DEF ReadingOK
<1>5. /\ today \in 0..MaxDays /\ \A t \in DOMAIN stages : stages[t] \in TaskStages
      /\ \A m \in material : m.task \in DOMAIN stages
  BY <1>1 DEF RowsOK
<1>. QED  BY <1>2, <1>3, <1>4, <1>5 DEF RecordsTypeOK, RecordsTypes, TimesOK

--------------------------------------------------------------------------------
(***************************************************************************)
(* Read tools.                                                             *)
(***************************************************************************)

\* An envelope tells how many there were, and holds no more.
EnvelopeOK(e) ==
  /\ {"tool", "found", "items", "budgetNote", "authorityNote", "degraded", "more"} \subseteq DOMAIN e
  /\ e.found \in Nat /\ Len(e.items) <= e.found
  /\ {e.budgetNote, e.authorityNote, e.degraded, e.more} \subseteq BOOLEAN

\* The cases, the client's offset, and the last envelope.
CasesOK ==
  /\ created \in 0..MaxCases /\ openCases \in Seq(Nat) /\ Len(openCases) <= created
  /\ \A n \in DOMAIN openCases : openCases[n] \in 1..created
ReadTypes == CasesOK /\ cursor \in -1..MaxCases /\ EnvelopeOK(answer)

\* The first of a list.
LEMMA FirstOfTyped ==
  ASSUME NEW S, NEW items \in Seq(S), NEW n \in Nat
  PROVE  FirstOf(items, n) \in Seq(S) /\ Len(FirstOf(items, n)) = Least(n, Len(items))
<1>. PICK last : last = Least(n, Len(items))
  OBVIOUS
<1>1. last \in 0..Len(items) /\ last \in Int /\ 1 \in Int
  BY DEF Least
<1>2. \A i \in 1..last : items[i] \in S
  BY <1>1
<1>3. SubSeq(items, 1, last) \in Seq(S) /\ Len(SubSeq(items, 1, last)) = IF 1 <= last THEN last - 1 + 1 ELSE 0
  BY <1>1, <1>2, SubSeqProperties
<1>4. Len(SubSeq(items, 1, last)) = last
  BY <1>1, <1>3
<1>. QED  BY <1>3, <1>4 DEF FirstOf

\* A list without one of its items.
LEMMA RemovedTyped ==
  ASSUME NEW S, NEW items \in Seq(S), NEW k \in 1..Len(items)
  PROVE  RemoveAt(items, k) \in Seq(S) /\ Len(RemoveAt(items, k)) = Len(items) - 1
<1>. PICK total : total = Len(items)
  OBVIOUS
<1>0. PICK before, after : before = SubSeq(items, 1, k - 1) /\ after = SubSeq(items, k + 1, total)
  OBVIOUS
<1>1. total \in Nat /\ k \in 1..total /\ \A i \in 1..total : items[i] \in S
  OBVIOUS
<1>2. /\ k - 1 \in Int /\ k + 1 \in Int /\ total \in Int /\ 1 \in Int
      /\ \A i \in 1..(k - 1) : items[i] \in S
      /\ \A i \in (k + 1)..total : items[i] \in S
  BY <1>1
<1>3. before \in Seq(S) /\ Len(before) = IF 1 <= k - 1 THEN k - 1 - 1 + 1 ELSE 0
  BY <1>0, <1>2, SubSeqProperties
<1>4. after \in Seq(S) /\ Len(after) = IF k + 1 <= total THEN total - (k + 1) + 1 ELSE 0
  BY <1>0, <1>2, SubSeqProperties
<1>5. Len(before) = k - 1 /\ Len(after) = total - k
  BY <1>1, <1>3, <1>4
<1>6. before \o after \in Seq(S) /\ Len(before \o after) = Len(before) + Len(after)
  BY <1>3, <1>4, ConcatProperties
<1>7. Len(before \o after) = total - 1
  <2>. PICK ahead, behind, all : /\ ahead = Len(before) /\ behind = Len(after)
                                 /\ all = Len(before \o after)
    OBVIOUS
  <2>1. all = ahead + behind /\ ahead = k - 1 /\ behind = total - k
    BY <1>5, <1>6
  <2>2. total \in Int /\ k \in Int
    BY <1>1
  <2>. QED  BY <2>1, <2>2
<1>. QED  BY <1>0, <1>6, <1>7 DEF RemoveAt

\* What a list holds.
LEMMA HeldTyped == ASSUME NEW S, NEW items \in Seq(S) PROVE \A n \in DOMAIN items : items[n] \in S
OBVIOUS

\* An envelope within the budget.
LEMMA EnforceTyped ==
  ASSUME NEW tool, NEW S, NEW items \in Seq(S), NEW cap \in Nat, NEW size \in Nat, NEW rest \in Nat
  PROVE  EnvelopeOK(Enforce(tool, items, cap, size, rest))
<1>. DEFINE capped == FirstOf(items, cap)
            fitting == {n \in 0..Len(capped) : Fits(n, size, rest)}
            kept == IF fitting = {} THEN 0 ELSE CHOOSE n \in fitting : \A m \in fitting : m <= n
            note == ~Fits(0, size, rest)
<1>1. capped \in Seq(S) /\ Len(capped) \in Nat /\ Len(capped) <= Len(items) /\ Len(items) \in Nat
  BY FirstOfTyped DEF Least
<1>2. Enforce(tool, items, cap, size, rest)
        = [NoAnswer EXCEPT !.tool = tool, !.found = Len(items), !.items = FirstOf(capped, kept),
                           !.budgetNote = note]
  BY DEF Enforce
<1>3. note \in BOOLEAN
  BY DEF Fits
<1>. HIDE DEF capped, note
<1>4. kept \in 0..Len(capped)
  <2>1. fitting \subseteq 0..Len(capped) /\ fitting \subseteq Nat /\ \A n \in fitting : n <= Len(capped)
    BY <1>1
  <2>. HIDE DEF fitting
  <2>2. CASE fitting = {}
    BY <1>1, <2>2
  <2>3. CASE fitting # {}
    <3>1. \E n \in fitting : \A m \in fitting : m <= n
      BY <1>1, <2>1, <2>3, GreatestNatural
    <3>2. kept \in fitting
      BY <2>3, <3>1
    <3>. QED  BY <2>1, <3>2
  <2>. QED  BY <2>2, <2>3
<1>. HIDE DEF kept
<1>. PICK held : held = FirstOf(capped, kept)
  OBVIOUS
<1>5. Len(held) <= Len(items)
  BY <1>1, <1>4, FirstOfTyped DEF Least
<1>6. EnvelopeOK([NoAnswer EXCEPT !.tool = tool, !.found = Len(items), !.items = held,
                                  !.budgetNote = note])
  BY <1>1, <1>3, <1>5 DEF EnvelopeOK, NoAnswer
<1>. QED  BY <1>2, <1>6

\* An envelope with a list inside its object.
LEMMA NestedTyped ==
  ASSUME NEW tool, NEW found \in Nat, NEW n \in Nat, n <= found, NEW size \in Nat, NEW rest \in Nat
  PROVE  EnvelopeOK(Nested(tool, found, n, size, rest))
<1>. PICK items, note : items = [m \in 1..n |-> m] /\ note = ~Fits(n, size, rest)
  OBVIOUS
<1>1. Len(items) = n
  OBVIOUS
<1>2. note \in BOOLEAN
  BY DEF Fits
<1>3. EnvelopeOK([NoAnswer EXCEPT !.tool = tool, !.found = found, !.items = items, !.budgetNote = note])
  BY <1>1, <1>2 DEF EnvelopeOK, NoAnswer
<1>. QED  BY <1>3 DEF Nested

\* What is added to an envelope.
LEMMA NotedTyped ==
  ASSUME NEW e, EnvelopeOK(e), NEW one \in BOOLEAN, NEW other \in BOOLEAN
  PROVE  /\ EnvelopeOK([e EXCEPT !.authorityNote = one, !.degraded = other])
         /\ EnvelopeOK([e EXCEPT !.more = one])
<1>1. EnvelopeOK([e EXCEPT !.more = one])
  BY DEF EnvelopeOK
<1>2. EnvelopeOK([e EXCEPT !.authorityNote = one, !.degraded = other])
  BY DEF EnvelopeOK
<1>. QED  BY <1>1, <1>2

\* The sizes a unit of text may have.
LEMMA UnitsTyped ==
  /\ Sizes \subseteq Nat /\ Rests \subseteq Nat
  /\ MaxResults \in Nat /\ MaxListResults \in Nat /\ MaxTopK \in Nat /\ MaxCases \in Nat
BY ReadToolsAssumption DEF Sizes, Rests

\* The tools that answer from the knowledge base.
LEMMA PolicyTyped ==
  ASSUME ReadTypes, SearchPolicy
  PROVE  ReadTypes'
<1>1. PICK topK \in 1..MaxTopK, only \in BOOLEAN, degraded \in BOOLEAN, size \in Sizes, rest \in Rests :
        \E found \in UNION {[1..n -> Authorities] : n \in 0..topK} :
          LET kept == IF only THEN AuthoritativeOnly(found) ELSE found IN
          answer' = [Enforce("search_policy", kept, MaxResults, size, rest)
                       EXCEPT !.authorityNote = found # <<>> /\ ~HasAuthority(kept),
                              !.degraded = degraded]
  BY DEF SearchPolicy
<1>2. PICK found \in UNION {[1..n -> Authorities] : n \in 0..topK} :
        LET kept == IF only THEN AuthoritativeOnly(found) ELSE found IN
        answer' = [Enforce("search_policy", kept, MaxResults, size, rest)
                     EXCEPT !.authorityNote = found # <<>> /\ ~HasAuthority(kept),
                            !.degraded = degraded]
  BY <1>1
<1>. PICK kept : kept = IF only THEN AuthoritativeOnly(found) ELSE found
  OBVIOUS
<1>3. kept \in Seq(Authorities)
  <2>1. PICK n \in 0..topK : found \in [1..n -> Authorities]
    OBVIOUS
  <2>2. n \in Nat /\ found \in Seq(Authorities) /\ DOMAIN found = 1..n
    BY <2>1, IsASeq
  <2>. PICK places : places = {m \in DOMAIN found : Authoritative(found[m])}
    OBVIOUS
  <2>3. Cardinality(places) \in Nat
    <3>1. IsFiniteSet(1..n)
      BY <2>2, FS_Interval
    <3>. QED  BY <2>2, <3>1, FS_Subset, FS_CardinalityType
  <2>. PICK total \in Nat : total = Cardinality(places)
    BY <2>3
  <2>4. [m \in 1..total |-> "company_policy"] \in Seq(Authorities)
    BY IsASeq DEF Authorities
  <2>5. AuthoritativeOnly(found) \in Seq(Authorities)
    BY <2>4 DEF AuthoritativeOnly
  <2>. QED  BY <2>2, <2>5
<1>. PICK note \in BOOLEAN : note = (found # <<>> /\ ~HasAuthority(kept))
  OBVIOUS
<1>. DEFINE e == Enforce("search_policy", kept, MaxResults, size, rest)
<1>4. EnvelopeOK(e)
  BY <1>3, UnitsTyped, EnforceTyped
<1>5. answer' = [e EXCEPT !.authorityNote = note, !.degraded = degraded]
  BY <1>2
<1>. HIDE DEF e
<1>6. EnvelopeOK(answer')
  BY <1>4, <1>5, NotedTyped
<1>. QED  BY <1>6 DEF SearchPolicy, ReadTypes, CasesOK

\* The tools with one list, and a read that fails.
LEMMA ListsTyped ==
  ASSUME ReadTypes,
         ReadFails \/ GetApprovals \/ GetPolicySource \/ GetCaseSummary \/ GetAccessProfile
  PROVE  ReadTypes'
<1>1. UNCHANGED <<openCases, created, cursor>>
  BY DEF ReadFails, GetApprovals, GetPolicySource, GetCaseSummary, GetAccessProfile
<1>2. SUFFICES EnvelopeOK(answer')
  BY <1>1 DEF ReadTypes, CasesOK
<1>3. CASE ReadFails
  <2>1. EnvelopeOK([NoAnswer EXCEPT !.tool = "failed"])
    BY DEF EnvelopeOK, NoAnswer
  <2>. QED  BY <1>3, <2>1 DEF ReadFails
<1>4. CASE GetApprovals
  <2>1. PICK n \in 0..MaxCases, size \in Sizes, rest \in Rests :
          answer' = Enforce("get_approval_status", [m \in 1..n |-> m], MaxResults, size, rest)
    BY <1>4 DEF GetApprovals
  <2>2. n \in Nat /\ [m \in 1..n |-> m] \in Seq(Nat)
    BY UnitsTyped, IsASeq
  <2>. QED  BY <2>1, <2>2, UnitsTyped, EnforceTyped
<1>5. CASE GetPolicySource \/ GetCaseSummary \/ GetAccessProfile
  <2>1. ASSUME NEW tool, NEW found \in Nat, NEW n \in Nat, n <= found, NEW size \in Sizes,
               NEW rest \in Rests, answer' = Nested(tool, found, n, size, rest)
        PROVE  EnvelopeOK(answer')
    BY <2>1, UnitsTyped, NestedTyped
  <2>2. CASE GetPolicySource
    <3>1. PICK n \in 0..MaxResults, size \in Sizes, rest \in Rests :
            answer' = Nested("get_policy_source", n, n, size, rest)
      BY <2>2 DEF GetPolicySource
    <3>2. n \in Nat /\ n <= n
      BY UnitsTyped
    <3>. QED  BY <2>1, <3>1, <3>2
  <2>3. CASE GetCaseSummary
    <3>1. PICK n \in 0..MaxCases, size \in Sizes, rest \in Rests :
            answer' = Nested("get_case_summary", n, n, size, rest)
      BY <2>3 DEF GetCaseSummary
    <3>2. n \in Nat /\ n <= n
      BY UnitsTyped
    <3>. QED  BY <2>1, <3>1, <3>2
  <2>4. CASE GetAccessProfile
    <3>1. PICK found \in 0..MaxResults, size \in Sizes, rest \in Rests :
            \E n \in {0, found} : answer' = Nested("get_my_access_profile", found, n, size, rest)
      BY <2>4 DEF GetAccessProfile
    <3>2. PICK n \in {0, found} : answer' = Nested("get_my_access_profile", found, n, size, rest)
      BY <3>1
    <3>3. found \in Nat /\ n \in Nat /\ n <= found
      BY UnitsTyped
    <3>. QED  BY <2>1, <3>2, <3>3
  <2>. QED  BY <1>5, <2>2, <2>3, <2>4
<1>. QED  BY <1>3, <1>4, <1>5

\* The cases a client has not read yet, and its next offset.
LEMMA SearchTyped ==
  ASSUME ReadTypes, SearchCases
  PROVE  ReadTypes'
<1>1. PICK limit \in 1..MaxListResults, size \in Sizes, rest \in Rests :
        LET read == FirstOf(From(NewestFirst, cursor), limit + 1) IN
        /\ answer' = [Enforce("search_cases", FirstOf(read, limit), MaxListResults, size, rest)
                        EXCEPT !.more = Len(read) > limit]
        /\ cursor' = IF Len(read) > limit THEN cursor + limit ELSE -1
  BY DEF SearchCases
<1>. PICK total, left : total = Len(openCases) /\ left = From(NewestFirst, cursor)
  OBVIOUS
<1>. PICK read : read = FirstOf(left, limit + 1)
  OBVIOUS
<1>2. /\ cursor \in Nat /\ total \in Nat /\ limit \in Nat /\ limit + 1 \in Nat
      /\ total <= MaxCases /\ MaxCases \in Nat
  <2>1. cursor # -1 /\ cursor \in -1..MaxCases /\ MaxCases \in Nat /\ MaxListResults \in Nat
    BY UnitsTyped DEF SearchCases, ReadTypes
  <2>2. cursor \in Nat
    BY <2>1
  <2>3. limit \in Nat /\ limit + 1 \in Nat
    BY <2>1
  <2>4. total \in Nat /\ created \in 0..MaxCases /\ total <= created
    BY DEF ReadTypes, CasesOK
  <2>5. total <= MaxCases
    BY <2>1, <2>4
  <2>. QED  BY <2>1, <2>2, <2>3, <2>4, <2>5
<1>3. NewestFirst \in Seq(Nat) /\ Len(NewestFirst) = total
  <2>1. openCases \in Seq(Nat) /\ DOMAIN openCases = 1..total
    BY DEF ReadTypes, CasesOK
  <2>2. \A n \in 1..total : total + 1 - n \in 1..total
    BY <1>2
  <2>3. \A n \in 1..total : openCases[total + 1 - n] \in Nat
    BY <2>1, <2>2
  <2>4. NewestFirst = [n \in 1..total |-> openCases[total + 1 - n]]
    BY <2>1 DEF NewestFirst
  <2>5. NewestFirst \in [1..total -> Nat]
    BY <2>3, <2>4
  <2>. QED  BY <1>2, <2>5, IsASeq, LenProperties
<1>4. left \in Seq(Nat) /\ Len(left) = IF cursor + 1 <= total THEN total - cursor ELSE 0
  <2>. PICK first : first = cursor + 1
    OBVIOUS
  <2>1. first \in Int /\ total \in Int /\ \A i \in first..total : NewestFirst[i] \in Nat
    BY <1>2, <1>3
  <2>2. SubSeq(NewestFirst, first, total) \in Seq(Nat)
        /\ Len(SubSeq(NewestFirst, first, total)) = IF first <= total THEN total - first + 1 ELSE 0
    BY <2>1, SubSeqProperties
  <2>3. left = SubSeq(NewestFirst, first, total)
    BY <1>3 DEF From
  <2>. QED  BY <1>2, <2>2, <2>3
<1>5. read \in Seq(Nat) /\ Len(read) = Least(limit + 1, Len(left)) /\ Len(read) \in Nat
  <2>. PICK n : n = limit + 1
    OBVIOUS
  <2>1. n \in Nat /\ left \in Seq(Nat) /\ Len(left) \in Nat
    BY <1>2, <1>4
  <2>2. read \in Seq(Nat) /\ Len(read) = Least(n, Len(left))
    BY <2>1, FirstOfTyped
  <2>. QED  BY <2>1, <2>2 DEF Least
<1>6. cursor' \in -1..MaxCases
  <2>1. CASE Len(read) > limit
    <3>1. Len(left) >= limit + 1
      BY <1>2, <1>4, <1>5, <2>1 DEF Least
    <3>2. cursor + limit <= MaxCases
      BY <1>2, <1>4, <3>1
    <3>. QED  BY <1>1, <1>2, <2>1, <3>2
  <2>2. CASE ~(Len(read) > limit)
    BY <1>1, <1>2, <2>2
  <2>. QED  BY <2>1, <2>2
<1>. DEFINE e == Enforce("search_cases", FirstOf(read, limit), MaxListResults, size, rest)
<1>7. EnvelopeOK(e)
  <2>1. FirstOf(read, limit) \in Seq(Nat)
    BY <1>2, <1>5, FirstOfTyped
  <2>. QED  BY <2>1, UnitsTyped, EnforceTyped
<1>. PICK more : more = (Len(read) > limit)
  OBVIOUS
<1>8. answer' = [e EXCEPT !.more = more]
  BY <1>1
<1>. HIDE DEF e
<1>9. EnvelopeOK(answer')
  <2>1. more \in BOOLEAN
    BY <1>2, <1>5
  <2>. QED  BY <1>7, <1>8, <2>1, NotedTyped
<1>. QED  BY <1>6, <1>9 DEF SearchCases, ReadTypes, CasesOK

\* Cases come and go.
LEMMA CasesTyped ==
  ASSUME ReadTypes, SearchAgain \/ CaseAppears \/ CaseLeaves \/ UNCHANGED readVars
  PROVE  ReadTypes'
<1>. PICK total : total = Len(openCases)
  OBVIOUS
<1>1. /\ openCases \in Seq(Nat) /\ total \in Nat /\ DOMAIN openCases = 1..total
      /\ total <= created /\ created \in Nat /\ created <= MaxCases /\ MaxCases \in Nat
      /\ \A n \in 1..total : openCases[n] \in 1..created
  BY UnitsTyped DEF ReadTypes, CasesOK
<1>2. CASE SearchAgain \/ UNCHANGED readVars
  <2>1. cursor' \in -1..MaxCases
    BY <1>1, <1>2 DEF SearchAgain, readVars, ReadTypes
  <2>. QED  BY <1>2, <2>1 DEF SearchAgain, readVars, ReadTypes, CasesOK
<1>3. CASE CaseAppears
  <2>1. created < MaxCases /\ created' = created + 1 /\ openCases' = Append(openCases, created + 1)
    BY <1>3 DEF CaseAppears
  <2>2. /\ openCases' \in Seq(Nat) /\ Len(openCases') = total + 1
        /\ \A n \in 1..total : openCases'[n] = openCases[n]
        /\ openCases'[total + 1] = created + 1
    BY <1>1, <2>1, AppendProperties
  <2>3. \A n \in 1..(total + 1) : n \in 1..total \/ n = total + 1
    BY <1>1
  <2>4. \A n \in 1..total : openCases[n] \in 1..(created + 1)
    BY <1>1
  <2>5. created + 1 \in 1..(created + 1) /\ created + 1 \in 0..MaxCases /\ total + 1 <= created + 1
    BY <1>1, <2>1
  <2>6. DOMAIN openCases' = 1..(total + 1)
    BY <2>2
  <2>7. \A n \in DOMAIN openCases' : openCases'[n] \in 1..(created + 1)
    BY <2>2, <2>3, <2>4, <2>5, <2>6
  <2>8. CasesOK'
    BY <2>1, <2>2, <2>5, <2>7 DEF CasesOK
  <2>. QED  BY <1>3, <2>8 DEF CaseAppears, ReadTypes
<1>4. CASE CaseLeaves
  <2>1. PICK k \in 1..total : openCases' = RemoveAt(openCases, k)
    BY <1>1, <1>4 DEF CaseLeaves
  <2>2. openCases \in Seq(1..created)
    <3>1. openCases \in [1..total -> 1..created]
      BY <1>1
    <3>. QED  BY <1>1, <3>1, IsASeq
  <2>. PICK others : others = RemoveAt(openCases, k)
    OBVIOUS
  <2>3. others \in Seq(1..created) /\ Len(others) = total - 1
    BY <1>1, <2>2, RemovedTyped
  <2>4. Len(others) <= created
    BY <1>1, <2>3
  <2>5. \A n \in DOMAIN others : others[n] \in 1..created
    BY <2>3, HeldTyped
  <2>6. others \in Seq(Nat)
    <3>1. others \in [1..Len(others) -> Nat] /\ Len(others) \in Nat
      BY <1>1, <2>3
    <3>. QED  BY <3>1, IsASeq
  <2>7. CasesOK'
    BY <1>4, <2>1, <2>4, <2>5, <2>6 DEF CaseLeaves, CasesOK, ReadTypes
  <2>. QED  BY <1>4, <2>7 DEF CaseLeaves, ReadTypes
<1>. QED  BY <1>2, <1>3, <1>4

\* Every step keeps the types.
LEMMA ReadTypesStep == ReadTypes /\ [ReadNext]_readVars => ReadTypes'
BY PolicyTyped, ListsTyped, SearchTyped, CasesTyped DEF ReadNext

\* Nothing is read.
LEMMA ReadTypesInit == ReadInit => ReadTypes
<1>. SUFFICES ASSUME ReadInit PROVE ReadTypes
  OBVIOUS
<1>1. EnvelopeOK(answer)
  BY DEF ReadInit, EnvelopeOK, NoAnswer
<1>2. CasesOK /\ cursor \in -1..MaxCases
  BY UnitsTyped DEF ReadInit, CasesOK
<1>. QED  BY <1>1, <1>2 DEF ReadTypes

\* They are the types of the model.
LEMMA ReadIsTyped == ReadTypes => ReadTypeOK
BY DEF ReadTypes, CasesOK, EnvelopeOK, ReadTypeOK

--------------------------------------------------------------------------------
(***************************************************************************)
(* The parts together.                                                     *)
(***************************************************************************)

\* What a search starts from, and what a document is cut from, never changes.
InputsTyped ==
  /\ part = "ranking" => RankingTypeOK
  /\ part = "chunking" => pages \in Seq(Seq(Letters))

\* The types of the parts.
DeskTyped == IntakeTypes /\ TriageTypes /\ WorkTasksTypes /\ TimelineTypes /\ WorkbenchTypes
KnowledgeTyped == IngestTypes /\ AnsweringTypes /\ FeedbackTypes /\ RecordsTypes /\ ReadTypes
ServicesTyped == part \in Parts /\ DeskTyped /\ KnowledgeTyped /\ InputsTyped

\* One part runs, and the others stand still: each takes a step of its own, or none.
LEMMA ServicesStep ==
  ASSUME [ServicesNext]_servicesVars
  PROVE  /\ [IntakeNext]_intakeVars /\ [TriageNext]_triageVars /\ [WorkTasksNext]_workTasksVars
         /\ [TimelineNext]_timelineVars /\ [WorkbenchNext]_workbenchVars
         /\ [IngestNext]_ingestVars /\ [AnsweringNext]_answeringVars /\ [FeedbackNext]_feedbackVars
         /\ [RecordsNext]_recordsVars /\ [ReadNext]_readVars
         /\ UNCHANGED <<part, pages, rankingVars>>
<1>1. CASE UNCHANGED servicesVars
  BY <1>1 DEF servicesVars, deskVars, knowledgeVars
<1>2. CASE UNCHANGED part /\ DeskNext
  BY <1>2 DEF DeskNext, knowledgeVars
<1>3. CASE UNCHANGED part /\ KnowledgeNext
  BY <1>3 DEF KnowledgeNext, deskVars
<1>. QED  BY <1>1, <1>2, <1>3 DEF ServicesNext

\* Every step keeps the types of all of them.
LEMMA ServicesTypesStep == ServicesTyped /\ [ServicesNext]_servicesVars => ServicesTyped'
<1>. SUFFICES ASSUME ServicesTyped, [ServicesNext]_servicesVars PROVE ServicesTyped'
  OBVIOUS
<1>1. DeskTyped'
  BY ServicesStep, IntakeTypesStep, TriageTypesStep, WorkTasksTypesStep, TimelineTypesStep,
     WorkbenchTypesStep DEF ServicesTyped, DeskTyped
<1>2. KnowledgeTyped'
  BY ServicesStep, IngestTypesStep, AnsweringTypesStep, FeedbackTypesStep, RecordsTypesStep,
     ReadTypesStep DEF ServicesTyped, KnowledgeTyped
<1>3. UNCHANGED <<part, pages, dense, sparse, variant, level>>
  BY ServicesStep DEF rankingVars
<1>4. InputsTyped' /\ part' \in Parts
  BY <1>3 DEF ServicesTyped, InputsTyped, RankingTypeOK, Lists
<1>. QED  BY <1>1, <1>2, <1>4 DEF ServicesTyped

\* The lists of a search and the pages of a document are what they are drawn from.
LEMMA InputsInit ==
  ASSUME ServicesInit
  PROVE  InputsTyped
<1>1. part = "ranking" => RankingTypeOK
  BY DEF ServicesInit, RankingInit, RankingTypeOK
<1>2. ASSUME part = "chunking"
      PROVE  pages \in Seq(Seq(Letters))
  <2>1. PagesInit
    BY <1>2 DEF ServicesInit
  <2>2. PICK m \in 0..MaxPages : pages \in [1..m -> BoundedSeq(Letters, MaxPageChars)]
    BY <2>1 DEF PagesInit, BoundedSeq, SeqOf
  <2>3. \A p \in BoundedSeq(Letters, MaxPageChars) : p \in Seq(Letters)
    <3>. SUFFICES ASSUME NEW p \in BoundedSeq(Letters, MaxPageChars) PROVE p \in Seq(Letters)
      OBVIOUS
    <3>1. PICK k \in 0..MaxPageChars : p \in [1..k -> Letters]
      BY DEF BoundedSeq, SeqOf
    <3>2. k \in Nat
      BY ChunkingAssumption
    <3>. QED  BY <3>1, <3>2, IsASeq
  <2>4. m \in Nat /\ pages \in [1..m -> Seq(Letters)]
    BY <2>2, <2>3, ChunkingAssumption
  <2>. QED  BY <2>4, IsASeq
<1>. QED  BY <1>1, <1>2 DEF InputsTyped

\* Whichever part runs, every variable of it keeps its type, for every number of
\* requests, documents, managers, files, subtasks, cases and crashes.
THEOREM ServicesAreTyped == ServicesSpec => []ServicesTypeOK
<1>1. ServicesInit => ServicesTyped
  <2>. SUFFICES ASSUME ServicesInit PROVE ServicesTyped
    OBVIOUS
  <2>1. DeskTyped
    BY IntakeTypesInit, TriageTypesInit, WorkTasksTypesInit, TimelineTypesInit, WorkbenchTypesInit
       DEF ServicesInit, DeskTyped
  <2>2. KnowledgeTyped
    BY IngestTypesInit, AnsweringTypesInit, FeedbackTypesInit, RecordsTypesInit, ReadTypesInit
       DEF ServicesInit, KnowledgeTyped
  <2>. QED  BY <2>1, <2>2, InputsInit DEF ServicesInit, ServicesTyped
<1>2. ServicesTyped => ServicesTypeOK
  <2>1. DeskTyped => /\ IntakeTypeOK /\ TriageTypeOK /\ WorkTasksTypeOK /\ TimelineTypeOK
                     /\ WorkbenchTypeOK
    BY IntakeIsTyped, TriageIsTyped, WorkTasksAreTyped, TimelineIsTyped, WorkbenchIsTyped
       DEF DeskTyped
  <2>2. KnowledgeTyped => /\ IngestTypeOK /\ AnsweringTypeOK /\ FeedbackTypeOK /\ RecordsTypeOK
                          /\ ReadTypeOK
    BY IngestIsTyped, AnsweringIsTyped, FeedbackIsTyped, RecordsAreTyped, ReadIsTyped
       DEF KnowledgeTyped
  <2>. QED  BY <2>1, <2>2 DEF ServicesTyped, InputsTyped, ServicesTypeOK, Parts
<1>. QED  BY <1>1, <1>2, ServicesTypesStep, PTL DEF ServicesSpec
================================================================================
