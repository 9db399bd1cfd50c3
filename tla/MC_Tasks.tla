------------------------------- MODULE MC_Tasks -------------------------------
(***************************************************************************)
(* The two models of work that somebody waits for, checked in one run for  *)
(* what becomes of it: they share no state, so a behaviour picks one and   *)
(* the other stands still.                                                 *)
(*                                                                         *)
(* Agent tasks: two tasks of one user on one case, one whose draft starts  *)
(* without its owner or its case and is edited, and a twin with the        *)
(* parameters it may come to.  Analyses: two, items of the batch as far as *)
(* its size goes or on their own.                                          *)
(***************************************************************************)
EXTENDS AgentTasks, Batches

CONSTANTS edited, twin, c1, ann, bob, a1, a2, w1

DraftOf(caseRef, owner) == [caseRef |-> caseRef, owner |-> owner, ownerId |-> NoName]

TheCaseOf == [t \in Tasks |-> c1]
TheGoals ==
  [t \in Tasks |->
     IF t = twin THEN {<<"owner_change", DraftOf(TRUE, ann)>>}
     ELSE {<<"owner_change", DraftOf(TRUE, NoName)>>, <<"followup", DraftOf(FALSE, ann)>>}]
TheAnswers == [t \in Tasks |-> IF t = edited THEN {"case_ref", ann, bob, NoName} ELSE {}]

VARIABLE part

bothVars == <<part, vars, batchVars>>

BothInit == part \in {"agent", "batches"} /\ Init /\ BatchesInit
BothNext ==
  /\ UNCHANGED part
  /\ \/ part = "agent" /\ Next /\ UNCHANGED batchVars
     \/ part = "batches" /\ BatchesNext /\ UNCHANGED vars

BothSpec == BothInit /\ [][BothNext]_bothVars

\* Each model under the fairness it states: AgentTasks' Fairness and Batches'
\* BatchesFairness, for the part that runs.
InAgent(A) == part = "agent" /\ A /\ UNCHANGED <<part, batchVars>>
InBatches(A) == part = "batches" /\ A /\ UNCHANGED <<part, vars>>

FairTasksSpec ==
  /\ BothSpec
  /\ \A t \in Tasks : WF_bothVars(InAgent(GetStatus(t))) /\ WF_bothVars(InAgent(ListWrites(t)))
  /\ WF_bothVars(InBatches(TimePasses)) /\ WF_bothVars(InBatches(ExpireStaleTasks))

\* The batch alone.
BatchSpec == BothInit /\ part = "batches" /\ [][BothNext]_bothVars

\* Every variable of the two models has its type.
TasksTypeOK == TypeOK /\ BatchesTypeOK
================================================================================
