------------------------------- MODULE WorkTasks -------------------------------
(***************************************************************************)
(* A work task and its subtasks: several people create, edit and advance   *)
(* them at once, and the parent's progress is recounted from the subtasks. *)
(*                                                                         *)
(*   work_tasks/service       create_work_task, update_work_task,          *)
(*                            advance_work_task, _sync_parent_progress     *)
(*   routes/work_summary      the routes that call them                    *)
(*                                                                         *)
(* One transaction per request at READ COMMITTED. An inserted subtask keys *)
(* its parent FOR KEY SHARE until the commit; the recount takes the parent *)
(* FOR UPDATE. A subtask is named by its idempotency key. Titles, owners   *)
(* and deadlines are left out; every task is visible to every clerk.       *)
(***************************************************************************)
EXTENDS Integers, FiniteSets

CONSTANTS
  Clerks,    \* concurrent requests
  Subtasks,  \* idempotency keys of subtasks
  MaxUnits   \* BOUND: units a person may set by hand

ASSUME WorkTasksAssumption == MaxUnits \in Nat \ {0} /\ IsFiniteSet(Subtasks)

SubStatuses == {"open", "completed", "cancelled"}

VARIABLES
  sub,     \* committed status of each subtask, "none" when there is no row
  parent,  \* the parent row: [status, done, total], total = 0 in stage mode
  clerk,   \* where each request stands, with what it read and wrote
  counted  \* history: what the parent says was counted last by update_work_task

workTasksVars == <<sub, parent, clerk, counted>>

Away == [at |-> "away"]

WorkTasksInit ==
  /\ sub = [s \in Subtasks |-> "none"]
  /\ parent = [status |-> "open", done |-> 0, total |-> 0]
  /\ clerk = [p \in Clerks |-> Away] /\ counted = FALSE

ClerkGoes(p, to) == clerk' = [clerk EXCEPT ![p] = to]
OtherClerks(p) == {clerk[q] : q \in Clerks \ {p}}
ClerkHolds(c) == c.at \in {"flushed", "counted"} /\ c.writes

(***************************************************************************)
(* Subtasks.                                                               *)
(***************************************************************************)

\* create_work_task up to its flush: the key's task if there is one, else the
\* parent is read for its owner and stays in the session.
ReadForSubtask(p, s) ==
  /\ clerk[p] = Away /\ sub[s] = "none"
  /\ ClerkGoes(p, [at |-> "read", of |-> s, was |-> "none", to |-> "open",
              writes |-> TRUE, seen |-> {parent}])
  /\ UNCHANGED <<sub, parent, counted>>

\* update_work_task on a subtask, up to the autoflush of its row.
ReadForUpdate(p, s, to) ==
  /\ clerk[p] = Away /\ sub[s] # "none"
  /\ ClerkGoes(p, [at |-> "read", of |-> s, was |-> sub[s], to |-> to,
              writes |-> to # sub[s], seen |-> {}])
  /\ UNCHANGED <<sub, parent, counted>>

\* The row is written, once nobody else has it uncommitted. Who lost the key
\* takes the winner's task; a value that did not change is not written.
Flush(p) ==
  /\ clerk[p].at = "read"
  /\ \A c \in OtherClerks(p) : ~(ClerkHolds(c) /\ c.of = clerk[p].of /\ clerk[p].writes)
  /\ clerk[p].was = "none" => \A c \in OtherClerks(p) : c.at # "counted"
  /\ IF clerk[p].was = "none" /\ sub[clerk[p].of] # "none" THEN ClerkGoes(p, Away)
     ELSE ClerkGoes(p, [clerk[p] EXCEPT !.at = "flushed"])
  /\ UNCHANGED <<sub, parent, counted>>

\* Subtasks as the transaction of p sees them.
Seen(p) == IF clerk[p].writes THEN [sub EXCEPT ![clerk[p].of] = clerk[p].to] ELSE sub
Live(subs) == {s \in Subtasks : subs[s] \notin {"none", "cancelled"}}
Done(subs) == {s \in Subtasks : subs[s] = "completed"}

\* FOR UPDATE waits for whoever has the parent, and for the key share of every
\* subtask that is being inserted.
MayLock_NoWait(p) == TRUE
MayLock(p) == \A c \in OtherClerks(p) : ~(c.at = "counted" \/ (c.at = "flushed" /\ c.was = "none"))

\* _sync_parent_progress: the parent it locks is the one in the session when
\* the session has it, with the values it had when it was read.
Recount(p) ==
  /\ clerk[p].at = "flushed" /\ MayLock(p)
  /\ ClerkGoes(p, [at |-> "counted", of |-> clerk[p].of, was |-> clerk[p].was, to |-> clerk[p].to,
              writes |-> clerk[p].writes,
              seen |-> IF clerk[p].seen = {} THEN {parent} ELSE clerk[p].seen,
              total |-> Cardinality(Live(Seen(p))), done |-> Cardinality(Done(Seen(p)))])
  /\ UNCHANGED <<sub, parent, counted>>

\* Two insertions that wait for each other's key share: one is rolled back.
DeadlockAbort(p) ==
  /\ clerk[p].at = "flushed" /\ clerk[p].was = "none"
  /\ \E c \in OtherClerks(p) : c.at = "flushed" /\ c.was = "none"
  /\ ClerkGoes(p, Away)
  /\ UNCHANGED <<sub, parent, counted>>

\* The session writes the columns that differ from what it read.
Changed(read, new, now) == IF new = read THEN now ELSE new

CommitSubtask(p) ==
  /\ clerk[p].at = "counted"
  /\ LET c == clerk[p] IN
       \E read \in c.seen :
         /\ sub' = Seen(p)
         /\ parent' = IF c.total = 0 THEN parent
                      ELSE [parent EXCEPT !.total = Changed(read.total, c.total, @),
                                          !.done = Changed(read.done, c.done, @)]
         /\ counted' = (c.total > 0 /\ c.was # "none")
  /\ ClerkGoes(p, Away)

(***************************************************************************)
(* The parent itself, by hand.                                             *)
(***************************************************************************)

\* update_work_task reads the parent and checks the request against it.
ReadParent(p) ==
  /\ clerk[p] = Away
  /\ ClerkGoes(p, [at |-> "parent", seen |-> {parent}])
  /\ UNCHANGED <<sub, parent, counted>>

\* A commit waits for whoever recounts the parent, and the database refuses more
\* units done than there are.
Unlocked(p) == \A c \in OtherClerks(p) : c.at # "counted"
Truthful(row) == row.done <= row.total

PatchParent(p, status, units) ==
  /\ clerk[p].at = "parent" /\ Unlocked(p)
  /\ \E read \in clerk[p].seen :
       LET done == IF status = "completed" /\ read.total > 0 THEN read.total ELSE units
           new == [status |-> Changed(read.status, status, parent.status),
                   done |-> Changed(read.done, done, parent.done), total |-> parent.total]
           accepted == units <= read.total /\ Truthful(new)
       IN /\ parent' = IF accepted THEN new ELSE parent
          /\ counted' = (counted /\ ~accepted)
  /\ ClerkGoes(p, Away)
  /\ UNCHANGED sub

\* advance_work_task: the guard and the increment are one UPDATE.
AdvanceParent(p) ==
  /\ clerk[p] = Away /\ Unlocked(p)
  /\ parent.done < parent.total
  /\ parent' = [parent EXCEPT !.done = @ + 1, !.status = "in_progress"]
  /\ counted' = FALSE
  /\ UNCHANGED <<sub, clerk>>

WorkTasksNext ==
  \E p \in Clerks :
    \/ Flush(p) \/ Recount(p) \/ DeadlockAbort(p) \/ CommitSubtask(p)
    \/ ReadParent(p) \/ AdvanceParent(p)
    \/ \E s \in Subtasks : \/ ReadForSubtask(p, s)
                           \/ \E to \in SubStatuses : ReadForUpdate(p, s, to)
    \/ \E status \in {"open", "completed"}, units \in 0..MaxUnits : PatchParent(p, status, units)

WorkTasksSpec == WorkTasksInit /\ [][WorkTasksNext]_workTasksVars
--------------------------------------------------------------------------------

WorkTasksTypeOK ==
  /\ sub \in [Subtasks -> SubStatuses \cup {"none"}]
  /\ parent.status \in {"open", "in_progress", "completed"}
  /\ parent.done \in Nat /\ parent.total \in 0..Cardinality(Subtasks)
  /\ \A p \in Clerks : clerk[p].at \in {"away", "read", "flushed", "counted", "parent"}
  /\ counted \in BOOLEAN

\* Once a subtask is completed, reopened or cancelled the parent says how many
\* subtasks there are and how many are done, whoever edits or adds another at the
\* same time. An added subtask gives no such promise: create_work_task has read the
\* parent before it locks it, and writes over what was committed in between.
ParentCountsItsSubtasks ==
  counted => /\ parent.total = Cardinality(Live(sub))
             /\ parent.done = Cardinality(Done(sub))
================================================================================
