------------------------------- MODULE Workbench -------------------------------
(***************************************************************************)
(* Today's work: one page over the work objects of every scenario.         *)
(*                                                                         *)
(*   work_summary/service       the collectors and the buckets             *)
(*   weekly_report, its routes  a draft from finished analyses, publishing *)
(*                                                                         *)
(* The other work objects change by the rules of their own modules; here   *)
(* they take the statuses the page tells apart.  The page is put together  *)
(* from one transaction per collector, while the objects go on changing.   *)
(* No object changes in the instant another one does.  Every item is in    *)
(* the reader's scope: the reader's own, of the reader's unit, or assigned.*)
(***************************************************************************)
EXTENDS Integers, Sequences, FiniteSets

CONSTANTS
  WorkItems,     \* ids of work objects
  TypeOf,        \* the type of each
  PageTypes,     \* types a page collects for its reader: HR manager, HRBP, others
  LimitOf,       \* rows each collector reads: 20, 10, 5, 20, 10 and 100
  AttentionLimit, FinishedLimit,  \* rows of a bucket: 50 and 20
  StampsPerDay,  \* BOUND: changes in one day
  MaxStamp       \* BOUND: changes

VARIABLES
  stamp,      \* the instant of the last change
  work,       \* the status of each work object, "none" before it exists
  updated,    \* its updated_at
  drafting,   \* how far each report is that nobody has stored yet
  gathering,  \* the page under way: rows read, collectors left
  board       \* the page shown last, with the rows it was made of

workbenchVars == <<stamp, work, updated, drafting, gathering, board>>

\* What each collector makes of each status; other statuses are not collected.
AnalysisLabels == [running |-> "processing", completed |-> "to confirm", failed |-> "failed"]
ReportLabels == [draft |-> "to confirm", published |-> "done"]
SessionLabels == [asked |-> "resumable"]
RequestLabels ==
  [submitted |-> "to handle", needs_materials |-> "to supplement", in_progress |-> "processing"]
CandidateLabels == [open |-> "to confirm"]
TaskLabels == [in_progress |-> "processing", waiting |-> "to confirm", completed |-> "done"]

Labels ==
  [interview_digest   |-> AnalysisLabels,
   voice_insight      |-> AnalysisLabels,
   weekly_report      |-> ReportLabels,
   policy_qa          |-> SessionLabels,
   employee_request   |-> RequestLabels,
   knowledge_feedback |-> CandidateLabels,
   work_task          |-> TaskLabels]

\* The order in which collect_work_summaries calls its collectors.
Collectors ==
  <<{"interview_digest", "voice_insight"}, {"weekly_report"}, {"policy_qa"},
    {"employee_request"}, {"knowledge_feedback"}, {"work_task"}>>

ASSUME WorkbenchAssumption ==
  /\ IsFiniteSet(WorkItems)
  /\ TypeOf \in [WorkItems -> DOMAIN Labels] /\ PageTypes \subseteq DOMAIN Labels
  /\ LimitOf \in [1..Len(Collectors) -> Nat \ {0}]
  /\ AttentionLimit \in Nat \ {0} /\ FinishedLimit \in Nat \ {0}
  /\ StampsPerDay \in Nat \ {0} /\ MaxStamp \in Nat

Nothing == [rows |-> {}, resume |-> {}, attention |-> {}, finished |-> {}]
NotGathering == [rows |-> {}, next |-> 0]

WorkbenchInit ==
  /\ stamp = 0 /\ drafting = [i \in WorkItems |-> "none"]
  /\ work = [i \in WorkItems |-> "none"] /\ updated = [i \in WorkItems |-> 0]
  /\ gathering = NotGathering /\ board = Nothing

(***************************************************************************)
(* Work goes on.                                                           *)
(***************************************************************************)

Becomes(i, status) ==
  /\ stamp < MaxStamp /\ stamp' = stamp + 1
  /\ work' = [work EXCEPT ![i] = status] /\ updated' = [updated EXCEPT ![i] = stamp + 1]

\* The statuses that may follow one, as far as the other modules' services go.
FollowingStatus(i) ==
  CASE TypeOf[i] \in {"interview_digest", "voice_insight"} ->
         IF work[i] = "none" THEN {"running"}
         ELSE IF work[i] = "running" THEN {"completed", "failed"} ELSE {}
    [] TypeOf[i] = "policy_qa" -> {"asked"}
    [] TypeOf[i] = "employee_request" ->
         IF work[i] = "none" THEN {"submitted"} ELSE {"needs_materials", "in_progress", "resolved"}
    [] TypeOf[i] = "knowledge_feedback" ->
         IF work[i] = "none" THEN {"open"} ELSE IF work[i] = "open" THEN {"decided"} ELSE {}
    [] TypeOf[i] = "work_task" ->
         IF work[i] = "none" THEN {"in_progress"}
         ELSE IF work[i] \in {"completed", "cancelled"} THEN {}
         ELSE {"in_progress", "waiting", "completed", "cancelled"}
    [] OTHER -> {}

WorkChanges(i) ==
  /\ \E status \in FollowingStatus(i) : Becomes(i, status)
  /\ UNCHANGED <<drafting, gathering, board>>

\* The analyses a report can be made from: finished ones.
Sources == {a \in WorkItems : TypeOf[a] \in {"interview_digest", "voice_insight"} /\ work[a] = "completed"}

Drafts(i, phase) == drafting' = [drafting EXCEPT ![i] = phase]

\* generate_report reads its sources; the status of one may have changed since it was chosen.
GenerateReport(i) ==
  /\ TypeOf[i] = "weekly_report" /\ work[i] = "none" /\ drafting[i] = "none"
  /\ Sources # {} /\ Drafts(i, "asked")
  /\ UNCHANGED <<stamp, work, updated, gathering, board>>

\* The language model writes the draft, or fails, or answers what cannot be read.
WriteDraft(i) ==
  /\ drafting[i] = "asked" /\ \E phase \in {"written", "none"} : Drafts(i, phase)
  /\ UNCHANGED <<stamp, work, updated, gathering, board>>

\* _store_report, in a transaction of its own: an error is swallowed, and the draft lost.
StoreReport(i) ==
  /\ drafting[i] = "written" /\ Drafts(i, "none")
  /\ \/ Becomes(i, "draft")
     \/ UNCHANGED <<stamp, work, updated>>
  /\ UNCHANGED <<gathering, board>>

\* save_report by its author: saved again as it is, or published, again perhaps.
SaveReport(i) ==
  /\ TypeOf[i] = "weekly_report" /\ work[i] \in {"draft", "published"}
  /\ \E status \in {work[i], "published"} : Becomes(i, status)
  /\ UNCHANGED <<drafting, gathering, board>>

(***************************************************************************)
(* The page.                                                               *)
(***************************************************************************)

OpenBoard ==
  /\ gathering = NotGathering /\ gathering' = [rows |-> {}, next |-> 1]
  /\ UNCHANGED <<stamp, work, updated, drafting, board>>

RowOf(i) == [item |-> i, label |-> Labels[TypeOf[i]][work[i]], at |-> updated[i]]
Collected(types) ==
  {RowOf(i) : i \in {j \in WorkItems :
     TypeOf[j] \in types \cap PageTypes /\ work[j] \in DOMAIN Labels[TypeOf[j]]}}

\* The n newest rows: ordered by updated_at, and cut.
Newest(rows, n) == {r \in rows : Cardinality({s \in rows : s.at > r.at}) < n}

\* One collector, in a session of its own.
Gather ==
  /\ gathering.next \in DOMAIN Collectors
  /\ LET read == Newest(Collected(Collectors[gathering.next]), LimitOf[gathering.next]) IN
       gathering' = [rows |-> gathering.rows \cup read, next |-> gathering.next + 1]
  /\ UNCHANGED <<stamp, work, updated, drafting, board>>

\* The newest row of each type: a work task hides the others too (a deliberate error).
Deduplicated_OnePerType(rows) ==
  {r \in rows : \A s \in rows : TypeOf[s.item] = TypeOf[r.item] => s.at <= r.at}

\* The newest row of each type, and every work task.
Deduplicated(rows) ==
  {r \in rows : \/ TypeOf[r.item] = "work_task"
                \/ \A s \in rows : TypeOf[s.item] = TypeOf[r.item] => s.at <= r.at}

ServiceTypes == {"employee_request", "knowledge_feedback"}
Resumable(rows) ==
  {r \in rows : r.label \in {"resumable", "to confirm", "processing", "failed"}
                /\ TypeOf[r.item] \notin ServiceTypes}
Latest(rows) == {r \in rows : \A s \in rows : s.at <= r.at}
Day(at) == (at - 1) \div StampsPerDay

\* The three buckets: the button to go on with, what needs somebody, what was finished today.
Buckets(rows) ==
  LET kept == Deduplicated(rows)
      resume == Latest(Resumable(kept))
      open == {r \in kept : r.label \in {"failed", "to confirm", "processing"}}
      done == {r \in kept : r.label = "done" /\ Day(r.at) = Day(stamp)} IN
  [rows |-> rows, resume |-> resume,
   attention |-> Newest(open \ resume, AttentionLimit),
   finished |-> Newest(done, FinishedLimit)]

ShowBoard ==
  /\ gathering.next = Len(Collectors) + 1
  /\ board' = Buckets(gathering.rows) /\ gathering' = NotGathering
  /\ UNCHANGED <<stamp, work, updated, drafting>>

WorkbenchNext ==
  \/ OpenBoard \/ Gather \/ ShowBoard
  \/ \E i \in WorkItems : WorkChanges(i) \/ GenerateReport(i) \/ WriteDraft(i)
                          \/ StoreReport(i) \/ SaveReport(i)

WorkbenchSpec == WorkbenchInit /\ [][WorkbenchNext]_workbenchVars
--------------------------------------------------------------------------------

WorkbenchTypeOK ==
  /\ stamp \in 0..MaxStamp /\ updated \in [WorkItems -> 0..MaxStamp]
  /\ \A i \in WorkItems :
       work[i] \in DOMAIN Labels[TypeOf[i]] \cup {"none", "resolved", "decided", "cancelled"}
  /\ drafting \in [WorkItems -> {"none", "asked", "written"}] /\ gathering.next \in 0..(Len(Collectors) + 1)
  /\ board.attention \cup board.resume \cup board.finished \subseteq board.rows

\* "Mutually exclusive buckets (audit P1-3)", and no task of several days hidden by a newer
\* one: a page lists each open work task that was read as the one to go on with or among what
\* needs somebody, unless that list is full of newer rows; it lists nothing in both, and names
\* at most one thing to go on with.
WorkTasksShownOnce ==
  /\ \A r \in board.rows :
       TypeOf[r.item] = "work_task" /\ r.label \in {"processing", "to confirm"}
         => \/ r \in board.attention \cup board.resume
            \/ /\ Cardinality(board.attention) = AttentionLimit
               /\ \A s \in board.attention : s.at > r.at
  /\ board.attention \cap board.resume = {}
  /\ Cardinality(board.resume) <= 1
================================================================================
