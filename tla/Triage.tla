-------------------------------- MODULE Triage --------------------------------
(***************************************************************************)
(* One employee request, filed in the workbench or come from an enterprise *)
(* platform, the HR people who answer it, and the messages that tell the   *)
(* employee.                                                               *)
(*                                                                         *)
(*   employee_request/service   create_request, hr_list_open, hr_triage,   *)
(*                              hr_list_assignees, enqueue_wecom_delivery, *)
(*                              deliver_wecom_attempt, retry_hr_delivery   *)
(*   access/object_scope        whose requests a manager may see           *)
(*   connectors/wecom_outbound  the simulator that takes the message       *)
(*                                                                         *)
(* An answer commits with the attempt to deliver it; the delivery is a     *)
(* transaction of its own that holds the attempt locked while it sends.    *)
(***************************************************************************)
EXTENDS Integers

CONSTANTS
  Staff,      \* concurrent requests of HR people
  Managers,   \* those of an HR manager; the others are of one HRBP
  Answers,    \* [status, content]: what the digest of an attempt covers
  MaxCrashes  \* BOUND: deliveries whose process ends

ASSUME TriageAssumption ==
  /\ MaxCrashes \in Nat /\ Managers \subseteq Staff
  /\ \A a \in Answers : a.status \in {"needs_materials", "in_progress", "resolved"}

VARIABLES
  origin,      \* how the request came: "none" as long as it has not
  inScope,     \* the manager's units hold the employee, and the HRBP
  assigned,    \* hr_owner_id is the HRBP
  status,      \* employee_requests.status
  sourceOpen,  \* the source is not revoked and has its callback configuration
  attempt,     \* connector_delivery_attempts: the status of each answer's
  newest,      \* the answer of the attempt created last, if any
  shown,       \* answers whose attempt an HR person was shown
  staff,       \* where each request stands
  accepted,    \* history: times the simulator accepted each answer
  crashes      \* history

requestVars == <<origin, inScope, assigned>>
messageVars == <<attempt, newest, shown, accepted>>
triageVars == <<requestVars, status, sourceOpen, messageVars, staff, crashes>>

Desk == [at |-> "desk"]
Holding(a) == \E p \in Staff : staff[p].at = "sending" /\ staff[p].of = a

TriageInit ==
  /\ origin = "none" /\ inScope = TRUE /\ assigned = FALSE
  /\ status = "submitted" /\ sourceOpen = TRUE
  /\ attempt = [a \in Answers |-> "none"]
  /\ newest = {} /\ shown = {} /\ staff = [p \in Staff |-> Desk]
  /\ accepted = [a \in Answers |-> 0] /\ crashes = 0

\* create_request, or consume_event of a platform's message.
FileRequest ==
  /\ origin = "none" /\ origin' \in {"employee", "platform"}
  /\ UNCHANGED <<inScope, assigned, status, sourceOpen, messageVars, staff, crashes>>

\* assign_org_unit and replace_manager_scopes take people out of the scope.
MoveEmployee ==
  /\ inScope /\ inScope' = FALSE
  /\ UNCHANGED <<origin, assigned, status, sourceOpen, messageVars, staff, crashes>>

\* hr_triage and retry_hr_delivery begin with resolve_visible_user_ids, in a session
\* that is closed before theirs opens.
LookUpScope(p) ==
  /\ staff[p] = Desk /\ origin # "none"
  /\ staff' = [staff EXCEPT ![p] = [at |-> "scope", sees |-> inScope]]
  /\ UNCHANGED <<requestVars, status, sourceOpen, messageVars, crashes>>

\* The request an HRBP owns, or one of an employee in the scope that was read.
Sees(p, scope) == IF p \in Managers THEN scope ELSE assigned

\* hr_list_open shows the newest attempt, and leaves out what is resolved.
ListOpen(p) ==
  /\ staff[p] = Desk /\ Sees(p, inScope) /\ status # "resolved" /\ newest # {}
  /\ shown' = shown \cup newest
  /\ UNCHANGED <<requestVars, status, sourceOpen, attempt, newest, staff,
                 accepted, crashes>>

\* hr_list_assignees
Assignable(p, scope) == p \in Managers /\ scope

NotSeen(p) ==
  /\ staff[p].at = "scope" /\ ~Sees(p, staff[p].sees)
  /\ staff' = [staff EXCEPT ![p] = Desk]
  /\ UNCHANGED <<requestVars, status, sourceOpen, messageVars, crashes>>

\* ON CONFLICT DO NOTHING: an answer given before is not queued again, nor is one
\* to a request that came from no platform.
Enqueues(a) == origin = "platform" /\ attempt[a] = "none"

\* hr_triage: any status may follow any; whoever queued the attempt delivers it.
Answer(p, a) ==
  /\ staff[p].at = "scope" /\ Sees(p, staff[p].sees)
  /\ \E assigns \in {FALSE, Assignable(p, staff[p].sees)} : assigned' = (assigned \/ assigns)
  /\ status' = a.status
  /\ IF Enqueues(a)
     THEN /\ attempt' = [attempt EXCEPT ![a] = "queued"] /\ newest' = {a}
          /\ staff' = [staff EXCEPT ![p] = [at |-> "deliver", of |-> a]]
     ELSE staff' = [staff EXCEPT ![p] = Desk] /\ UNCHANGED <<attempt, newest>>
  /\ UNCHANGED <<origin, inScope, shown, sourceOpen, accepted, crashes>>

\* retry_hr_delivery up to its commit, of an attempt that was once shown.
RetryDelivery(p, a) ==
  /\ staff[p].at = "scope" /\ a \in shown /\ Sees(p, staff[p].sees) /\ ~Holding(a)
  /\ staff' = [staff EXCEPT ![p] =
                 IF attempt[a] = "retryable_failed" THEN [at |-> "deliver", of |-> a] ELSE Desk]
  /\ UNCHANGED <<requestVars, status, sourceOpen, messageVars, crashes>>

Undelivered_NotChecked(a) == TRUE
Undelivered(a) == attempt[a] \notin {"simulated_accepted", "rejected"}

\* deliver_wecom_attempt takes the lock and looks at the attempt.
TakeAttempt(p) ==
  /\ staff[p].at = "deliver" /\ ~Holding(staff[p].of)
  /\ LET a == staff[p].of IN
       staff' = [staff EXCEPT ![p] = IF Undelivered(a) THEN [at |-> "sending", of |-> a] ELSE Desk]
  /\ UNCHANGED <<requestVars, status, sourceOpen, messageVars, crashes>>

\* Nothing is sent for a source that is closed; otherwise the simulator accepts,
\* is busy (also after one new token), or refuses the recipient.
Outcome == IF sourceOpen THEN {"simulated_accepted", "retryable_failed", "rejected"} ELSE {"rejected"}

Sent(a, outcome) ==
  accepted' = IF outcome = "simulated_accepted" THEN [accepted EXCEPT ![a] = @ + 1] ELSE accepted

Deliver(p) ==
  /\ staff[p].at = "sending"
  /\ LET a == staff[p].of IN
       /\ \E outcome \in Outcome :
         /\ attempt' = [attempt EXCEPT ![a] = outcome]
         /\ Sent(a, outcome)
       /\ shown' = shown \cup {a}
  /\ staff' = [staff EXCEPT ![p] = Desk]
  /\ UNCHANGED <<requestVars, status, sourceOpen, newest, crashes>>

\* The process ends before or after the simulator took the message; the
\* transaction is rolled back.
DeliveryCrashes(p) ==
  /\ staff[p] # Desk /\ crashes < MaxCrashes
  /\ crashes' = crashes + 1
  /\ \/ UNCHANGED accepted
     \/ staff[p].at = "sending" /\ sourceOpen /\ Sent(staff[p].of, "simulated_accepted")
  /\ staff' = [staff EXCEPT ![p] = Desk]
  /\ UNCHANGED <<requestVars, status, sourceOpen, attempt, newest, shown>>

CloseSource ==
  /\ sourceOpen /\ sourceOpen' = FALSE
  /\ UNCHANGED <<requestVars, status, messageVars, staff, crashes>>

TriageNext ==
  \/ FileRequest \/ MoveEmployee \/ CloseSource
  \/ \E p \in Staff : \/ LookUpScope(p) \/ ListOpen(p) \/ NotSeen(p)
                      \/ TakeAttempt(p) \/ Deliver(p) \/ DeliveryCrashes(p)
                      \/ \E a \in Answers : Answer(p, a) \/ RetryDelivery(p, a)

TriageSpec == TriageInit /\ [][TriageNext]_triageVars
--------------------------------------------------------------------------------

TriageTypeOK ==
  /\ origin \in {"none", "employee", "platform"} /\ inScope \in BOOLEAN /\ assigned \in BOOLEAN
  /\ status \in {"submitted", "needs_materials", "in_progress", "resolved"}
  /\ sourceOpen \in BOOLEAN
  /\ newest \subseteq Answers /\ shown \subseteq Answers
  /\ attempt \in [Answers -> {"none", "queued", "simulated_accepted", "retryable_failed", "rejected"}]
  /\ accepted \in [Answers -> Nat] /\ crashes \in 0..MaxCrashes
  /\ \A p \in Staff : staff[p].at \in {"desk", "scope", "deliver", "sending"}

\* The employee is told once: a first delivery and the retries of several HR
\* people do not both get an answer accepted, unless a process died in between.
ToldOnce == \A a \in Answers : accepted[a] <= 1 + crashes
================================================================================
