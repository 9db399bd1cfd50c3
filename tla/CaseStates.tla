------------------------------ MODULE CaseStates ------------------------------
(***************************************************************************)
(* The HR-case state machine of app/scenarios/hr_case_agent/state.py: the  *)
(* table every status change of a case is validated against.               *)
(***************************************************************************)

\* TRANSITIONS: the targets `transition` accepts from each status.
Transitions ==
  [ NEW                   |-> {"TRIAGED"},
    TRIAGED               |-> {"EVIDENCE_READY", "NEEDS_CLARIFICATION",
                               "HUMAN_REVIEW_REQUIRED"},
    EVIDENCE_READY        |-> {"PLAN_READY"},
    NEEDS_CLARIFICATION   |-> {"TRIAGED"},
    HUMAN_REVIEW_REQUIRED |-> {"HANDED_OFF", "TRIAGED"},
    PLAN_READY            |-> {"AWAITING_APPROVAL"},
    AWAITING_APPROVAL     |-> {"EXECUTING", "PLAN_READY"},
    EXECUTING             |-> {"RESOLVED", "FAILED"},
    FAILED                |-> {"EXECUTING", "AWAITING_APPROVAL"},
    RESOLVED              |-> {},
    HANDED_OFF            |-> {} ]

CaseStatus == {"NEW", "TRIAGED", "EVIDENCE_READY", "NEEDS_CLARIFICATION",
               "HUMAN_REVIEW_REQUIRED", "PLAN_READY", "AWAITING_APPROVAL",
               "EXECUTING", "FAILED", "RESOLVED", "HANDED_OFF"}

\* `transition` returns its target, or raises InvalidTransitionError.
CanTransition(current, target) == target \in Transitions[current]

\* The statuses at most n hops of the table away.
Within1(s) == {s} \cup Transitions[s]
Within2(s) == UNION {Within1(t) : t \in Within1(s)}
Within3(s) == UNION {Within1(t) : t \in Within2(s)}
================================================================================
