------------------------------- MODULE McpCalls -------------------------------
(***************************************************************************)
(* A tool call of an assistant, from the HTTP transport to the audit row.  *)
(*                                                                         *)
(*   middleware/auth     the bearer token, at the door of /mcp             *)
(*   transport_guard     rate limit, then the scopes of every named tool   *)
(*   server              the atomic tools: reads, requests for approval    *)
(*   task_server         the task gateway, whose services commit           *)
(*   routes/mcp          the web bridge, for people who are signed in      *)
(*   connection_status   what "my connections" concludes from the rows     *)
(*                                                                         *)
(* The credential is looked up at the door, in the guard and in the tool,  *)
(* each time anew.  One installation, concurrent calls.  A row of          *)
(* mcp_call_audits is best effort, except where a transaction requires it. *)
(***************************************************************************)
EXTENDS Integers, Sequences

CONSTANTS
  Calls,   \* concurrent calls
  MaxRows  \* BOUND: audit rows, and approvals

ASSUME McpAssumption == MaxRows \in Nat

VARIABLES
  installed,    \* the token family of the installation is live
  tokenScopes,  \* scopes of its access token
  ceiling,      \* scopes its client may have
  mcpCall,      \* where each call stands
  proposals,    \* approval_requests: the surface that asked for each
  awaiting,     \* those that wait for a decision
  auditRows,    \* mcp_call_audits: [outcome, installed, approval]
  shown         \* what the page about the connection said last

mcpVars == <<installed, tokenScopes, ceiling, mcpCall, proposals, awaiting, auditRows, shown>>

Surfaces == {"mcp", "tasks", "bridge"}
Kinds == {"read", "propose"}
NoCall == [at |-> "none"]
NoApproval == 0

McpInit ==
  /\ installed = TRUE /\ tokenScopes \in {{"read"}, Kinds} /\ ceiling = Kinds
  /\ mcpCall = [c \in Calls |-> NoCall]
  /\ proposals = <<>> /\ awaiting = {} /\ auditRows = <<>> /\ shown = "no_calls_yet"

At(c, where) == mcpCall[c].at = where
Moves(c, next) == mcpCall' = [mcpCall EXCEPT ![c] = next]
GoesTo(c, where) == Moves(c, [mcpCall[c] EXCEPT !.at = where])

(***************************************************************************)
(* Decisions and rows.                                                     *)
(***************************************************************************)

\* authorize_tool_call: anonymous, then scope, then ceiling.  Roles are checked first and
\* the role of a credential cannot change while it resolves.
Decision(kind) ==
  CASE ~installed -> "AUTH_REQUIRED"
    [] kind \notin tokenScopes -> "MISSING_SCOPE"
    [] kind \notin ceiling -> "CLIENT_CEILING"
    [] OTHER -> "allowed"

ScopeDenials == {"MISSING_SCOPE", "CLIENT_CEILING"}

\* record_mcp_call: a row that names nobody when the credential did not resolve.
AuditRow(outcome, approval) ==
  [outcome |-> outcome, installed |-> outcome # "AUTH_REQUIRED", approval |-> approval]
RecordedCall(outcome, approval) == auditRows' = Append(auditRows, AuditRow(outcome, approval))
\* The row is written, or the attempt fails and is only logged.
MayRecord(outcome, approval) == RecordedCall(outcome, approval) \/ UNCHANGED auditRows
Denial(decision) == IF decision \in ScopeDenials THEN "FORBIDDEN" ELSE decision

(***************************************************************************)
(* A call.                                                                 *)
(***************************************************************************)

\* AuthMiddleware._dispatch_mcp: a credential that does not resolve stops here.
Arrive(c) ==
  /\ mcpCall[c] = NoCall /\ installed
  /\ \E surface \in {"mcp", "tasks"}, kind \in Kinds, large \in BOOLEAN :
       Moves(c, [at |-> "guard", surface |-> surface, kind |-> kind, large |-> large,
                 approval |-> NoApproval])
  /\ UNCHANGED <<installed, tokenScopes, ceiling, proposals, awaiting, auditRows, shown>>

\* _rate_limit_response: 429, before the body is read and without a row. Limits has the
\* buckets.
Throttled == UNCHANGED auditRows

\* _buffer: a body over 1 MiB is passed on unread.
Buffered(c) == ~mcpCall[c].large

\* The names of the tools in the body, against the scopes of the credential.
ScopeRefused(c) == Buffered(c) /\ Decision(mcpCall[c].kind) \in ScopeDenials

\* InsufficientScopeGuard answers itself, ...
GuardStops(c) ==
  /\ At(c, "guard") /\ Moves(c, NoCall)
  /\ Throttled \/ (ScopeRefused(c) /\ MayRecord("FORBIDDEN", NoApproval))
  /\ UNCHANGED <<installed, tokenScopes, ceiling, proposals, awaiting, shown>>

\* ... everything else passes: other denials are the tool's.
GuardPasses(c) ==
  /\ At(c, "guard") /\ ~ScopeRefused(c)
  /\ Moves(c, [mcpCall[c] EXCEPT !.at = "tool", !.large = FALSE])
  /\ UNCHANGED <<installed, tokenScopes, ceiling, proposals, awaiting, auditRows, shown>>

ToolDenies(c) ==
  /\ At(c, "tool") /\ Moves(c, NoCall)
  /\ LET decision == Decision(mcpCall[c].kind) IN
       decision # "allowed" /\ MayRecord(Denial(decision), NoApproval)
  /\ UNCHANGED <<installed, tokenScopes, ceiling, proposals, awaiting, shown>>

ToolAllows(c) ==
  /\ At(c, "tool") /\ Decision(mcpCall[c].kind) = "allowed" /\ GoesTo(c, "run")
  /\ UNCHANGED <<installed, tokenScopes, ceiling, proposals, awaiting, auditRows, shown>>

\* run_read_tool never raises; its envelope says how it went.
RunRead(c) ==
  /\ At(c, "run") /\ mcpCall[c].kind = "read" /\ Moves(c, NoCall)
  /\ \E outcome \in {"FOUND", "NO_EVIDENCE", "FAILED"} : MayRecord(outcome, NoApproval)
  /\ UNCHANGED <<installed, tokenScopes, ceiling, proposals, awaiting, shown>>

\* Invalid arguments, a case in a state that takes no request, a crash: FAILED, and no row.
CallFails(c) ==
  /\ At(c, "run") /\ mcpCall[c].kind = "propose" /\ Moves(c, NoCall)
  /\ UNCHANGED <<installed, tokenScopes, ceiling, proposals, awaiting, auditRows, shown>>

\* request_approval: a new approval, or the one this requester still waits for.
AsksApproval(surface, approval) ==
  \/ /\ approval = Len(proposals) + 1
     /\ proposals' = Append(proposals, surface) /\ awaiting' = awaiting \cup {approval}
  \/ /\ approval \in awaiting /\ (proposals[approval] = "bridge" <=> surface = "bridge")
     /\ UNCHANGED <<proposals, awaiting>>

\* _create_approval_via_mcp: the approval and its row are one transaction.
RecordsProposal_Afterwards(approval) == MayRecord("AWAITING_APPROVAL", approval)
RecordsProposal(approval) == RecordedCall("AWAITING_APPROVAL", approval)

Propose(c) ==
  /\ At(c, "run") /\ mcpCall[c].kind = "propose" /\ mcpCall[c].surface = "mcp" /\ Moves(c, NoCall)
  /\ \E approval \in 1..(Len(proposals) + 1) : AsksApproval("mcp", approval) /\ RecordsProposal(approval)
  /\ UNCHANGED <<installed, tokenScopes, ceiling, shown>>

\* _run_task_write: the service commits, ...
TaskWrite(c) ==
  /\ At(c, "run") /\ mcpCall[c].kind = "propose" /\ mcpCall[c].surface = "tasks"
  /\ \/ /\ \E approval \in 1..(Len(proposals) + 1) :
             /\ AsksApproval("tasks", approval)
             /\ Moves(c, [mcpCall[c] EXCEPT !.at = "record", !.approval = approval])
     \/ GoesTo(c, "record") /\ UNCHANGED <<proposals, awaiting>>
  /\ UNCHANGED <<installed, tokenScopes, ceiling, auditRows, shown>>

\* ... and the row is written after that, or never.
RecordTask(c) ==
  /\ At(c, "record") /\ Moves(c, NoCall)
  /\ \E outcome \in {"AWAITING_APPROVAL", "FAILED", "CANCELLED"} : MayRecord(outcome, mcpCall[c].approval)
  /\ UNCHANGED <<installed, tokenScopes, ceiling, proposals, awaiting, shown>>

\* The bridge takes the platform's own tokens; it keeps no rows.
BridgeCall ==
  /\ \E approval \in 1..(Len(proposals) + 1) : AsksApproval("bridge", approval)
  /\ UNCHANGED <<installed, tokenScopes, ceiling, mcpCall, auditRows, shown>>

(***************************************************************************)
(* Everything else.                                                        *)
(***************************************************************************)

RevokeConnection ==
  /\ installed /\ installed' = FALSE
  /\ UNCHANGED <<tokenScopes, ceiling, mcpCall, proposals, awaiting, auditRows, shown>>

\* The client registers again with fewer scopes.
LowerCeiling ==
  /\ ceiling = Kinds /\ ceiling' = {"read"}
  /\ UNCHANGED <<installed, tokenScopes, mcpCall, proposals, awaiting, auditRows, shown>>

DecideProposal ==
  /\ \E a \in awaiting : awaiting' = awaiting \ {a}
  /\ UNCHANGED <<installed, tokenScopes, ceiling, mcpCall, proposals, auditRows, shown>>

OkOutcomes == {"FOUND", "NO_EVIDENCE", "AWAITING_APPROVAL"}
FailureOutcomes == {"AUTH_REQUIRED", "FORBIDDEN", "FAILED"}

Own == SelectSeq(auditRows, LAMBDA row : row.installed)
FailedLast == \E n \in DOMAIN Own :
  /\ Own[n].outcome \in FailureOutcomes
  /\ \A m \in n..Len(Own) : m # n => Own[m].outcome \notin FailureOutcomes
  /\ n = Len(Own) \/ Own[Len(Own)].outcome \notin OkOutcomes

\* build_my_connections, _check_summary.
Summary ==
  CASE ~installed -> "all_inactive"
    [] installed /\ FailedLast -> "recent_failure"
    [] installed /\ ~FailedLast /\ Own = <<>> -> "no_calls_yet"
    [] OTHER -> "healthy"

LookAtConnections ==
  /\ shown' = Summary
  /\ UNCHANGED <<installed, tokenScopes, ceiling, mcpCall, proposals, awaiting, auditRows>>

McpNext ==
  \/ /\ Len(auditRows) < MaxRows /\ Len(proposals) < MaxRows
     /\ \/ \E c \in Calls :
             \/ Arrive(c) \/ GuardStops(c) \/ GuardPasses(c) \/ ToolDenies(c) \/ ToolAllows(c)
             \/ RunRead(c) \/ CallFails(c) \/ Propose(c) \/ TaskWrite(c) \/ RecordTask(c)
        \/ BridgeCall \/ LowerCeiling
  \/ RevokeConnection \/ DecideProposal \/ LookAtConnections

McpSpec == McpInit /\ [][McpNext]_mcpVars
--------------------------------------------------------------------------------

McpTypeOK ==
  /\ installed \in BOOLEAN /\ tokenScopes \subseteq Kinds /\ ceiling \subseteq Kinds
  /\ \A c \in Calls : mcpCall[c].at \in {"none", "guard", "tool", "run", "record"}
  /\ \A a \in DOMAIN proposals : proposals[a] \in Surfaces
  /\ awaiting \subseteq DOMAIN proposals
  /\ \A n \in DOMAIN auditRows : auditRows[n].outcome \in OkOutcomes \cup FailureOutcomes \cup {"CANCELLED"}
  /\ shown \in {"no_calls_yet", "all_inactive", "recent_failure", "healthy"}

\* Which call asked for an approval can be told afterwards: an approval that an atomic tool
\* requested has its audit row, whatever failed on the way.
ApprovalsAreAudited ==
  \A a \in DOMAIN proposals : proposals[a] = "mcp" =>
    \E n \in DOMAIN auditRows : auditRows[n].approval = a /\ auditRows[n].outcome = "AWAITING_APPROVAL"
================================================================================
