# HRBPilot: TLA+ specifications

HRBPilot lets employees, HR staff and external AI agents handle HR cases. Whatever an
agent proposes to *write* goes through one chain: a plan, an approval by a person, a
short-lived execution grant, a message in a transactional outbox, a worker that calls the
tool, and a completion that records what became of it. Nothing may be written that nobody
approved, nothing approved may get lost, and what the records say must be what happened.
That chain is the core of this project. Around it stand the ways in (sign-in, an OAuth
authorization server, MCP), the connected platforms, the knowledge base and its answers, and
the pages that show people their work. All of it is ordinary code over PostgreSQL rows, run
by several web processes, several workers and an operations console at once; its hard parts
are what happens between two transactions.

## Inventory

| Component (under `src/app/`) | State | Operations | Hard behaviour | What makes it correct | Here |
|---|---|---|---|---|---|
| HR-case machine, `scenarios/hr_case_agent/state.py` | `hr_cases.status` | `transition` | status written by unlocked ORM rows | a case moves only along the table and follows its live write | `CaseStates` |
| Approvals, `scenarios/hr_case_agent/service.py`, `access/routes/hr_case.py` | `approval_requests` | request, decide, expire, consume | two reviewers, expiry against a decision, stale reads | one decision, at most one consumption, none after a close | `GovernedDispatch` |
| Plans, runs and timeline, same files, `agent_loop.py` | `case_events`, `agent_runs` | plan, run, read tools, reassign | numbers taken under an advisory lock from earlier reads | each number once; the last event says where the case is | `CaseTimeline` |
| Gateway, grants, executors, `tools/`, `approvals/grants.py` | `execution_grants`, `tool_executions` | prepare, issue, consume, execute | four rows in one commit; the executor's own transaction | an execution exists only for a consumed approval | `GovernedDispatch` |
| Outbox, `outbox/repository.py` | `outbox_messages` | claim, deliver, retry, terminal | leases that lapse under a live worker | a token names one claim | `OutboxRepository` |
| Dispatcher and worker, `outbox/dispatcher.py`, `outbox/worker.py` | the worker's call in progress | `dispatch_once`, `replay_dead_letter` | crash between claim and completion, late completion, retry limits, authority that changes | no orphan, fenced completions, every write settles | `GovernedDispatch` |
| Operations console, `access/routes/ops_reconciliation.py` | none of its own | resolve, replay, discard | unlocked read, later write | does not undo what workers did meanwhile | `GovernedDispatch` |
| Agent tasks, `scenarios/agent_tasks/` | tasks, drafts, events | prepare, provide input, submit, project, cancel | a status that projects two other rows; stale lists; REST commits where MCP rolls back | what was confirmed is what is asked; no final status is a guess | `AgentTasks` |
| OAuth clients, `oauth/registry.py`, `clients.py`, `cimd.py`, `routes/authorize.py` | clients, documents, codes | register, sign in, consent, block | two tenants at one client; a document that changes | a code fits what is registered and whose client it is | `OAuthClients` |
| OAuth tokens, `oauth/tokens.py`, `authorization.py` | token families, revocation records | redeem, rotate, reuse detection, revoke, introspect | rotation in two transactions, reuse detection in a third, against revocation | one chain per code; a revoked one is refused | `OAuthTokens`, revocation of approvals in `GovernedDispatch` |
| Signing keys, `oauth/keys.py`, `access/as_tokens.py` | published keys, shared cache | publish, fetch, verify | rotation while requests share a cache | a rotation costs a request only in a race with an older answer | `SigningKeys` |
| Roles and sign-in, `access/` | tokens, roles, manager scopes, legacy work | login, refresh, authorize, replace scopes | the role of a token is older than the role of its user | a lost role ends with the token | `Access` |
| Rate limits, `guardrails/rate_limiter.py` | Redis windows, process memory | check | several servers, Redis gone and back | no window admits more than its limit | `Limits` |
| MCP servers, `mcp/` | audit rows | read, propose, task tools, bridge | credentials looked up three times; audit beside commits | an approval has its audit row | `McpCalls`, `ReadTools` |
| Data sources, `scenarios/data_source/`, `connectors/oauth.py` | the source row, OAuth states | register, pause, revoke, connect, sync | unlocked read, later write of some columns | a state is exchanged once | `DataSources` |
| Connector events, `connectors/` | event log, intake rows, cursor | callback, sync, bind identity | redelivery; sync dies between page and cursor | one request per event, no named item missing | `Intake` |
| Employee requests, `scenarios/employee_request/` | requests, delivery attempts | file, answer, deliver, retry | crash between send and commit; two retries | told once per crash | `Triage` |
| Scenario tasks and batches, `scenarios/tasks.py`, `material_batch/` | `async_tasks`, batch counters | dispatch, run, count, expire, retry | late acknowledgement, unlocked counters | every analysis ends | `Batches` |
| Interview digests, voice entries, `access/routes/` | material rows | file, list | rows that change under keyset pages | pages miss nothing that keeps matching | `Records` |
| Ingestion, `rag/ingestion/`, `access/routes/kb.py`, `rag/security/` | rows, files, vectors, runs | upload, ingest, delete, sweep | three stores, no common transaction | a deleted document leaves no vectors | `Ingestion`, `Chunking` |
| Answers, `scenarios/policy_qa/`, `rag/` | chat history | ask, stream, rate | degraded legs, fallback between providers | a degraded answer says so; better evidence comes first | `Answering`, `Ranking` |
| Knowledge feedback, `scenarios/knowledge_feedback/` | candidates | collect, materialise, decide | concurrent collectors, askers who move | a question is decided once | `Feedback` |
| Work tasks, `scenarios/work_tasks/` | tasks, parents | create, update, recount, advance | recount under the parent's lock | a parent counts its subtasks after an edit | `WorkTasks` |
| Workbench, `scenarios/work_summary/`, `weekly_report/` | reports | collect, generate, publish | collectors read at different times | no work task is hidden or shown twice | `Workbench` |
| Token ledger and budget, guards' patterns, evaluation, web UI, configuration | - | - | - | - | not modelled |

`PROJECT.json` lists the components with their files, and every hazard of the code at
its line with the property that watches it, or why none does.

## Modules

| Module | What it is |
|---|---|
| `CaseStates` | the transition table and `transition` |
| `OutboxRepository` | one outbox row and what each SQL statement does to it |
| `GovernedDispatch` | the chain: variables, one action per handler or transaction, properties |
| `ApprovedWrite` | the contract: what the chain promises about one write, without queues, leases, grants or workers |
| `MC_GovernedDispatch` | the instances TLC checks |
| `GovernedDispatchProofs`, extended by `CaseProofs` | the theorems about the chain: its queue, leases and tokens; its case and its contract |
| `AgentTasks`, `Batches`, composed by `MC_Tasks` | work that somebody waits for |
| `OAuthClients`, `OAuthTokens`, `SigningKeys`, `DataSources`, `Access`, `Limits`, `McpCalls`, composed by `MC_Identity` | who comes in, and how often |
| `Intake`, `Triage`, `WorkTasks`, `CaseTimeline`, `Workbench`, `Ingestion`, `Chunking`, `Answering`, `Feedback`, `Records`, `ReadTools`, `Ranking`, composed by `MC_Services` | the services around the governed write |
| `AgentTasksProofs` | the theorems about `AgentTasks` and `Batches`, and about the two together |
| `OAuthTokensProofs`, `IdentityProofs` | the theorems about `OAuthTokens`; about `OAuthClients`, `SigningKeys`, `DataSources`, `Access`, `McpCalls`, `Limits`, and the types of all seven |
| `RequestsProofs`, `KnowledgeProofs` | the theorems about `Intake`, `Triage`, `WorkTasks`, `CaseTimeline`, `Workbench`; about `Ingestion`, `Answering`, `Feedback`, `Records`, `Chunking`, `Ranking` |
| `ServicesProofs`, over the two | the types of the twelve services, with `ReadTools` |

`GovernedDispatch` extends the first two and instantiates `ApprovedWrite` under a refinement
mapping. The parts that `MC_Tasks`, `MC_Identity` and `MC_Services` compose share no rows in the
code, so a behaviour of the composition picks one part (`part`) and leaves the others where they
began; that is one state space per part in one run, not an interleaving of them.

A definition whose name carries a suffix (`Claimable_PendingOnly`) is a deliberate
error: `PROJECT.json` names, for every property, at least one such error that makes TLC report it.

### GovernedDispatch: how the state corresponds to the code

An approval is consumed at most once, by a guarded `UPDATE`, and the consuming commit
creates its grant, execution and message; the four are one-to-one, so all are functions on
`Approvals`.

| Variable | In the code |
|---|---|
| `caseStatus` | `hr_cases.status` |
| `approval` | `approval_requests.status`, `"NONE"` before the row exists |
| `lapsed` | `expires_at` of the approval has passed; its grant has the same `expires_at` (`tools/gateway.py:93`) |
| `revoked` | installations with a row in the revocation records |
| `authorized` | the grant's subject has the capability and sees the case (`_is_currently_authorized`, and the policy check at preparation) |
| `grant` | `execution_grants.status` |
| `execution` | `tool_executions`: status, `attempt >= 1` (`tried`), lease owner, lease token |
| `message` | `outbox_messages`: status, attempts, owner, token, and the two comparisons the queries make with the clock (`due`, `overdue`) |
| `worker` | where a dispatcher process is: idle, in a claim with the case it found, inside the tool call, in it and about to write the case it read, back with an outcome, or dead |
| `applied` | the tool's effect is in place; executors are idempotent by request id, so a boolean |
| `open` | handlers between their unlocked read and their write |

### GovernedDispatch: how the actions correspond to the code

Each action is one committed transaction. Two things are finer than that.

* **The tool call** lies between two transactions of `dispatch_once`. A claim
  (`ClaimAccepts`), the call (`EffectLands` or `EffectAbsent`) and a completion
  (`CompleteSuccess`, `CompleteUnknown`, `CompleteRetry`, `CompleteFailed`, or
  `CompleteStale` when the fence fails) are separate steps; a lease may lapse, another worker
  may claim, and the process may die between any two of them.
* **Handlers that read without a lock** may be split: `Begin(h, a)` is the read,
  the handler's own action is the write, `Rollback(h, a)` the way out that writes nothing.
  Under READ COMMITTED a guarded `UPDATE` re-evaluates its `WHERE` when it writes, so those
  actions repeat the guard; an assignment to an ORM row does not, so those do not. `Overlap`
  says which handlers are split in an instance; the others run as one step.
* **Workers read the case without a lock, too.** A claim (`ReadsCase`, then `SettleClaim`) holds the rows of
  its message and execution (`Locked`) while it waits to write the case it found; `update_case_status` validates the
  status it read (`EffectReads`) and writes it after `_append_event` has waited for the case's advisory lock
  (`EffectLands`). `"plan"`, `"redrive"` (the dispatcher's replay), `"claim"` and `"effect"` are members of `Overlap` like
  the handlers of the desk. Completions and rejections are one step always: `finish_tool_execution` and
  `decide_approval` append an event, and so hold that lock, before they read the case.

Errors are modelled where they change something: `ClaimAborts` and `CompleteAborts` are the
`RuntimeError` and `InvalidTransitionError` paths that roll back and, because `run_worker`
catches nothing, end the process. `CancelTask` is the REST route, which commits in its
`finally` block although the task's own transition raises.

Two windows are closed: `cancel` reads the case after it has written the approval and may wait for the advisory
lock before it writes it, which is one step here; and a claim's authorization is judged at its commit.

Abstractions: the order in which equal messages are claimed (`ORDER BY next_attempt_at`) is
left open; a request that finds a reusable PENDING record changes nothing and is a stutter;
handoff and high-risk review, which end before any approval, and the events are left to
`CaseTimeline`, so a case goes from `NEW` to `PLAN_READY` in one commit; texts are left out; hashes and parameters are bound to the approval, so a mismatch cannot arise. Executors
may end in every way the dispatcher distinguishes, although the ones in `tools/executors.py`
never raise the retryable error.

### The other modules

**`AgentTasks`.** `task` is the row of `agent_tasks` with its frozen draft and version, `requests`
the approvals and executions it may ask for. What becomes of them is `GovernedDispatch` without its queue and leases:
decisions, consumption, claims and their refusal, completions, the replay of a dead letter, and verdicts of operators, of which
two may overlap. The case is read and written in one step here, the overlap of its writers is `GovernedDispatch`'s. The history
`verdicts` keeps every verdict a write has had, `named` every owner a draft has named, and `doubted` whether it was ever UNKNOWN. `PutBack` adds
the claim of a write of which an operator put back the message alone; the theorems hold with it and without it, the run goes
without it, since it makes five times the states and its only verdict is a second "failed". Handlers that
load the task `FOR UPDATE` are one step; `list_tasks` reads without a lock and writes its
projections later (`List`, `ListWrites`). `Cancel` of a submitted task raises after it wrote the
approval: over REST the row commits, over MCP it rolls back, and both are outcomes. What a sentence is understood as is
chosen from `Goals`.

**`Batches`.** `analysis` is `async_tasks.status`, `queue` the broker's messages, `worker` where a worker
is between the three commits of a task; `WorkerLost` and `AckLost` are late acknowledgement,
`WorkFails` an exception that the `except` branch writes down, `Escapes` one that it does not, because it came before the `try`
or the branch failed itself, `ExpireStaleTasks` the sweeper that runs when somebody looks, over the tasks that are old enough (`aged`).
`RetrySends` may break off after some of its messages. Nothing in these steps looks at
the status first, which is why the model lets a late worker overwrite it.

**`OAuthClients`.** One client in each of its three ways of registration, two people of two tenants. A handler
is one step except login, which reads the client before the password check and claims it afterwards.
A redirect address stands for what the checks tell apart (scheme, loopback, port). A metadata
document is one of a few, fetched when the cached one is stale, and refused when it does not name itself.

**`OAuthTokens`.** Token *n* is row *n* of `oauth_tokens` and the access token issued with it; a family has the name
of its first row. Redemption is two transactions with the supersession of older families in one of them;
rotation is a check, then the claim by guarded `UPDATE` together with the insert; reuse detection revokes in its own
session. A restart forgets the requests in between. Lifetimes are events (`TokenExpires`).

**`SigningKeys`.** `memory` of `as_tokens` with the lock of one issuer: a request verifies with what is
cached, refreshes under the lock if the key is unknown and tries again. The server answers at one moment (`Serve`, kept in
`answer`) and the keys arrive and are stamped at a later one (`FetchSucceeds`), so a request that began to wait in between takes keys from before a rotation for
fresh and refuses a good token: `overtaken` marks it, `unlucky` one whose own fetch failed.

**`DataSources`.** The row, and administrators between read and write. An unlocked ORM row writes the columns
whose value changed since it was read and no others (`ModifiedIn`); the connect at the end of the OAuth round trip is a
guarded `UPDATE`.

**`Access`.** The clock counts access-token lifetimes. A token carries the role its user had; a route opens
by the capabilities of that role. Manager scopes are replaced by delete and insert in one transaction, with the
row locks that implies.

**`Limits`.** A check of the API adds to a window and counts it in two commands, for each window in turn and each at its own time; one
of a bucket or of a login reads the clock (`CheckBuckets`, `CheckLogin`) and its transaction reaches Redis some time later (`Pipelined`), or breaks,
executed or not (`PipelineBreaks`). Without Redis the general limiters refuse and the login limiter counts in the memory of its process. A count
trims the set by the time it carries, so one that was long on its way counts after a newer one has trimmed hits that were recent for it, and
a stretch of time that is over may hold more calls than the limit. `AdmittedWithinLimit` therefore speaks of the stretch that ends now
for windows in Redis, and of every stretch for the memory of a process, which is added to and counted in one go. The model
assumes that clocks agree and that no server restarts within a window.

**`McpCalls`.** One call from the door to its audit row: the credential is looked up at the door, in the guard and
in the tool, and may be revoked between any two. The audit row of an approval is in its transaction
(`required=True`); all others are best effort.

**`Intake`.** `eventLog`, `intake` and `made` are the event row, its intake row and the requests made of it, by
`external_event_id`: `CalledName` for a callback, `ItemName` for an item of a sync, so a message that comes both ways is
two events and may make two requests, and an item without a msgid is passed over. A callback
records an event in steps under the lock of the source, a sync item in one transaction, the cursor after a page.

**`Triage`.** One request, several answers, delivery attempts that send before they commit; `accepted` counts what the
platform took.

**`WorkTasks`.** A clerk's transaction from its read to its commit, with the key share an inserted
subtask holds on its parent, the row lock of the recount, and the deadlock PostgreSQL resolves by an abort.

**`CaseTimeline`.** A handler's transaction over one case: it decides from the status it read, numbers its events
under the advisory lock, may find the row lock taken, commits or rolls back. Left out are the task that plans and asks in one transaction (`_ensure_plan_ready`
before `request_approval`; in `AgentTasks`, without a timeline) and `execute_approved_write`, which no route calls any more.

**`Workbench`.** Items of each type with their `updated_at`; a page calls the collectors in their order, each in its own session, so
work may change between two of them; then sorts, deduplicates, puts into buckets and cuts. A collector reads its newest rows up to a
limit (5 to 100 in the code), a bucket shows its newest (50 and 20): limits are constants, small in the run so that both cuts happen.

**`Ingestion`.** A document in three stores, the steps of its upload, deletion and indexing, and the locks
an uncommitted chunk row holds. `FileOf` gives each upload what the gate tells apart.

**`Chunking`, `Ranking`.** Pure functions, evaluated over every input within the bounds and compared with what they promise:
for chunking, the page each character came from (carried along as history); for ranking, dominance (a hit that is no later in every list and
earlier in one, or of the higher authority at a tie). What the code writes as a loop over positions or a call of
a sorting function is a recursive function or an order of places here (a hit goes behind those that a stable
sort puts before it), forms that can also be proved about. `ChunksKnowTheirPage` speaks of documents whose spans are in order: a blank page after one that ends in
a hyphen puts two spans out of order, which the binary search does not expect.

**`Answering`, `Feedback`, `Records`, `ReadTools`.** As their headers say: a question from its guard to its saved turn, a question put to
managers, a record from its task to the pages that list it, and the envelopes of the read tools. What ranking keeps of
more than `KeptHits` hits (`retrieval_top_k`; 1 of the two policies of the run) is anybody's guess, once in a search and once
more when two are fused (`Foremost`). The question of `Feedback` has a key: one of blanks only has the empty key that the
unique indexes of migration 015 leave out, and `AskedOnce` does not speak of it. A task of `Records` moves to
whatever the worker, the sweep and `retry_failed` write (`AnalysisMoves`), over a final status too, as `Batches` has it in detail.

## Runs

Every instance of the chain has one case, since cases do not share state; approvals of the same case do.

| Run | Instance | What it checks |
|---|---|---|
| `serial` | two approvals, two workers (symmetric), all handlers atomic, the dispatcher's replay | `TypeOK`, `NoOrphanExecution`, `OneLivePerCase`, `CaseTracksWrite`, `ClaimNeverAborts`, `ImplementsContract`, `LegalCaseMoves` |
| `live` | one approval, two workers, every handler split, the console's replay, fairness | `LeaseFencesExecution`, `TokensSeparateWorkers`, `ResolvedHasEffect`, `RevokedNeverAccepted`, `EveryWriteSettles` |
| `tasks` | two agent tasks on one case, one edited, one a twin with the parameters it may come to; two analyses, one worker that may be lost once or leave a task without an end, fairness | `ConfirmedIsRequested`, `ExpiredNeverExecutes`, `FinalAgreesWithWrite`, `PolledTaskSettles`, `NoTaskIsStuck` |
| `identity` | two people or requests in each of seven parts (symmetric requests) | `GrantsFollowBinding`, `OneChainPerCode`, `DisconnectedIsRefused`, `PublishedKeyVerifies`, `OneExchangePerState`, `RoleLossTakesEffect`, `AdmittedWithinLimit`, `ApprovalsAreAudited` |
| `services` | two concurrent callers (symmetric) in each of twelve parts that have any | `EventsCountOnce`, `NobodyWaitsInVain`, `ToldOnce`, `ParentCountsItsSubtasks`, `TimelineInOrder`, `DeletedLeavesNoVectors`, `ChunksKnowTheirPage`, `AnswerSaysWhatFailed`, `BetterHitsComeFirst`, `AskedOnce`, `PagesMissNothing`, `WorkTasksShownOnce` |
| `ops_replay` | one approval, the console's replay | violates `ClaimNeverAborts` |
| `expiry_dead_end` | two approvals | violates `ExpiredIsReplaceable` |
| `late_withdrawal` | one approval, `cancel` split | violates `WithdrawnNeverExecutes` |
| `lost_worker` | one approval, one worker | violates `LostWorkerIsNotFailed` |
| `late_resolution` | one approval, `update_case_status` split | violates `LegalCaseMoves` |
| `early_batch` | a batch of two | violates `CompletedBatchHasSettled` |
| `consent_scope` | an unbound client, a configured default scope | violates `GrantedAsShown` |

Each of the last three passing runs also checks the type invariants of its parts. Deadlock is not checked: a
case, a task or a request may rest, and nobody is obliged to ask for anything.

**Bounds.** Two approvals are enough for every interference between writes of a case in these instances: the
properties speak of at most two, and where a third matters, beside the console's replay, no run of two checks them (see
Proofs). Two workers are enough for a lost lease, a late completion
and a second attempt under way; a third would only repeat the second. `MaxAttempts` is 2
(3 in the tool catalogue), so that both a retry and giving up happen; the other way to
a dead letter, a tool without an executor, is left to the proofs. `MaxClaims` bounds the calls
per message, and hence the fencing token: 2 gives a reclaim, 3 (run `live`) a worker that
claims, loses its lease and claims again. `EveryWriteSettles` does not rest on that bound: a
message that may not be accepted any more is still refused and settled once its grant
expires, and the code's grants do expire.

In the other runs two concurrent actors are the rule, for every race in this code is between two transactions, and one
more repeats one of them. Faults, lost workers, crashes and lapses are bounded by one each (`MaxLost`,
`MaxCrashes`, `MaxFaults`, `MaxLapses`): each property but `ToldOnce`, which counts them, speaks of what one
leaves behind. `MaxTokens = 3` allows a rotation in each of two families or two in one, `MaxCodes = 2` a second
authorization that supersedes the first. `MaxDocument = 3` gives a client two changes of its document, one of them refused.
`MaxVersion = 3` gives a draft an answer and another one that changes it. `MaxKid = 3` allows two rotations of keys, so that a cached set can be two behind. `MaxPages = 3` with pages of at most two characters reaches every
hyphen, blank page and chunk boundary with overlap. `MaxStamp = 4` on two days orders four changes
around one page. `MaxEvents = 8` gives each of two requests its longest run of events.

**What the split handlers show.** Whoever moves a case goes by a status read without a lock, and TLC finds what that costs when one
handler at a time is split in the instance of `serial`. `LegalCaseMoves` fails for each of `plan`, `request`, `redrive`, `claim` and
`effect` (the last is the run `late_resolution`). `CaseTracksWrite` fails for all of these but `claim`, and for `cancel`; `OneLivePerCase`
for `plan`, `request`, `redrive` and `cancel`. They are checked where handlers are atomic, and say what the code guarantees to callers
that do not overlap. What holds when all of them do is what `live` checks: fencing, distinct tokens, an effect behind every
resolution, finality of revocation, a verdict in the end.

**Fairness** (`live`). The clock reaches `expires_at`, `lease_expires_at` and
`next_attempt_at`; a running worker polls, so each claimable message is eventually claimed, and
completes what it was called for; a tool call returns. None of this is asked of people: no reviewer,
operator or administrator has to act. `WF(Restart)` is an assumption about the deployment, not a fact of
the repository: `docker-compose.yml` gives the worker service no restart policy, so without
a supervisor the first abort or crash is the end of dispatching.

**Fairness** (`tasks`). A page that shows a task asks for its status again and again (`GetStatus`), and a list that has
been read is written back; time passes, and a page that shows an analysis calls the sweeper. No worker is assumed
to be fair: `NoTaskIsStuck` is what the sweeper owes to an analysis whose worker or message is gone.

## What the violated runs show

1. **`ops_replay`.** The console's replay re-queues the message and leaves the execution
   `FAILED` under a consumed grant. The next claim raises
   `tool dispatch grant is not valid for this attempt` (`outbox/dispatcher.py:380`); the worker
   ends, the message stays claimable, and the next worker ends as well. `replay_dead_letter`
   of the dispatcher does reset the execution, but no route calls it; with it in the console's
   place `ClaimNeverAborts` holds (run `serial`).
2. **`expiry_dead_end`.** The runbook answers an expired approval with "run plan/run again".
   The case stays `AWAITING_APPROVAL` and neither planning nor a new request accepts that.
3. **`late_withdrawal`.** `cancel` reads the approval, a reviewer approves and the write is
   prepared, `cancel` assigns `WITHDRAWN`: the approval says withdrawn and the tool runs. The
   contract still holds, as the execution record is what counts as acceptance.
4. **`lost_worker`.** A worker dies after the effect; before another takes over the grant
   expires or the subject loses access, and the claim records `FAILED` for a write that is in
   place, where the change plan asks for `UNKNOWN`.
5. **`late_resolution`.** A call of `update_case_status` reads `EXECUTING`. Its lease lapses, the grant expires, and the claim
   of another worker fails the case. The call then writes the `RESOLVED` it had validated against the status it read: `FAILED` to
   `RESOLVED`, under an execution that stays `FAILED`.
6. **`early_batch`.** Each end of a task moves a counter, and nothing remembers which task was counted. One that is
   delivered again after it ended, or retried after it failed, counts twice, and the batch is
   completed while another item has not even started.
7. **`consent_scope`.** An unbound client that names no scope gets the configured default without the right to
   propose, and the consent page shows that. Signing in binds the client. The posted consent is validated
   again, the exception for unbound clients no longer applies, and the code carries the right.

One more is told here without a run: a comment (`work_tasks/service.py:118`) wants a recount to see what was committed before
it. `create_work_task` has read the parent for its owner, the locked read does not refresh that row, and an unchanged count
is not written over a count another request has changed; `WorkTasks` has this (`seen`), and `ParentCountsItsSubtasks` speaks of edits only.

Some things the models show are no violation of a stated promise, or no run states it:
a followup keeps the owner it resolved first (`agent_tasks/service.py:368`), so a card that names another one since is confirmed
and the approval asks for the first; a task that is "failed" or "succeeded" stays so when its write is replayed, or judged
otherwise by a second operator;
an approval's run of a plan is never finished (`agent_runs` stays `RUNNING`); an answer that is not streamed is saved
without its citations; a sweep gives back documents that the retrying run has claimed; two filings create one employee twice; a request whose delivery failed after it
was resolved is on no list that offers the retry; the page of connections knows no call of the web bridge; requests that wait for somebody or for material are in no bucket of the workbench; an envelope that was
cut to its budget carries its note only when nothing is left; `revoke_data_source` may leave the tokens of a connection that
commits during it.

## Proofs

TLAPS checks every proof. The theorems hold for every value of the constants that the `ASSUME` of the module
allows: any number of cases, approvals, installations, workers, people, requests, servers, documents and hits; every value of the bounds
that TLC needs; every `Overlap` and `Replays` where no hypothesis is named. Each is about the
specification of its own module; `BothAreTyped`, `PartsAreTyped` and `ServicesAreTyped` are about the `MC` modules that run them side by side.

**Finite sets.** `WorkTasksAssumption` and `FeedbackAssumption` say that a parent has finitely many subtasks, and that finitely many
people ask: what is counted and summed over them would not be a number otherwise.

**Assumptions on names.** Some states are recorded by a name in the place of an actor's: `"free"` for a lock, `"nobody"` for a holder,
`"redis"` for the place of a window, `"tenant"`, `"bucket"` and `"login"` for windows. The assumptions `IntakeAssumption`, `TimelineAssumption`,
`SigningKeysAssumption` and `LimitsAssumption` say that no actor has such a name.

### The chain: `GovernedDispatchProofs`, `CaseProofs`

| Theorem | Property | Hypothesis | Argument |
|---|---|---|---|
| `TypeCorrect` | `TypeOK` | - | inductive as it stands; the lemmas `ClaimedMessage`, `ReleasedMessage`, `OtherMessage`, `CaseMoveType` give the type of what each statement writes |
| `RevocationIsFinal` | `RevokedNeverAccepted` | - | `ApprovalInv` |
| `Fencing` | `LeaseFencesExecution` | - | `FenceInv` |
| `TokensAreDistinct` | `TokensSeparateWorkers` | - | `TokenInv` |
| `ClaimsGoThrough` | `ClaimNeverAborts` | `NoConsoleReplay` | `ClaimInv` over `FenceInv` |
| `NoExecutionIsLost` | `NoOrphanExecution` | `ConsoleSeesReplays` | `OrphanInv` over `FenceInv` |
| `ResolvedMeansDone` | `ResolvedHasEffect` | - | `EffectInv` |
| `Refinement` | `ImplementsContract` | `OneOperatorAtATime` | `VerdictInv`, and each step mapped to a step of `ApprovedWrite` or a stutter |
| `MovesAreLegal` | `LegalCaseMoves` | `CaseIsSerial` | `WaitInv`: what a handler found is what it writes over; each move is in the table |
| `OneWriteAtATime` | `OneLivePerCase` | `DeskIsSerial` | `CaseInv` over `RunningInv` |
| `CaseFollowsWrite` | `CaseTracksWrite` | `DeskIsSerial` | the same |

The later arguments rest on one lemma, `RowSteps`: whatever the step, the grant, the execution and the message of one approval together
go through one of nine moves (`RowStep`). What preserves an invariant about rows is then shown for each move and
not again for each handler.

* **`ApprovalInv`.** A revocation expires what is undecided, but a preparation that began
  before may write after. It cannot consume: its guarded `UPDATE` wants `APPROVED`. The
  invariant says that an approval of a revoked installation is not `APPROVED`, that the
  approval of an undecided write has no execution yet, and what a handler in `open` may still
  rely on. A request under way when the revocation lands may still create a
  PENDING record; `ApproveReads` re-checks revocation, and an approve that began before
  had a PENDING record to begin with, which the revocation expired.
* **`FenceInv`.** The lease agrees with the execution because the console writes both without
  a lock, each at a time when there is no lease: the invariant says that an active grant means
  a PENDING execution, a dead letter means a FAILED one, and that an operator's verdict in
  flight finds neither a lease nor a way to one (grant consumed, execution settled).
* **`TokenInv`.** The message's token bounds every worker's token for that message; it never
  goes back (`TokensNeverGoBack`), a job comes from a claim only (`JobsComeFromClaims`) and
  otherwise stays the same (`JobsStay`), and a claim takes a token nobody has.
* **`ClaimInv`.** A claim raises when the grant of its message is neither usable nor consumed by an earlier attempt. A
  waiting message has a waiting execution, and a consumed grant an execution that was tried.
* **`OrphanInv`.** A waiting execution has a waiting message, a running one a leased message, and an operator about to
  move a dead letter finds its execution settled for good.
* **`EffectInv`.** A worker is called only for an accepted write, and is back with "ok" only when the effect is in place. A case
  is resolved by such a worker, or by the tool itself in the step that applies it.
* **`VerdictInv`.** A settled write stays settled, unless a replay reopens a failure: the step of the contract that is left out
  is the one from a verdict to another.
* **`CaseInv`.** A live write has its case to itself, so whatever a step does to it, it may move the case; the status is the one
  the live write calls for, or `RESOLVED` by another write that took effect.

The hypotheses are about the operations console and about handlers that read without a lock, and TLC finds a
counterexample without each of them (in `DeskIsSerial` the claim is there for `LegalCaseMoves`, and for the proof). `NoConsoleReplay`, the console offers no replay of its own: with it, `ClaimNeverAborts` fails (run
`ops_replay`). `ConsoleSeesReplays`: a dead letter that the dispatcher has sent back to the queue is discarded
or replayed from a screen that shows it dead still, and its execution has no message. `OneOperatorAtATime`: two verdicts on one unknown
outcome overlap and the later one turns a success into a failure, or a replay from the console lands on a message that the dispatcher's
replay brought to an end meanwhile. `CaseIsSerial`: a planner, a request, a replay, a claim or a call of `update_case_status` writes over a status
other than the one it read (above). `DeskIsSerial` adds `cancel`, whose withdrawal may write over a decision, and the console without a replay of
its own. A replay from the console breaks `CaseTracksWrite` with two writes of a case: one is a dead letter, the other is
requested, and the claim of the first after its replay is refused and fails the case. `OneLivePerCase` takes a third, requested now
beside the second: an instance of two approvals does not show that, one of three does. None of the hypotheses excludes an interleaving of workers, leases, crashes, expiries
and revocations with one another or with any handler that may overlap. The code enforces none of
them; what it enforces without them are the theorems that name none.

### Tasks: `AgentTasksProofs`

| Theorem | Property | Argument |
|---|---|---|
| `TasksAreTyped` | `TypeOK` of `AgentTasks` | `TaskInv` |
| `TheConfirmedIsRequested` | `ConfirmedIsRequested` | `TaskInv`: a card shows the draft of its version, and versions only grow; a hidden id is a member that a version named (`OwnerNamed`) |
| `ExpiredIsForGood` | `ExpiredNeverExecutes` | `TaskInv`: what "expired" is said of has no way to an execution (`Dead`) |
| `FinalStatusAgrees` | `FinalAgreesWithWrite` | `TaskInv`: what a list is about to write fits its request still (`Fits`); a verdict stays in the history (`Judged`) |
| `OnlyTheAbandonedStrand` | - (what `NoTaskIsStuck` leaves to the sweep) | `BatchInv` |
| `BothAreTyped` | `TasksTypeOK` | `TaskInv` and `BatchInv`, each kept by the steps of the other |

`StatusesFit` covers the stale list: a row that `list_tasks` has read carries a final status only of a verdict that the history keeps, so
writing it late claims nothing that was never true. `BatchInv` says what a worker between two writes may rely on: whoever marks a task running is at work on it
in the same step and stays so until it writes the result; every other write to the row leaves a status that is not "running". So a task that says
"running" with nobody at it was left by one of its own workers (`abandoned`), lost or out of the `try` by an exception that nobody wrote down, and
`ExpireStaleTasks` is there for those and for messages that were never sent, not for a race of two that live.

### Who comes in: `OAuthTokensProofs`, `IdentityProofs`

| Theorem | Property | Argument |
|---|---|---|
| `TokensTypesHold` | `TokensTypeOK` | `TypeInv`: what a request carries from one transaction to the next exists, and every row descends from a code |
| `OneChainHolds` | `OneChainPerCode` | `ChainInv` |
| `RevocationHolds` | `DisconnectedIsRefused` | nobody is told of a revocation that is not recorded (`TellsWhatIsRecorded`), and both places that judge an access token read the record |
| `OneExchangeHolds` | `OneExchangePerState` | `ExchangeInv` |
| `GrantsHold` | `GrantsFollowBinding` | `ClientsInv`: the tenant of a row is written once, and a code fits the edition of the document it was given for |
| `RotationCostsFew` | `PublishedKeyVerifies` | `KeysInv`: whoever takes keys that came since its attempt began finds its own among them, or the key was withdrawn, or the answer is older than the attempt |
| `RoleLossHolds` | `RoleLossTakesEffect` | `AccessInv`: the role of a live token was its user's when it was issued, at most a token's life ago |
| `ApprovalsHaveRows` | `ApprovalsAreAudited` | `McpInv`: an approval is recorded in the step that asks for it |
| `AdmissionsHold` | `AdmittedWithinLimit` | `LimitsInv` |
| `PartsAreTyped` | `IdentityTypeOK` | the invariants above with the types of the rest; one part runs and the others stand still (`PartsStep`) |

* **`ChainInv`.** That a code has one chain follows from what happens before there is any: a code is spent before anything is
  issued for it, at most one request holds a spent code for which there is no row yet, and an unspent code
  has neither a row nor a holder (`CodesSpent`). A rotation appends a row in the statement that spends the only one left. Steps that
  only end something, most of them, are `Quiet`, and one lemma covers them.
* **`ExchangeInv`.** A state that is fresh was never exchanged and nobody holds it for an exchange; a request that
  does is the only one, and the state has no exchange yet.
* **`LimitsInv`.** A call that passed its first window waits for its second: it is counted as let through already. What
  passed is a hit of its set as long as it is recent, so the number that a check reads bounds what was admitted. A check that
  took longer than a window may have lost its hit by the time it counts, and what it lets through is no longer recent either.

### The services: `RequestsProofs`, `KnowledgeProofs`, `ServicesProofs`

| Theorem | Property | Argument |
|---|---|---|
| `OneRequestPerEvent` | `EventsCountOnce` | `IntakeInv`: the callback that claimed an event holds its source, and behind the cursor and within a page everything has a row |
| `BindingMissesNobody` | `NobodyWaitsInVain` | `IntakeInv`: what a claim read of the sender's binding is still so |
| `EmployeeToldOnce` | `ToldOnce` | `ToldInv`: who sends an answer is alone with it, and it is not accepted yet except by a process that died |
| `ParentIsCounted` | `ParentCountsItsSubtasks` | `CountInv`: who recounts is alone with the parent, the count is of the subtasks there are, and the parent an edit has read is the one there is |
| `TimelineIsOrdered` | `TimelineInOrder` | `OrderInv`: who has a number holds the advisory lock; numbers are the size of what there is |
| `TasksAreShownOnce` | `WorkTasksShownOnce` | `BoardInv`: every item has an instant of its own, and a row read of it is of an instant; a cut list is full (`CutIsFull`) |
| `DeletionIsComplete` | `DeletedLeavesNoVectors` | `VectorInv`: what a worker has upserted but not committed belongs to a row that stays |
| `AnswersTell` | `AnswerSaysWhatFailed` | `AnswerInv`: a request under way has told of every leg that was down |
| `ScopesAreAskedOnce` | `AskedOnce` | `AskedInv`: a scope has one row, which its decision closed |
| `NoPageMisses` | `PagesMissNothing` | `RecordsInv`: what a reader is owed and not shown lies behind the cursor |
| `ChunksAreTraced` | `ChunksKnowTheirPage` | pages, spans and the search in them, below |
| `NoTextIsLost` | - (the second half of `ChunksKnowTheirPage`, for every text) | both cuts cover every offset that has a visible character |
| `EvidenceIsInOrder` | `BetterHitsComeFirst` | places in a stable sort, and the arithmetic of shares, below |
| `ServicesAreTyped` | `ServicesTypeOK` | the invariants above, and counts where a type bounds one, below |

What `Chunking` and `Ranking` compute is defined by recursion. The induction theorems of the library take
an operator as a parameter, which the provers cannot instantiate; instead a lemma picks the least (or greatest) counterexample, which exists because the order of the naturals is
well-founded (`LeastNatural`, `GreatestNatural`), and refutes it. This serves twice: first that a function with the given equations exists, which a recursive definition
by itself does not say, then that it computes what it should.

* **Chunking.** `Stitching(acc, n)` says of the text and the spans of the first *n* pages that they fit: a character has a page, a page
  has a span, and the span of a page holds its characters, if spans are in order. `BisectFinds` says what the binary search returns in a
  sorted sequence; the two together give the page. For `SplitOversized` the argument runs from the end of the text, for sections from the
  last heading that is not behind a character.
* **Ranking.** `PlacesAreTaken`: in a total order of *n* numbers, to go behind those that come before is to have a place of one's own, and no
  place stays empty; so a stable sort is a rearrangement in order (`PlacedSorts`), whatever it sorts by. `DenominatorsDivide`: the product of the denominators is divided by
  each of them, so a score in whole numbers is exact and an earlier rank gives a larger share (`ShareFollowsRank`). Hence a hit that beats another scores
  higher (`BeatsScoresHigher`), comes earlier, and is not cut off before it.
* **Types.** `ServicesTypeOK` is not inductive where it bounds a number. That `employees` never passes `MaxMaterial` takes a count: each request that
  may still create the row of the employee (`Founders`) has a task of its own, and so has each row there is. `pending` never goes below zero because
  nobody takes an approval that is not open (`TakersOK`). The offset of `execute_search_cases` stays within the cases there are
  because one more than the page was read; and the sum behind `seen` is a natural for a finite set of people (`SumIsNatural`, by the smallest
  set whose sum is not). That a provider is only asked for its own model is part of these types too.

### Model-checked only

Liveness (`EveryWriteSettles`, `PolledTaskSettles`, `NoTaskIsStuck`) and everything that depends on `ENABLED` are out of the prover's reach. All other
properties of the passing runs are theorems, some under the hypotheses above; what the handlers guarantee without them is checked
by `live`.

## Not modelled

* The token ledger, the token budget and the capability pipeline: no code outside the tests calls them.
* `clarify_case`: it needs a case in `NEEDS_CLARIFICATION`, and no code moves one there. `prune_expired_revocations`: nothing calls it.
* What a text says: the patterns of the guards, prompts, parsing of files and of a model's output. That a text is blocked, a
  file unreadable, an output malformed is an outcome the models choose.
* Cryptography: a signature, a hash or a sealed state is good or not.
* Evaluation and golden data sets, culture content, the web UI, scripts: no state that two actors share.
* Migrations are taken as applied; their constraints and triggers appear where a statement meets them.

## Plan

1. Done: the chain with its contract; every component of the inventory that keeps state, wholly or in part; a
   theorem for every invariant and action property of the passing runs.
2. What `CaseTracksWrite` and `NoOrphanExecution` still say of handlers that do overlap: the strongest form without a hypothesis.
3. An abstract specification of an agent task over `ApprovedWrite`, and `AgentTasks` shown to implement it.
4. The promise of `revoke_data_source` about tokens as a run of its own.
