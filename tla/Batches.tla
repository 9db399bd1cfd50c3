------------------------------- MODULE Batches --------------------------------
(***************************************************************************)
(* Analyses that run in the background: single ones, and one batch of      *)
(* them, on workers that may die with their message still unacknowledged.  *)
(*                                                                         *)
(*   scenarios/tasks               the tasks, expire_stale_tasks           *)
(*   material_batch/service        create_batch                            *)
(*   routes/material_batches       retry_failed                            *)
(*   interview_digest, voice_insight   start_async_task                    *)
(*   shared/celery_app             late acknowledgement, back-pressure     *)
(*                                                                         *)
(* Every step of a task is a transaction of its own.  The broker keeps a   *)
(* message until the worker acknowledges it, after the task ended.         *)
(***************************************************************************)
EXTENDS Integers, FiniteSets

CONSTANTS
  Analyses,    \* rows of async_tasks
  Workers,
  BatchSize,   \* items of the batch
  MaxRetries,  \* BOUND: calls of retry_failed
  MaxLost      \* BOUND: workers that die

ASSUME BatchesAssumption ==
  BatchSize \in Nat \ {0} /\ MaxRetries \in Nat /\ MaxLost \in Nat

VARIABLES
  analysis,      \* async_tasks.status, or "absent"
  isItem,        \* tasks that belong to the batch
  recorded,      \* items whose interview record or voice entry was saved
  queue,         \* messages the broker holds for each task
  worker,        \* what each worker is at
  batch,         \* material_batches
  creating,      \* the item create_batch is dispatching, or "no", or "done"
  retrying,      \* what retry_failed read: the tasks it resets
  aged,          \* tasks older than max_age_seconds
  abandoned,     \* history: tasks a worker left without an end
  retries, lost  \* history, bounded

past == <<aged, abandoned, retries, lost>>
batchVars == <<analysis, isItem, recorded, queue, worker, batch, creating, retrying, past>>

Unsettled == {"pending", "running"}
IdleWorker == [at |-> "idle"]
NoBatch == [exists |-> FALSE, completed |-> 0, failed |-> 0, status |-> "analyzing"]

BatchesInit ==
  /\ analysis = [t \in Analyses |-> "absent"] /\ isItem = {} /\ recorded = {}
  /\ queue = [t \in Analyses |-> 0] /\ worker = [w \in Workers |-> IdleWorker]
  /\ batch = NoBatch /\ creating = "no" /\ retrying = {}
  /\ aged = {} /\ abandoned = {} /\ retries = 0 /\ lost = 0

(***************************************************************************)
(* Dispatch.                                                               *)
(***************************************************************************)

\* start_async_task: the row, then the message, or the failure to send one.
StartAsyncTask(t) ==
  /\ analysis[t] = "absent" /\ creating \in {"no", "done"}
  /\ \/ /\ analysis' = [analysis EXCEPT ![t] = "pending"]
        /\ queue' = [queue EXCEPT ![t] = 1]
     \/ analysis' = [analysis EXCEPT ![t] = "failed"] /\ UNCHANGED queue
  /\ UNCHANGED <<isItem, recorded, worker, batch, creating, retrying, past>>

\* create_batch up to ensure_capacity, which may refuse.
CreateBatch ==
  /\ creating = "no"
  /\ BatchSize <= Cardinality({t \in Analyses : analysis[t] = "absent"})
  /\ batch' = [batch EXCEPT !.exists = TRUE]
  /\ creating' \in {"items", "done"}
  /\ UNCHANGED <<analysis, isItem, recorded, queue, worker, retrying, past>>

\* One item: its analysis, its record (a failure is swallowed), its message (a
\* refusal ends the request).
DispatchItem(t) ==
  /\ creating = "items" /\ analysis[t] = "absent" /\ Cardinality(isItem) < BatchSize
  /\ analysis' = [analysis EXCEPT ![t] = "pending"] /\ isItem' = isItem \cup {t}
  /\ recorded' \in {recorded, recorded \cup {t}}
  /\ \/ /\ queue' = [queue EXCEPT ![t] = 1]
        /\ creating' = IF Cardinality(isItem') = BatchSize THEN "done" ELSE "items"
     \/ UNCHANGED queue /\ creating' = "done"
  /\ UNCHANGED <<worker, batch, retrying, past>>

\* retry_failed sends the messages while it reads; where one cannot be sent the request
\* ends, and what was sent is sent ...
RetrySends ==
  /\ batch.exists /\ retrying = {} /\ retries < MaxRetries
  /\ LET reset == {t \in recorded : analysis[t] = "failed"} IN
       /\ reset # {}
       /\ \E sent \in SUBSET reset :
            /\ retrying' = IF sent = reset THEN reset ELSE {}
            /\ queue' = [t \in Analyses |-> IF t \in sent THEN queue[t] + 1 ELSE queue[t]]
  /\ retries' = retries + 1
  /\ UNCHANGED <<analysis, isItem, recorded, worker, batch, creating, aged, abandoned, lost>>

\* ... and resets the rows when it commits, or not at all.
RetryCommits ==
  /\ retrying # {}
  /\ \/ analysis' = [t \in Analyses |-> IF t \in retrying THEN "pending" ELSE analysis[t]]
     \/ UNCHANGED analysis
  /\ retrying' = {}
  /\ UNCHANGED <<isItem, recorded, queue, worker, batch, creating, past>>

(***************************************************************************)
(* A worker.                                                               *)
(***************************************************************************)

Moves(w, next) == worker' = [worker EXCEPT ![w] = next]
At(w, place) == worker[w].at = place
Counting(w, success) == [at |-> "count", of |-> worker[w].of, success |-> success]

Take(w, t) ==
  /\ At(w, "idle") /\ queue[t] > 0
  /\ queue' = [queue EXCEPT ![t] = @ - 1]
  /\ Moves(w, [at |-> "start", of |-> t])
  /\ UNCHANGED <<analysis, isItem, recorded, batch, creating, retrying, past>>

\* _update_task(status = "running"), without a look at what the status was.
StartWork(w) ==
  /\ At(w, "start")
  /\ analysis' = [analysis EXCEPT ![worker[w].of] = "running"]
  /\ Moves(w, [at |-> "work", of |-> worker[w].of])
  /\ UNCHANGED <<isItem, recorded, queue, batch, creating, retrying, past>>

\* The analysis succeeds and its result is stored, ...
WorkSucceeds(w) ==
  /\ At(w, "work")
  /\ analysis' = [analysis EXCEPT ![worker[w].of] = "completed"]
  /\ Moves(w, [at |-> "persist", of |-> worker[w].of])
  /\ UNCHANGED <<isItem, recorded, queue, batch, creating, retrying, past>>

\* ... then the digest or the report.
Persists(w) ==
  /\ At(w, "persist")
  /\ Moves(w, Counting(w, TRUE))
  /\ UNCHANGED <<analysis, isItem, recorded, queue, batch, creating, retrying, past>>

\* Counting is inside the try of a success, in the except branch of a failure.
CountsIn(w, success) == (At(w, "count") \/ At(w, "inc")) /\ worker[w].success = success

\* Any exception in the try, the soft time limit among them; the except branch says so.
WorkFails(w) ==
  /\ At(w, "work") \/ At(w, "persist") \/ CountsIn(w, TRUE)
  /\ analysis' = [analysis EXCEPT ![worker[w].of] = "failed"]
  /\ Moves(w, Counting(w, FALSE))
  /\ UNCHANGED <<isItem, recorded, queue, batch, creating, retrying, past>>

\* _inc_batch reads the counters, ...
IncReads(w) ==
  /\ At(w, "count")
  /\ Moves(w, IF worker[w].of \in isItem
              THEN [at |-> "inc", of |-> worker[w].of, success |-> worker[w].success, read |-> batch]
              ELSE IdleWorker)
  /\ UNCHANGED <<analysis, isItem, recorded, queue, batch, creating, retrying, past>>

\* ... and writes the one it moved.
IncWrites(w) ==
  /\ At(w, "inc")
  /\ LET read == worker[w].read
         done == read.completed + read.failed + 1
         status == IF done >= BatchSize THEN "completed" ELSE batch.status IN
       batch' = IF worker[w].success
                THEN [batch EXCEPT !.completed = read.completed + 1, !.status = status]
                ELSE [batch EXCEPT !.failed = read.failed + 1, !.status = status]
  /\ Moves(w, IdleWorker)
  /\ UNCHANGED <<analysis, isItem, recorded, queue, creating, retrying, past>>

\* An exception before the try, or of the except branch itself, whose write or count may
\* fail too: the task ends as its row stands, and its message is acknowledged.
Escapes(w) ==
  /\ ~At(w, "idle")
  /\ abandoned' = abandoned \cup {worker[w].of}
  /\ Moves(w, IdleWorker)
  /\ UNCHANGED <<analysis, isItem, recorded, queue, batch, creating, retrying, aged, retries, lost>>

\* The worker is lost and its message offered again, or the hard time limit
\* stops it and the message is gone.
WorkerLost(w) ==
  /\ ~At(w, "idle") /\ lost < MaxLost
  /\ lost' = lost + 1 /\ abandoned' = abandoned \cup {worker[w].of}
  /\ \/ queue' = [queue EXCEPT ![worker[w].of] = @ + 1]
     \/ UNCHANGED queue
  /\ Moves(w, IdleWorker)
  /\ UNCHANGED <<analysis, isItem, recorded, batch, creating, retrying, aged, retries>>

\* It was lost between the end of the task and its acknowledgement.
AckLost(w, t) ==
  /\ At(w, "idle") /\ lost < MaxLost
  /\ analysis[t] \in {"completed", "failed"}
  /\ lost' = lost + 1
  /\ queue' = [queue EXCEPT ![t] = @ + 1]
  /\ UNCHANGED <<analysis, isItem, recorded, worker, batch, creating, retrying, aged, abandoned, retries>>

(***************************************************************************)
(* Time.                                                                   *)
(***************************************************************************)

\* A task that exists grows older, whatever becomes of it: a retry does not make it new.
TimePasses ==
  /\ \E t \in Analyses : /\ analysis[t] # "absent" /\ t \notin aged
                         /\ aged' = aged \cup {t}
  /\ UNCHANGED <<analysis, isItem, recorded, queue, worker, batch, creating, retrying, abandoned, retries, lost>>

Expirable_RunningOnly(t) == analysis[t] = "running"
Expirable(t) == analysis[t] \in Unsettled

\* expire_stale_tasks, when somebody asks how a task is doing; no counter moves.
ExpireStaleTasks ==
  /\ \E t \in aged : analysis[t] \in Unsettled
  /\ analysis' = [t \in Analyses |-> IF t \in aged /\ Expirable(t) THEN "failed" ELSE analysis[t]]
  /\ UNCHANGED <<isItem, recorded, queue, worker, batch, creating, retrying, past>>

BatchesNext ==
  \/ CreateBatch \/ RetrySends \/ RetryCommits \/ TimePasses \/ ExpireStaleTasks
  \/ \E t \in Analyses : StartAsyncTask(t) \/ DispatchItem(t)
  \/ \E w \in Workers :
       \/ StartWork(w) \/ WorkSucceeds(w) \/ Persists(w) \/ WorkFails(w) \/ Escapes(w)
       \/ IncReads(w) \/ IncWrites(w) \/ WorkerLost(w)
       \/ \E t \in Analyses : Take(w, t) \/ AckLost(w, t)

BatchesSpec == BatchesInit /\ [][BatchesNext]_batchVars

\* Time passes, and a page that shows a task asks for it again and again.
BatchesFairness == WF_batchVars(TimePasses) /\ WF_batchVars(ExpireStaleTasks)
--------------------------------------------------------------------------------

BatchesTypeOK ==
  /\ analysis \in [Analyses -> {"absent", "completed", "failed"} \cup Unsettled]
  /\ isItem \subseteq Analyses /\ recorded \subseteq isItem /\ retrying \subseteq recorded
  /\ queue \in [Analyses -> Nat] /\ aged \subseteq Analyses /\ abandoned \subseteq Analyses
  /\ batch.completed \in Nat /\ batch.failed \in Nat /\ batch.status \in {"analyzing", "completed"}
  /\ \A w \in Workers : worker[w].at \in {"idle", "start", "work", "persist", "count", "inc"}

\* "A lost worker must surface as a failed analysis, never a task stuck in pending or
\* running forever": also one whose message was never sent, one whose worker was
\* stopped, and one that a retry reset after its worker had finished.
NoTaskIsStuck ==
  \A t \in Analyses : analysis[t] \in Unsettled ~> analysis[t] \in {"completed", "failed"}

\* "The batch status flips to completed once every sub-task settles."
CompletedBatchHasSettled ==
  batch.status = "completed" =>
    Cardinality(isItem) = BatchSize /\ \A t \in isItem : analysis[t] \in {"completed", "failed"}
================================================================================
