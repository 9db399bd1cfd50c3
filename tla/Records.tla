-------------------------------- MODULE Records --------------------------------
(***************************************************************************)
(* The material library: interview records and voice entries.              *)
(*                                                                         *)
(*   routes/interview_digest, routes/voice_insight   start, persist, list  *)
(*   interview_digest, voice_insight orchestrators   the task behind each  *)
(*                                                                         *)
(* A request commits the task of an analysis, then files the material under*)
(* its employee in two more transactions, best effort.  A reader turns the *)
(* pages of the list with a keyset cursor while material is filed and tasks*)
(* end.  All material of the model names the same employee.                *)
(***************************************************************************)
EXTENDS Integers, Sequences, FiniteSets

CONSTANTS
  Filers,       \* concurrent requests
  MaxMaterial,  \* BOUND: tasks, and the ids records draw from
  MaxDays,      \* BOUND: how often the time of the records moves
  PageLimits    \* the page sizes a reader asks for

ASSUME RecordsAssumption ==
  MaxMaterial \in Nat /\ MaxDays \in Nat /\ PageLimits \subseteq Nat \ {0}

VARIABLES
  today,      \* the database's now()
  employees,  \* how many employee rows carry the name
  stages,     \* async_tasks: the status of each analysis
  filing,     \* the step of each request
  material,   \* interview_records / voice_entries: [time, id, task]
  reading     \* the reader's filter, cursor, what it saw, and what it is promised:
              \* the records that have matched ever since it opened the list

recordsVars == <<today, employees, stages, filing, material, reading>>

Unoccupied == [at |-> "idle"]
NotReading == [open |-> FALSE]

RecordsInit ==
  /\ today = 0 /\ employees = 0 /\ stages = <<>> /\ material = {}
  /\ filing = [f \in Filers |-> Unoccupied] /\ reading = NotReading

(***************************************************************************)
(* Filing.                                                                 *)
(***************************************************************************)

Files(f, step) == filing' = [filing EXCEPT ![f] = step]

\* start_async_task: the row is committed first; a broker that does not take the message
\* makes it failed, and the request ends there.
StartMaterial(f) ==
  /\ filing[f] = Unoccupied /\ Len(stages) < MaxMaterial
  /\ \/ /\ stages' = Append(stages, "pending")
        /\ \E at \in {"employee", "insert"} : Files(f, [at |-> at, task |-> Len(stages')])
     \/ stages' = Append(stages, "failed") /\ UNCHANGED filing
  /\ UNCHANGED <<today, employees, material, reading>>

\* _get_or_create_employee, the read: several rows of one name raise, and the material is
\* not filed.
FindEmployee(f) ==
  /\ filing[f].at = "employee"
  /\ Files(f, CASE employees = 0 -> [filing[f] EXCEPT !.at = "create"]
                [] employees = 1 -> [filing[f] EXCEPT !.at = "insert"]
                [] OTHER -> Unoccupied)
  /\ UNCHANGED <<today, employees, stages, material, reading>>

\* _get_or_create_employee, the row: no constraint keeps a second one out.
CreateEmployee(f) ==
  /\ filing[f].at = "create"
  /\ employees' = employees + 1 /\ Files(f, [filing[f] EXCEPT !.at = "insert"])
  /\ UNCHANGED <<today, stages, material, reading>>

UsedIds == {m.id : m \in material}
           \cup {filing[g].id : g \in {h \in Filers : filing[h].at = "commit"}}

\* The insert: its time is that of the transaction, its id is random.
InsertMaterial(f) ==
  /\ filing[f].at = "insert"
  /\ \E id \in (1..MaxMaterial) \ UsedIds :
       Files(f, [at |-> "commit", task |-> filing[f].task, id |-> id, time |-> today])
  /\ UNCHANGED <<today, employees, stages, material, reading>>

CommitMaterial(f) ==
  /\ filing[f].at = "commit"
  /\ material' = material
       \cup {[time |-> filing[f].time, id |-> filing[f].id, task |-> filing[f].task]}
  /\ Files(f, Unoccupied)
  /\ UNCHANGED <<today, employees, stages, reading>>

\* Any failure of the two transactions is logged and swallowed.
FilingFails(f) ==
  /\ filing[f] # Unoccupied /\ Files(f, Unoccupied)
  /\ UNCHANGED <<today, employees, stages, material, reading>>

TaskStages == {"pending", "running", "completed", "failed"}

\* The filter is evaluated on the joined task, at the time of each page.
Shows(filter, stage) ==
  \/ filter = "all" \/ filter = stage
  \/ filter = "analyzing" /\ stage \in {"pending", "running"}
Matching(filter) == {m \in material : Shows(filter, stages[m.task])}

\* A worker starts the task, for the first time or again; it ends it, or the sweep
\* does. None of them looks at what the status was but the sweep and retry_failed,
\* which sets only failed ones back. A record that stops matching is promised no more.
AnalysisMoves(t, to) ==
  /\ to = "pending" => stages[t] = "failed"
  /\ stages' = [stages EXCEPT ![t] = to]
  /\ reading' = IF ~reading.open THEN reading
                ELSE [reading EXCEPT !.promised = {m \in @ : Shows(reading.filter, stages'[m.task])}]
  /\ UNCHANGED <<today, employees, filing, material>>

DayPasses ==
  /\ today < MaxDays /\ today' = today + 1
  /\ UNCHANGED <<employees, stages, filing, material, reading>>

(***************************************************************************)
(* Listing.                                                                *)
(***************************************************************************)

Before(m, key) == m.time < key.time \/ (m.time = key.time /\ m.id < key.id)

\* Deliberate error: the id does not break ties.
AfterCursor_TimeOnly(m, key) == m.time < key.time

\* The keyset condition of list_records and list_entries.
AfterCursor(m, key) == Before(m, key)

PageOf(rows, limit) == {m \in rows : Cardinality({n \in rows : Before(m, n)}) < limit}
LastOf(rows) == CHOOSE m \in rows : \A n \in rows \ {m} : Before(m, n)

Turns(old, rows, limit) ==
  LET page == PageOf(rows, limit) IN
  reading' = [old EXCEPT !.seen = [m \in DOMAIN @ \cup page |->
                                     (IF m \in DOMAIN @ THEN @[m] ELSE 0)
                                     + (IF m \in page THEN 1 ELSE 0)],
                         !.more = rows # page,
                         !.cursor = IF page = {} THEN @ ELSE LastOf(page)]

FirstPage ==
  /\ \E filter \in {"all", "analyzing", "completed", "failed"}, limit \in PageLimits :
       Turns([open |-> TRUE, filter |-> filter, promised |-> Matching(filter), more |-> TRUE,
              cursor |-> [time |-> MaxDays, id |-> MaxMaterial + 1], seen |-> <<>>],
             Matching(filter), limit)
  /\ UNCHANGED <<today, employees, stages, filing, material>>

NextPage ==
  /\ reading.open /\ reading.more
  /\ \E limit \in PageLimits :
       Turns(reading, {m \in Matching(reading.filter) : AfterCursor(m, reading.cursor)}, limit)
  /\ UNCHANGED <<today, employees, stages, filing, material>>

CloseList ==
  /\ reading.open /\ reading' = NotReading
  /\ UNCHANGED <<today, employees, stages, filing, material>>

RecordsNext ==
  \/ \E f \in Filers : \/ StartMaterial(f) \/ FindEmployee(f) \/ CreateEmployee(f)
                       \/ InsertMaterial(f) \/ CommitMaterial(f) \/ FilingFails(f)
  \/ \E t \in DOMAIN stages, to \in TaskStages : AnalysisMoves(t, to)
  \/ DayPasses \/ FirstPage \/ NextPage \/ CloseList

RecordsSpec == RecordsInit /\ [][RecordsNext]_recordsVars
--------------------------------------------------------------------------------

RecordsTypeOK ==
  /\ today \in 0..MaxDays /\ employees \in 0..MaxMaterial
  /\ \A t \in DOMAIN stages : stages[t] \in TaskStages
  /\ \A m \in material : m.task \in DOMAIN stages /\ m.time <= today
  /\ \A f \in Filers : filing[f].at \in {"idle", "employee", "create", "insert", "commit"}
  /\ reading.open \in BOOLEAN

\* A reader who turned the last page saw every record once that matched its filter all the
\* while since it opened the list, whatever was filed and whichever tasks started, ended,
\* expired or were taken up again; and no record twice, whether it kept matching or not.
PagesMissNothing ==
  reading.open /\ ~reading.more =>
    /\ reading.promised \subseteq DOMAIN reading.seen
    /\ \A m \in DOMAIN reading.seen : reading.seen[m] = 1
================================================================================
