-------------------------------- MODULE Intake --------------------------------
(***************************************************************************)
(* From a message on an enterprise platform to an employee request: the    *)
(* callbacks of the platform and the paged sync both feed consume_event,   *)
(* and an administrator binds senders to employees meanwhile.              *)
(*                                                                         *)
(*   connectors/sync       consume_event, cursors                          *)
(*   connectors/runner     _run_wecom_messages                             *)
(*   connector_webhooks    the callbacks                                   *)
(*   data_source/service   bind_platform_identity                          *)
(*                                                                         *)
(* consume_event is a transaction that holds the row of the source locked  *)
(* from before it looks for the sender's binding; a transaction that fails *)
(* leaves nothing, and the platform or the next sync brings the event back.*)
(***************************************************************************)
EXTENDS Integers, Sequences

CONSTANTS
  Callbacks,   \* concurrent requests of the platform
  Inbound,     \* messages on the platform
  CalledBack,  \* those the platform calls back with, which have a MsgId
  Nameless,    \* those a sync brings without a msgid
  SenderOf,    \* who sent one
  Empty,       \* those without a sender or any text
  Stream,      \* the messages a sync can page through, oldest first
  Authorized,  \* those of an authorised chat
  PageSize     \* BOUND: FETCH_BATCH_LIMIT

ASSUME IntakeAssumption ==
  /\ CalledBack \subseteq Inbound /\ Stream \in Seq(Inbound)
  /\ PageSize \in Nat \ {0} /\ "free" \notin Callbacks

\* external_event_id: "msg:" and the MsgId in a callback, the bare msgid of an
\* item of a sync. A message that comes both ways is two events.
CalledName(m) == [by |-> "callback", of |-> m]
ItemName(m) == [by |-> "sync", of |-> m]
Events == {CalledName(m) : m \in CalledBack} \cup {ItemName(m) : m \in Inbound \ Nameless}
Sender(e) == SenderOf[e.of]

VARIABLES
  route,       \* data_sources.event_route
  configured,  \* the callback can be verified: not revoked, not without its secrets
  bound,       \* senders of connector_identity_bindings
  eventLog,    \* connector_event_log: the status of each event
  intake,      \* connector_intake_events
  made,        \* employee_requests that came from each event
  sourceLock,  \* the callback that holds the row of the source
  callback,    \* where each callback stands
  syncCursor,  \* connector_sync_cursors: how much of Stream was read
  syncPage     \* the page a sync is at: what it took, how far it is

intakeVars ==
  <<route, configured, bound, eventLog, intake, made, sourceLock, callback, syncCursor, syncPage>>

Quiet == [at |-> "quiet"]
NoPage == [first |-> 0, last |-> 0, next |-> 0]

IntakeInit ==
  /\ route \in {"none", "employee_request"} /\ configured = TRUE
  /\ bound = {}
  /\ eventLog = [e \in Events |-> "absent"]
  /\ intake = [e \in Events |-> "none"]
  /\ made = [e \in Events |-> 0]
  /\ sourceLock = "free"
  /\ callback = [c \in Callbacks |-> Quiet]
  /\ syncCursor = 0 /\ syncPage = NoPage

(***************************************************************************)
(* consume_event.                                                          *)
(***************************************************************************)

FirstSeen_Always(e) == TRUE
\* The INSERT, rather than ON CONFLICT: later deliveries only count.
FirstSeen(e) == eventLog[e] = "absent"

\* _external_sender and _message_content find something.
HasMessage(e) == e.of \notin Empty

\* mark_event_processed, mark_event_failed; a source that makes no requests calls neither.
EventStatus(e) ==
  CASE route = "none" -> "processing"
    [] route # "none" /\ ~HasMessage(e) -> "failed"
    [] route # "none" /\ HasMessage(e) -> "processed"

\* What the transaction leaves of an event, given what it read of its sender.
Recorded(e, isBound) ==
  LET counts == route # "none" /\ HasMessage(e) IN
  /\ eventLog' = [eventLog EXCEPT ![e] = EventStatus(e)]
  /\ intake' = [intake EXCEPT ![e] = IF counts /\ ~isBound THEN "pending_identity" ELSE @]
  /\ made' = [made EXCEPT ![e] = IF counts /\ isBound THEN @ + 1 ELSE @]

\* The signature, and what decrypt_wecom_payload makes of the body.
Verifies == configured

\* The route of a callback reads its configuration and verifies the message.
Receive(c, m) ==
  /\ callback[c] = Quiet /\ Verifies
  /\ callback' = [callback EXCEPT ![c] = [at |-> "received", of |-> CalledName(m)]]
  /\ UNCHANGED <<route, configured, bound, eventLog, intake, made, sourceLock, syncCursor, syncPage>>

\* The event is claimed, the source locked, the binding read.
ClaimEvent(c) ==
  /\ callback[c].at = "received" /\ sourceLock = "free"
  /\ LET e == callback[c].of IN
       IF FirstSeen(e)
       THEN /\ sourceLock' = c
            /\ callback' = [callback EXCEPT ![c] =
                 [at |-> "claimed", of |-> e, isBound |-> Sender(e) \in bound]]
       ELSE callback' = [callback EXCEPT ![c] = Quiet] /\ UNCHANGED sourceLock
  /\ UNCHANGED <<route, configured, bound, eventLog, intake, made, syncCursor, syncPage>>

RecordEvent(c) ==
  /\ callback[c].at = "claimed"
  /\ Recorded(callback[c].of, callback[c].isBound)
  /\ callback' = [callback EXCEPT ![c] = Quiet] /\ sourceLock' = "free"
  /\ UNCHANGED <<route, configured, bound, syncCursor, syncPage>>

CallbackDies(c) ==
  /\ callback[c] # Quiet
  /\ callback' = [callback EXCEPT ![c] = Quiet]
  /\ sourceLock' = IF sourceLock = c THEN "free" ELSE sourceLock
  /\ UNCHANGED <<route, configured, bound, eventLog, intake, made, syncCursor, syncPage>>

(***************************************************************************)
(* bind_platform_identity.                                                 *)
(***************************************************************************)

SourceUnlocked_Ignored == TRUE
SourceUnlocked == sourceLock = "free"

CallbackWaits(sender) == {e \in Events : intake[e] = "pending_identity" /\ Sender(e) = sender}

\* Under the same lock: the binding, and a request for each event that waits.
BindIdentity(sender) ==
  /\ route = "employee_request" /\ SourceUnlocked
  /\ bound' = bound \cup {sender}
  /\ intake' = [e \in Events |-> IF e \in CallbackWaits(sender) THEN "materialized" ELSE intake[e]]
  /\ made' = [e \in Events |-> IF e \in CallbackWaits(sender) THEN made[e] + 1 ELSE made[e]]
  /\ UNCHANGED <<route, configured, eventLog, sourceLock, callback, syncCursor, syncPage>>

\* A revocation or a reconfiguration, as far as callbacks go.
Reconfigure ==
  /\ configured' = ~configured
  /\ UNCHANGED <<route, bound, eventLog, intake, made, sourceLock, callback, syncCursor, syncPage>>

(***************************************************************************)
(* The sync.                                                               *)
(***************************************************************************)

Smaller(a, b) == IF a < b THEN a ELSE b

\* get_cursor and the fetch of the next page, or of the first of a new sync.
FetchPage ==
  /\ syncPage = NoPage /\ syncCursor < Len(Stream)
  /\ syncPage' = [first |-> syncCursor + 1, last |-> Smaller(syncCursor + PageSize, Len(Stream)), next |-> syncCursor + 1]
  /\ UNCHANGED <<route, configured, bound, eventLog, intake, made, sourceLock, callback, syncCursor>>

\* One item of the page, in its own transaction; the rest are passed over.
ItemCounts(m) == m \in Authorized \ Nameless

ConsumeItem ==
  /\ syncPage # NoPage /\ syncPage.next <= syncPage.last
  /\ LET m == Stream[syncPage.next]
         e == ItemName(m)
     IN IF ItemCounts(m) /\ FirstSeen(e)
        THEN sourceLock = "free" /\ Recorded(e, Sender(e) \in bound)
        ELSE UNCHANGED <<eventLog, intake, made>>
  /\ syncPage' = [syncPage EXCEPT !.next = @ + 1]
  /\ UNCHANGED <<route, configured, bound, sourceLock, callback, syncCursor>>

PageDone_OnFetch == syncPage # NoPage
PageDone == syncPage # NoPage /\ syncPage.next > syncPage.last

\* save_cursor; whether another page follows is FetchPage's to say.
SaveCursor ==
  /\ PageDone
  /\ syncCursor' = syncPage.last /\ syncPage' = NoPage
  /\ UNCHANGED <<route, configured, bound, eventLog, intake, made, sourceLock, callback>>

\* The platform, a limit, or the process stops the sync.
SyncDies ==
  /\ syncPage # NoPage /\ syncPage' = NoPage
  /\ UNCHANGED <<route, configured, bound, eventLog, intake, made, sourceLock, callback, syncCursor>>

IntakeNext ==
  \/ Reconfigure \/ FetchPage \/ ConsumeItem \/ SaveCursor \/ SyncDies
  \/ \E c \in Callbacks : \/ ClaimEvent(c) \/ RecordEvent(c) \/ CallbackDies(c)
                          \/ \E m \in CalledBack : Receive(c, m)
  \/ \E m \in Inbound : BindIdentity(SenderOf[m])

IntakeSpec == IntakeInit /\ [][IntakeNext]_intakeVars
--------------------------------------------------------------------------------

IntakeTypeOK ==
  /\ route \in {"none", "employee_request"} /\ configured \in BOOLEAN
  /\ bound \subseteq {SenderOf[m] : m \in Inbound}
  /\ eventLog \in [Events -> {"absent", "processing", "processed", "failed"}]
  /\ intake \in [Events -> {"none", "pending_identity", "materialized"}]
  /\ made \in [Events -> Nat]
  /\ sourceLock \in Callbacks \cup {"free"}
  /\ syncCursor \in 0..Len(Stream) /\ syncPage.last <= Len(Stream)

\* No event waits for the identity of a sender who is bound: a binding made while
\* the event was being consumed does not miss it.
NobodyWaitsInVain ==
  \A e \in Events : intake[e] = "pending_identity" => Sender(e) \notin bound

\* However often an event is delivered under its name, and whether it makes its
\* request at once or when its sender is bound, there is one; and no item with a
\* msgid goes without: what lies before the cursor of the sync has been consumed,
\* whenever a sync died. A message that comes as callback and as item is two events.
EventsCountOnce ==
  /\ \A e \in Events : made[e] <= 1
  /\ \A i \in 1..syncCursor : ItemCounts(Stream[i]) => eventLog[ItemName(Stream[i])] # "absent"
================================================================================
