---------------------------- MODULE RequestsProofs -----------------------------
(***************************************************************************)
(* From an event of a connector to the work it causes: what holds of these *)
(* parts of MC_Services for every number of people, events, tasks, calls.  *)
(*                                                                         *)
(*   Intake        an event makes one request, and nobody waits in vain    *)
(*   Triage        an employee is told the answer once                     *)
(*   WorkTasks     a parent counts its subtasks                            *)
(*   CaseTimeline  the timeline of a case has one order                    *)
(*   Workbench     a list shows a task once                                *)
(***************************************************************************)
EXTENDS Intake, Triage, WorkTasks, CaseTimeline, Workbench, FiniteSetTheorems, TLAPS

--------------------------------------------------------------------------------
(***************************************************************************)
(* Intake.                                                                 *)
(***************************************************************************)

\* The events a callback and a sync bring.
LEMMA NamesAreEvents ==
  /\ \A m \in CalledBack : CalledName(m) \in Events
  /\ \A m \in Inbound : ItemCounts(m) => ItemName(m) \in Events
BY DEF Events, ItemCounts, CalledName, ItemName

\* An event that has a row, and a callback that has claimed one.
Logged(e) == eventLog[e] # "absent"
Claimed(c) == callback[c].at = "claimed"

\* Types.
IntakeTyped ==
  /\ route \in {"none", "employee_request"}
  /\ eventLog \in [Events -> {"absent", "processing", "processed", "failed"}]
  /\ intake \in [Events -> {"none", "pending_identity", "materialized"}]
  /\ made \in [Events -> Nat]
  /\ DOMAIN callback = Callbacks

\* The callback that claimed an event holds the source, and what it read of the
\* event and its sender is still so.
ClaimsOK ==
  /\ \A c \in Callbacks : callback[c].at \in {"received", "claimed"} => callback[c].of \in Events
  /\ \A c \in Callbacks : Claimed(c) =>
       /\ sourceLock = c /\ FirstSeen(callback[c].of)
       /\ callback[c].isBound \in BOOLEAN
       /\ callback[c].isBound <=> Sender(callback[c].of) \in bound

\* An event makes its request when it is logged, or when its sender is bound.
RequestsOK ==
  \A e \in Events :
    /\ made[e] <= 1
    /\ ~Logged(e) => made[e] = 0 /\ intake[e] = "none"
    /\ intake[e] = "pending_identity" => made[e] = 0

\* What lies behind a place of the stream has a row.
Consumed(i) == ItemCounts(Stream[i]) => Logged(ItemName(Stream[i]))

\* What a sync has read is logged: up to the cursor, and up to where its page is.
PageOK ==
  /\ syncCursor \in 0..Len(Stream) /\ \A i \in 1..syncCursor : Consumed(i)
  /\ syncPage # NoPage =>
       /\ syncPage \in [first : Nat, last : Nat, next : Nat]
       /\ syncPage.first = syncCursor + 1 /\ syncPage.last <= Len(Stream)
       /\ syncPage.first <= syncPage.next /\ syncPage.next <= syncPage.last + 1
       /\ \A i \in syncPage.first..syncPage.next - 1 : Consumed(i)

\* The invariant.
IntakeInv == IntakeTyped /\ ClaimsOK /\ RequestsOK /\ PageOK /\ NobodyWaitsInVain

\* What one transaction leaves of an event that nobody logged before.
LEMMA RecordedOnce ==
  ASSUME IntakeInv, NEW e \in Events, FirstSeen(e), Recorded(e, Sender(e) \in bound),
         UNCHANGED <<route, bound>>
  PROVE  /\ eventLog' \in [Events -> {"absent", "processing", "processed", "failed"}]
         /\ intake' \in [Events -> {"none", "pending_identity", "materialized"}]
         /\ made' \in [Events -> Nat]
         /\ RequestsOK' /\ NobodyWaitsInVain'
         /\ Logged(e)' /\ \A f \in Events : f # e => (eventLog'[f] = eventLog[f])
<1>1. route \in {"none", "employee_request"} /\ HasMessage(e) \in BOOLEAN
  BY DEF IntakeInv, IntakeTyped, HasMessage
<1>2. EventStatus(e) \in {"processing", "processed", "failed"}
  BY <1>1 DEF EventStatus
<1>3. /\ eventLog \in [Events -> {"absent", "processing", "processed", "failed"}]
      /\ intake \in [Events -> {"none", "pending_identity", "materialized"}]
      /\ made \in [Events -> Nat] /\ made[e] = 0 /\ intake[e] = "none"
  BY DEF IntakeInv, IntakeTyped, RequestsOK, Logged, FirstSeen
<1>. DEFINE counts == route # "none" /\ HasMessage(e)
            isBound == Sender(e) \in bound
<1>4. /\ eventLog' = [eventLog EXCEPT ![e] = EventStatus(e)]
      /\ intake' = [intake EXCEPT ![e] = IF counts /\ ~isBound THEN "pending_identity" ELSE @]
      /\ made' = [made EXCEPT ![e] = IF counts /\ isBound THEN @ + 1 ELSE @]
  BY DEF Recorded
<1>. HIDE DEF counts, isBound
<1>5. /\ eventLog' \in [Events -> {"absent", "processing", "processed", "failed"}]
      /\ eventLog'[e] # "absent" /\ \A f \in Events : f # e => eventLog'[f] = eventLog[f]
  BY <1>2, <1>3, <1>4
<1>6. /\ intake' \in [Events -> {"none", "pending_identity", "materialized"}]
      /\ intake'[e] = "pending_identity" => ~isBound
      /\ \A f \in Events : f # e => intake'[f] = intake[f]
  BY <1>3, <1>4
<1>7. /\ made' \in [Events -> Nat] /\ made'[e] <= 1 /\ (~isBound => made'[e] = 0)
      /\ \A f \in Events : f # e => made'[f] = made[f]
  BY <1>3, <1>4
<1>8. RequestsOK'
  BY <1>5, <1>6, <1>7 DEF IntakeInv, RequestsOK, Logged
<1>9. NobodyWaitsInVain'
  BY <1>6 DEF IntakeInv, NobodyWaitsInVain, isBound
<1>. QED  BY <1>5, <1>6, <1>7, <1>8, <1>9 DEF Logged

\* What is logged stays logged: the sync has missed nothing.
LEMMA PageStays ==
  ASSUME IntakeInv, UNCHANGED <<syncCursor, syncPage>>,
         \A e \in Events : Logged(e) => Logged(e)'
  PROVE  PageOK'
<1>1. \A i \in 1..Len(Stream) : ItemCounts(Stream[i]) => ItemName(Stream[i]) \in Events
  BY IntakeAssumption, NamesAreEvents
<1>2. \A i \in 1..Len(Stream) : Consumed(i) => Consumed(i)'
  BY <1>1 DEF Consumed, Logged, ItemCounts, ItemName
<1>3. Len(Stream) \in Nat
  BY IntakeAssumption
<1>. QED  BY <1>2, <1>3 DEF IntakeInv, PageOK

\* A step that writes no event.
LEMMA NoEventWritten ==
  ASSUME IntakeInv, UNCHANGED <<route, eventLog, intake, made, bound>>,
         DOMAIN callback' = Callbacks, ClaimsOK', PageOK'
  PROVE  IntakeInv'
BY DEF IntakeInv, IntakeTyped, RequestsOK, NobodyWaitsInVain, Logged

\* The transactions of a callback.
LEMMA CallbackStep ==
  ASSUME IntakeInv, NEW c \in Callbacks, ClaimEvent(c) \/ RecordEvent(c) \/ CallbackDies(c)
  PROVE  IntakeInv'
<1>0. /\ DOMAIN callback = Callbacks /\ c # "free"
      /\ \A d \in Callbacks : Claimed(d) => sourceLock = d
  BY IntakeAssumption DEF IntakeInv, IntakeTyped, ClaimsOK
<1>1. CASE ClaimEvent(c)
  <2>1. UNCHANGED <<route, eventLog, intake, made, bound, syncCursor, syncPage>>
        /\ callback[c].at = "received" /\ sourceLock = "free" /\ callback[c].of \in Events
    BY <1>1 DEF ClaimEvent, IntakeInv, ClaimsOK
  <2>2. PageOK'
    BY <2>1, PageStays DEF Logged
  <2>3. \A d \in Callbacks : ~Claimed(d)
    BY <1>0, <2>1, IntakeAssumption
  <2>4. CASE FirstSeen(callback[c].of)
    <3>. DEFINE e == callback[c].of
    <3>1. PICK b \in BOOLEAN : b <=> Sender(e) \in bound
      OBVIOUS
    <3>2. b = (Sender(e) \in bound)
      BY <3>1
    <3>3. sourceLock' = c /\ callback' = [callback EXCEPT ![c] =
             [at |-> "claimed", of |-> e, isBound |-> b]]
      BY <1>1, <2>4, <3>2 DEF ClaimEvent
    <3>. DEFINE row == [at |-> "claimed", of |-> e, isBound |-> b]
    <3>4. row.at = "claimed" /\ row.of = e /\ row.isBound = b
      OBVIOUS
    <3>. HIDE DEF row
    <3>5. /\ callback'[c] = row /\ DOMAIN callback' = Callbacks
          /\ \A d \in Callbacks : d # c => callback'[d] = callback[d]
      BY <1>0, <3>3 DEF row
    <3>6. /\ callback'[c].at = "claimed" /\ callback'[c].of = e
          /\ callback'[c].isBound \in BOOLEAN /\ (callback'[c].isBound <=> Sender(e) \in bound)
      <4>1. callback'[c].isBound = b
        BY <3>4, <3>5
      <4>. QED  BY <3>1, <3>4, <3>5, <4>1
    <3>7. ClaimsOK'
      BY <2>1, <2>3, <2>4, <3>3, <3>5, <3>6 DEF IntakeInv, ClaimsOK, Claimed, FirstSeen
    <3>. QED  BY <2>1, <2>2, <3>5, <3>7, NoEventWritten
  <2>5. CASE ~FirstSeen(callback[c].of)
    <3>1. callback' = [callback EXCEPT ![c] = Quiet] /\ UNCHANGED sourceLock
      BY <1>1, <2>5 DEF ClaimEvent
    <3>2. ClaimsOK' /\ DOMAIN callback' = Callbacks
      BY <1>0, <2>1, <3>1 DEF IntakeInv, ClaimsOK, Claimed, FirstSeen, Quiet
    <3>. QED  BY <2>1, <2>2, <3>2, NoEventWritten
  <2>. QED  BY <2>4, <2>5
<1>2. CASE RecordEvent(c)
  <2>. PICK e : e = callback[c].of
    OBVIOUS
  <2>1. /\ e \in Events /\ FirstSeen(e) /\ Claimed(c)
        /\ callback[c].isBound \in BOOLEAN /\ (callback[c].isBound <=> Sender(e) \in bound)
    BY <1>2 DEF RecordEvent, IntakeInv, ClaimsOK, Claimed
  <2>2. /\ Recorded(e, callback[c].isBound) /\ UNCHANGED <<route, bound, syncCursor, syncPage>>
        /\ callback' = [callback EXCEPT ![c] = Quiet]
    BY <1>2 DEF RecordEvent
  <2>3. /\ eventLog' \in [Events -> {"absent", "processing", "processed", "failed"}]
        /\ intake' \in [Events -> {"none", "pending_identity", "materialized"}]
        /\ made' \in [Events -> Nat]
        /\ RequestsOK' /\ NobodyWaitsInVain'
        /\ Logged(e)' /\ \A f \in Events : f # e => (eventLog'[f] = eventLog[f])
    <3>1. Recorded(e, Sender(e) \in bound)
      BY <2>1, <2>2 DEF Recorded
    <3>. QED  BY <2>1, <2>2, <3>1, RecordedOnce
  <2>4. PageOK'
    BY <2>2, <2>3, PageStays DEF Logged
  <2>5. ClaimsOK' /\ DOMAIN callback' = Callbacks
    <3>1. \A d \in Callbacks : d # c => ~Claimed(d)
      BY <1>0, <2>1
    <3>. QED  BY <1>0, <2>2, <3>1 DEF IntakeInv, ClaimsOK, Claimed, Quiet
  <2>. QED  BY <2>2, <2>3, <2>4, <2>5 DEF IntakeInv, IntakeTyped
<1>3. CASE CallbackDies(c)
  <2>1. UNCHANGED <<route, eventLog, intake, made, bound, syncCursor, syncPage>>
        /\ callback' = [callback EXCEPT ![c] = Quiet]
        /\ sourceLock' = IF sourceLock = c THEN "free" ELSE sourceLock
    BY <1>3 DEF CallbackDies
  <2>2. PageOK'
    BY <2>1, PageStays DEF Logged
  <2>3. ClaimsOK' /\ DOMAIN callback' = Callbacks
    BY <1>0, <2>1 DEF IntakeInv, ClaimsOK, Claimed, FirstSeen, Quiet
  <2>. QED  BY <2>1, <2>2, <2>3, NoEventWritten
<1>. QED  BY <1>1, <1>2, <1>3

\* A binding settles every event that waited for it.
LEMMA BindStep ==
  ASSUME IntakeInv, NEW sender, BindIdentity(sender)
  PROVE  IntakeInv'
<1>1. /\ UNCHANGED <<route, eventLog, callback, syncCursor, syncPage, sourceLock>>
      /\ sourceLock = "free" /\ bound' = bound \cup {sender}
      /\ intake' = [e \in Events |-> IF e \in CallbackWaits(sender) THEN "materialized" ELSE intake[e]]
      /\ made' = [e \in Events |-> IF e \in CallbackWaits(sender) THEN made[e] + 1 ELSE made[e]]
  BY DEF BindIdentity, SourceUnlocked
<1>2. \A c \in Callbacks : ~Claimed(c)
  BY <1>1, IntakeAssumption DEF IntakeInv, ClaimsOK
<1>3. ClaimsOK'
  BY <1>1, <1>2 DEF IntakeInv, ClaimsOK, Claimed
<1>4. \A e \in CallbackWaits(sender) : made[e] = 0 /\ Logged(e)
  BY DEF IntakeInv, RequestsOK, CallbackWaits
<1>5. IntakeTyped'
  BY <1>1 DEF IntakeInv, IntakeTyped
<1>6. RequestsOK'
  BY <1>1, <1>4 DEF IntakeInv, RequestsOK, Logged
<1>7. NobodyWaitsInVain'
  BY <1>1 DEF IntakeInv, NobodyWaitsInVain, CallbackWaits
<1>8. PageOK'
  BY <1>1, PageStays DEF Logged
<1>. QED  BY <1>3, <1>5, <1>6, <1>7, <1>8 DEF IntakeInv

\* The sync.
LEMMA SyncStep ==
  ASSUME IntakeInv, FetchPage \/ ConsumeItem \/ SaveCursor \/ SyncDies
  PROVE  IntakeInv'
<1>0. /\ Len(Stream) \in Nat /\ \A i \in 1..Len(Stream) : Stream[i] \in Inbound
      /\ PageSize \in Nat \ {0} /\ syncCursor \in 0..Len(Stream)
      /\ \A i \in 1..syncCursor : Consumed(i)
  BY IntakeAssumption DEF IntakeInv, PageOK
<1>1. CASE FetchPage
  <2>. DEFINE end == Smaller(syncCursor + PageSize, Len(Stream))
  <2>1. UNCHANGED <<route, eventLog, intake, made, bound, callback, sourceLock, syncCursor>>
        /\ syncPage' = [first |-> syncCursor + 1, last |-> end, next |-> syncCursor + 1]
        /\ syncCursor < Len(Stream)
    BY <1>1 DEF FetchPage
  <2>2. end \in Nat /\ end <= Len(Stream) /\ syncCursor + 1 <= end
    BY <1>0, <2>1 DEF Smaller
  <2>. HIDE DEF end
  <2>3. /\ syncPage'.first = syncCursor + 1 /\ syncPage'.next = syncCursor + 1 /\ syncPage'.last = end
        /\ syncPage' \in [first : Nat, last : Nat, next : Nat]
    BY <1>0, <2>1, <2>2
  <2>4. PageOK'
    BY <1>0, <2>1, <2>2, <2>3 DEF PageOK, Consumed, Logged, ItemCounts, ItemName
  <2>5. ClaimsOK'
    BY <2>1 DEF IntakeInv, ClaimsOK, Claimed, FirstSeen
  <2>. QED  BY <2>1, <2>4, <2>5, NoEventWritten DEF IntakeInv, IntakeTyped
<1>2. CASE SaveCursor \/ SyncDies
  <2>1. UNCHANGED <<route, eventLog, intake, made, bound, callback, sourceLock>>
        /\ syncPage # NoPage /\ syncPage' = NoPage
        /\ \/ syncCursor' = syncCursor
           \/ syncCursor' = syncPage.last /\ syncPage.next > syncPage.last
    BY <1>2 DEF SaveCursor, PageDone, SyncDies
  <2>2. /\ syncPage.first = syncCursor + 1 /\ syncPage.last <= Len(Stream)
        /\ syncPage.first <= syncPage.next /\ syncPage.next <= syncPage.last + 1
        /\ syncPage.last \in Nat /\ syncPage.next \in Nat
        /\ \A i \in syncPage.first..syncPage.next - 1 : Consumed(i)
    BY <2>1 DEF IntakeInv, PageOK
  <2>3. syncCursor' \in 0..Len(Stream) /\ \A i \in 1..syncCursor' : Consumed(i)
    BY <1>0, <2>1, <2>2
  <2>4. PageOK'
    BY <2>1, <2>3 DEF PageOK, Consumed, Logged, ItemCounts, ItemName
  <2>5. ClaimsOK'
    BY <2>1 DEF IntakeInv, ClaimsOK, Claimed, FirstSeen
  <2>. QED  BY <2>1, <2>4, <2>5, NoEventWritten DEF IntakeInv, IntakeTyped
<1>3. CASE ConsumeItem
  <2>. PICK m : m = Stream[syncPage.next]
    OBVIOUS
  <2>. PICK e : e = ItemName(m)
    OBVIOUS
  <2>1. /\ syncPage # NoPage /\ syncPage.next <= syncPage.last
        /\ UNCHANGED <<route, bound, sourceLock, callback, syncCursor>>
        /\ syncPage' = [syncPage EXCEPT !.next = @ + 1]
    BY <1>3 DEF ConsumeItem
  <2>2. /\ syncPage \in [first : Nat, last : Nat, next : Nat]
        /\ syncPage.first = syncCursor + 1 /\ syncPage.last <= Len(Stream)
        /\ syncPage.first <= syncPage.next
        /\ \A i \in syncPage.first..syncPage.next - 1 : Consumed(i)
    BY <2>1 DEF IntakeInv, PageOK
  <2>3. /\ syncPage' \in [first : Nat, last : Nat, next : Nat] /\ syncPage'.first = syncPage.first
        /\ syncPage'.last = syncPage.last /\ syncPage'.next = syncPage.next + 1
    BY <2>1, <2>2
  <2>4. ItemCounts(m) => e \in Events
    BY <1>0, <2>1, <2>2, NamesAreEvents
  <2>5. /\ \A f \in Events : Logged(f) => Logged(f)'
        /\ ItemCounts(m) => Logged(e)'
        /\ IntakeTyped' /\ ClaimsOK' /\ RequestsOK' /\ NobodyWaitsInVain'
    <3>1. CASE ItemCounts(m) /\ FirstSeen(e)
      <4>1. sourceLock = "free" /\ Recorded(e, Sender(e) \in bound)
        BY <1>3, <3>1, Zenon DEF ConsumeItem
      <4>2. /\ eventLog' \in [Events -> {"absent", "processing", "processed", "failed"}]
            /\ intake' \in [Events -> {"none", "pending_identity", "materialized"}]
            /\ made' \in [Events -> Nat]
            /\ RequestsOK' /\ NobodyWaitsInVain'
            /\ Logged(e)' /\ \A f \in Events : f # e => (eventLog'[f] = eventLog[f])
        BY <2>1, <2>4, <3>1, <4>1, RecordedOnce
      <4>3. \A c \in Callbacks : ~Claimed(c)
        BY <4>1, IntakeAssumption DEF IntakeInv, ClaimsOK
      <4>4. ClaimsOK'
        BY <2>1, <4>3 DEF IntakeInv, ClaimsOK, Claimed
      <4>. QED  BY <2>1, <4>2, <4>4 DEF IntakeInv, IntakeTyped, Logged
    <3>2. CASE ~(ItemCounts(m) /\ FirstSeen(e))
      <4>1. UNCHANGED <<eventLog, intake, made>>
        BY <1>3, <3>2, Zenon DEF ConsumeItem
      <4>. QED  BY <2>1, <2>4, <3>2, <4>1
                DEF IntakeInv, IntakeTyped, ClaimsOK, Claimed, RequestsOK, NobodyWaitsInVain,
                    Logged, FirstSeen
    <3>. QED  BY <3>1, <3>2
  <2>6. \A i \in 1..Len(Stream) : Consumed(i) \/ i = syncPage.next => Consumed(i)'
    BY <1>0, <2>4, <2>5, NamesAreEvents DEF Consumed, Logged, ItemCounts, ItemName
  <2>7. PageOK'
    <3>1. \A i \in 1..syncCursor : Consumed(i)'
      BY <1>0, <2>6
    <3>2. \A i \in syncPage.first..syncPage.next : Consumed(i)'
      BY <1>0, <2>1, <2>2, <2>6 DEF Consumed, Logged, ItemCounts, ItemName
    <3>. QED  BY <1>0, <2>1, <2>2, <2>3, <3>1, <3>2 DEF PageOK
  <2>. QED  BY <2>5, <2>7 DEF IntakeInv
<1>. QED  BY <1>1, <1>2, <1>3

\* Every step keeps the invariant.
LEMMA IntakeStep ==
  ASSUME IntakeInv, [IntakeNext]_intakeVars
  PROVE  IntakeInv'
<1>0. DOMAIN callback = Callbacks
  BY DEF IntakeInv, IntakeTyped
<1>1. CASE Reconfigure \/ UNCHANGED intakeVars
  <2>1. UNCHANGED <<route, eventLog, intake, made, bound, callback, sourceLock, syncCursor, syncPage>>
    BY <1>1 DEF Reconfigure, intakeVars
  <2>2. ClaimsOK' /\ PageOK'
    BY <2>1, PageStays DEF IntakeInv, ClaimsOK, Claimed, FirstSeen, Logged
  <2>. QED  BY <1>0, <2>1, <2>2, NoEventWritten
<1>2. ASSUME NEW c \in Callbacks, NEW m \in CalledBack, Receive(c, m)
      PROVE  IntakeInv'
  <2>. PICK e \in Events : e = CalledName(m)
    BY NamesAreEvents
  <2>1. UNCHANGED <<route, eventLog, intake, made, bound, sourceLock, syncCursor, syncPage>>
        /\ callback' = [callback EXCEPT ![c] = [at |-> "received", of |-> e]]
    BY <1>2 DEF Receive
  <2>2. ClaimsOK' /\ DOMAIN callback' = Callbacks
    BY <1>0, <2>1 DEF IntakeInv, ClaimsOK, Claimed, FirstSeen
  <2>3. PageOK'
    BY <2>1, PageStays DEF Logged
  <2>. QED  BY <2>1, <2>2, <2>3, NoEventWritten
<1>3. ASSUME NEW c \in Callbacks, ClaimEvent(c) \/ RecordEvent(c) \/ CallbackDies(c)
      PROVE  IntakeInv'
  BY <1>3, CallbackStep
<1>4. CASE FetchPage \/ ConsumeItem \/ SaveCursor \/ SyncDies
  BY <1>4, SyncStep
<1>5. ASSUME NEW m \in Inbound, BindIdentity(SenderOf[m])
      PROVE  IntakeInv'
  BY <1>5, BindStep
<1>. QED  BY <1>1, <1>2, <1>3, <1>4, <1>5 DEF IntakeNext

\* No event has come yet.
LEMMA IntakeInvInit == IntakeInit => IntakeInv
<1>. SUFFICES ASSUME IntakeInit  PROVE IntakeInv
  OBVIOUS
<1>1. IntakeTyped /\ ClaimsOK /\ RequestsOK /\ NobodyWaitsInVain
  BY DEF IntakeInit, IntakeTyped, ClaimsOK, Claimed, RequestsOK, NobodyWaitsInVain, Logged, Quiet
<1>2. PageOK
  BY IntakeAssumption DEF IntakeInit, PageOK
<1>. QED  BY <1>1, <1>2 DEF IntakeInv

\* The invariant holds.
LEMMA IntakeInvariant == IntakeSpec => []IntakeInv
<1>. QED  BY IntakeInvInit, IntakeStep, PTL DEF IntakeSpec

\* Whatever callbacks, bindings and syncs there are at once, and wherever they die:
\* an event makes one request, and what has a name and lies before the cursor has
\* been consumed. A message with two names may make two.
THEOREM OneRequestPerEvent == IntakeSpec => []EventsCountOnce
<1>1. IntakeInv => EventsCountOnce
  BY DEF IntakeInv, EventsCountOnce, RequestsOK, PageOK, Consumed, Logged, ItemCounts, ItemName
<1>. QED  BY <1>1, IntakeInvariant, PTL

\* No event waits for a sender who is bound.
THEOREM BindingMissesNobody == IntakeSpec => []NobodyWaitsInVain
<1>1. IntakeInv => NobodyWaitsInVain
  BY DEF IntakeInv
<1>. QED  BY <1>1, IntakeInvariant, PTL

--------------------------------------------------------------------------------
(***************************************************************************)
(* Triage.                                                                 *)
(***************************************************************************)

\* The process that sends an answer.
Sending(p) == staff[p].at = "sending"

\* Whoever sends an answer is alone with it, and it has not been accepted yet: one
\* that was accepted more often was so in a process that died.
ToldInv ==
  /\ DOMAIN staff = Staff /\ DOMAIN attempt = Answers
  /\ accepted \in [Answers -> Nat] /\ crashes \in Nat
  /\ \A p \in Staff : staff[p].at \in {"deliver", "sending"} => staff[p].of \in Answers
  /\ \A p \in Staff : Sending(p) => Undelivered(staff[p].of)
  /\ \A p, q \in Staff : Sending(p) /\ Sending(q) /\ staff[p].of = staff[q].of => p = q
  /\ \A a \in Answers :
       accepted[a] <= crashes + IF attempt[a] = "simulated_accepted" THEN 1 ELSE 0

\* A step after which nobody new sends, and no message was accepted.
LEMMA NothingSent ==
  ASSUME ToldInv, UNCHANGED <<attempt, accepted, crashes>>, DOMAIN staff' = Staff,
         \A p \in Staff : staff'[p].at \in {"deliver", "sending"} => staff'[p].of \in Answers,
         \A p \in Staff : Sending(p)' => Sending(p) /\ staff'[p].of = staff[p].of
  PROVE  ToldInv'
BY DEF ToldInv, Undelivered

\* Every step keeps it.
LEMMA TriageStep ==
  ASSUME ToldInv, [TriageNext]_triageVars
  PROVE  ToldInv'
<1>0. /\ DOMAIN staff = Staff /\ DOMAIN attempt = Answers /\ accepted \in [Answers -> Nat]
      /\ crashes \in Nat
      /\ \A p \in Staff : staff[p].at \in {"deliver", "sending"} => staff[p].of \in Answers
  BY DEF ToldInv
<1>1. CASE FileRequest \/ MoveEmployee \/ CloseSource \/ UNCHANGED triageVars
  BY <1>0, <1>1, NothingSent
     DEF FileRequest, MoveEmployee, CloseSource, triageVars, requestVars, messageVars, Sending
<1>2. ASSUME NEW p \in Staff, LookUpScope(p) \/ ListOpen(p) \/ NotSeen(p)
      PROVE  ToldInv'
  BY <1>0, <1>2, NothingSent DEF LookUpScope, ListOpen, NotSeen, Desk, messageVars, Sending
<1>3. ASSUME NEW p \in Staff, NEW a \in Answers, RetryDelivery(p, a)
      PROVE  ToldInv'
  BY <1>0, <1>3, NothingSent DEF RetryDelivery, Desk, messageVars, Sending
<1>4. ASSUME NEW p \in Staff, NEW a \in Answers, Answer(p, a)
      PROVE  ToldInv'
  <2>1. UNCHANGED <<accepted, crashes>> /\ DOMAIN staff' = Staff
    BY <1>0, <1>4 DEF Answer
  <2>2. \A q \in Staff : /\ staff'[q].at \in {"deliver", "sending"} => staff'[q].of \in Answers
                         /\ Sending(q)' => Sending(q) /\ staff'[q].of = staff[q].of
    BY <1>0, <1>4 DEF Answer, Sending, Desk
  <2>3. CASE UNCHANGED attempt
    BY <2>1, <2>2, <2>3, NothingSent
  <2>4. CASE Enqueues(a)
    <3>1. /\ attempt[a] = "none" /\ attempt' = [attempt EXCEPT ![a] = "queued"]
      BY <1>4, <2>4 DEF Answer, Enqueues
    <3>2. \A b \in Answers : /\ Undelivered(b) => Undelivered(b)'
                             /\ attempt'[b] = "simulated_accepted" <=> attempt[b] = "simulated_accepted"
      BY <1>0, <3>1 DEF Undelivered
    <3>3. DOMAIN attempt' = Answers
      BY <1>0, <3>1
    <3>4. \A q \in Staff : Sending(q)' => Undelivered(staff[q].of)' /\ staff'[q].of = staff[q].of
      BY <1>0, <2>2, <3>2 DEF ToldInv, Sending
    <3>. QED  BY <2>1, <2>2, <3>2, <3>3, <3>4 DEF ToldInv
  <2>. QED  BY <1>4, <2>3, <2>4 DEF Answer
<1>5. ASSUME NEW p \in Staff, TakeAttempt(p)
      PROVE  ToldInv'
  <2>. DEFINE a == staff[p].of
  <2>1. a \in Answers /\ ~Holding(a) /\ UNCHANGED <<attempt, accepted, crashes>>
        /\ staff' = [staff EXCEPT ![p] = IF Undelivered(a) THEN [at |-> "sending", of |-> a] ELSE Desk]
    BY <1>0, <1>5 DEF TakeAttempt, messageVars
  <2>2. \A q \in Staff : Sending(q) => staff[q].of # a
    BY <2>1 DEF Holding, Sending
  <2>. HIDE DEF a
  <2>3. CASE ~Undelivered(a)
    BY <1>0, <2>1, <2>3, NothingSent DEF Desk, Sending
  <2>4. CASE Undelivered(a)
    <3>1. /\ staff'[p] = [at |-> "sending", of |-> a] /\ DOMAIN staff' = Staff
          /\ \A q \in Staff : q # p => staff'[q] = staff[q]
      BY <1>0, <2>1, <2>4
    <3>. QED  BY <2>1, <2>2, <2>4, <3>1 DEF ToldInv, Sending, Undelivered
  <2>. QED  BY <2>3, <2>4
<1>6. ASSUME NEW p \in Staff, Deliver(p)
      PROVE  ToldInv'
  <2>. DEFINE a == staff[p].of
  <2>1. PICK outcome \in Outcome : attempt' = [attempt EXCEPT ![a] = outcome] /\ Sent(a, outcome)
    BY <1>6 DEF Deliver
  <2>2. a \in Answers /\ Sending(p) /\ attempt[a] # "simulated_accepted"
    BY <1>0, <1>6 DEF Deliver, ToldInv, Sending, Undelivered
  <2>3. /\ DOMAIN staff' = Staff /\ UNCHANGED crashes
        /\ \A q \in Staff : /\ q # p => staff'[q] = staff[q]
                            /\ staff'[p].at = "desk"
    BY <1>0, <1>6 DEF Deliver, Desk
  <2>4. \A q \in Staff : Sending(q)' => q # p /\ Sending(q) /\ staff'[q] = staff[q] /\ staff[q].of # a
    BY <2>2, <2>3 DEF ToldInv, Sending
  <2>. HIDE DEF a
  <2>5. /\ DOMAIN attempt' = Answers /\ attempt'[a] = outcome
        /\ \A b \in Answers : b # a => attempt'[b] = attempt[b]
    BY <1>0, <2>1, <2>2
  <2>6. /\ accepted' \in [Answers -> Nat]
        /\ \A b \in Answers : accepted'[b] = IF b = a /\ outcome = "simulated_accepted"
                                             THEN accepted[b] + 1 ELSE accepted[b]
    BY <1>0, <2>1, <2>2 DEF Sent
  <2>7. \A b \in Answers :
          accepted'[b] <= crashes + IF attempt'[b] = "simulated_accepted" THEN 1 ELSE 0
    BY <1>0, <2>2, <2>5, <2>6 DEF ToldInv
  <2>8. \A q \in Staff : Sending(q)' => Undelivered(staff[q].of)'
    BY <2>4, <2>5, <1>0 DEF ToldInv, Undelivered, Sending
  <2>. QED  BY <1>0, <2>3, <2>4, <2>5, <2>6, <2>7, <2>8 DEF ToldInv
<1>7. ASSUME NEW p \in Staff, DeliveryCrashes(p)
      PROVE  ToldInv'
  <2>1. crashes' = crashes + 1 /\ UNCHANGED attempt /\ staff' = [staff EXCEPT ![p] = Desk]
    BY <1>7 DEF DeliveryCrashes
  <2>2. /\ accepted' \in [Answers -> Nat]
        /\ \A a \in Answers : accepted'[a] <= accepted[a] + 1
    BY <1>0, <1>7 DEF DeliveryCrashes, Sent
  <2>3. \A a \in Answers : accepted'[a] <= crashes' + IF attempt[a] = "simulated_accepted" THEN 1 ELSE 0
    BY <1>0, <2>1, <2>2 DEF ToldInv
  <2>4. DOMAIN staff' = Staff /\ \A q \in Staff : staff'[q].at \in {"deliver", "sending"} =>
                                                     q # p /\ staff'[q] = staff[q]
    BY <1>0, <2>1 DEF Desk
  <2>. QED  BY <1>0, <2>1, <2>2, <2>3, <2>4 DEF ToldInv, Sending, Undelivered
<1>. QED  BY <1>1, <1>2, <1>3, <1>4, <1>5, <1>6, <1>7 DEF TriageNext

\* No answer is sent yet.
LEMMA ToldInvInit == TriageInit => ToldInv
BY DEF TriageInit, ToldInv, Sending, Desk

\* However many HR people answer and retry at once: an answer is accepted once, and
\* once more for each process that died while it delivered.
THEOREM EmployeeToldOnce == TriageSpec => []ToldOnce
<1>1. ToldInv => ToldOnce
  BY DEF ToldInv, ToldOnce
<1>. QED  BY ToldInvInit, <1>1, TriageStep, PTL DEF TriageSpec

--------------------------------------------------------------------------------
(***************************************************************************)
(* WorkTasks.                                                              *)
(***************************************************************************)

\* The clerk whose count goes into the parent next.
Counting(p) == clerk[p].at = "counted"

\* A clerk that edits a subtask that was there, and has not read the parent before it
\* locks it.
Edits(c) == c.at \in {"read", "flushed", "counted"} /\ c.was # "none"

\* Who recounts the parent is alone with it, and its count is of the subtasks there
\* are; the parent an edit has read is the one there is.
CountInv ==
  /\ DOMAIN clerk = Clerks /\ \A p \in Clerks : "at" \in DOMAIN clerk[p]
  /\ {"status", "done", "total"} \subseteq DOMAIN parent
  /\ \A p, q \in Clerks : Counting(p) /\ Counting(q) => p = q
  /\ \A p \in Clerks : Counting(p) => /\ clerk[p].total = Cardinality(Live(Seen(p)))
                                      /\ clerk[p].done = Cardinality(Done(Seen(p)))
  /\ \A p \in Clerks : Edits(clerk[p]) => clerk[p].seen = IF Counting(p) THEN {parent} ELSE {}
  /\ ParentCountsItsSubtasks

\* A step of one clerk that does not begin a count.
LEMMA NoCountBegins ==
  ASSUME CountInv, NEW p \in Clerks, NEW to, clerk' = [clerk EXCEPT ![p] = to],
         "at" \in DOMAIN to, to.at # "counted", Edits(to) => to.seen = {}, UNCHANGED sub,
         \/ parent' = parent
         \/ /\ {"status", "done", "total"} \subseteq DOMAIN parent'
            /\ \A q \in Clerks \ {p} : ~Counting(q),
         ParentCountsItsSubtasks'
  PROVE  CountInv'
<1>1. /\ DOMAIN clerk' = Clerks /\ clerk'[p] = to
      /\ \A q \in Clerks : q # p => clerk'[q] = clerk[q]
  BY DEF CountInv
<1>2. \A q \in Clerks : Counting(q)' => q # p /\ Counting(q) /\ clerk'[q] = clerk[q]
  BY <1>1 DEF Counting
<1>3. ASSUME NEW q \in Clerks, clerk'[q] = clerk[q]
      PROVE  Seen(q)' = Seen(q)
  <2>1. PICK row : row = clerk[q] /\ row = clerk'[q]
    BY <1>3
  <2>2. Seen(q) = IF row.writes THEN [sub EXCEPT ![row.of] = row.to] ELSE sub
    BY <2>1 DEF Seen
  <2>3. Seen(q)' = IF row.writes THEN [sub EXCEPT ![row.of] = row.to] ELSE sub
    BY <2>1 DEF Seen
  <2>. QED  BY <2>2, <2>3
<1>4. \A q \in Clerks : Counting(q)' => Live(Seen(q))' = Live(Seen(q)) /\ Done(Seen(q))' = Done(Seen(q))
  BY <1>2, <1>3 DEF Live, Done
<1>5. \A q \in Clerks : Counting(q)' => /\ clerk'[q].total = Cardinality(Live(Seen(q)))'
                                        /\ clerk'[q].done = Cardinality(Done(Seen(q)))'
  BY <1>2, <1>4 DEF CountInv
<1>6. ASSUME NEW q \in Clerks, Edits(clerk'[q])
      PROVE  clerk'[q].seen = IF Counting(q)' THEN {parent'} ELSE {}
  <2>1. CASE q = p
    <3>1. ~Counting(q)' /\ clerk'[q].seen = {}
      BY <1>1, <1>6, <2>1 DEF Counting
    <3>. QED  BY <3>1
  <2>2. CASE q # p
    <3>1. clerk'[q] = clerk[q] /\ (Counting(q)' <=> Counting(q))
      BY <1>1, <2>2 DEF Counting
    <3>2. clerk[q].seen = IF Counting(q) THEN {parent} ELSE {}
      BY <1>6, <3>1 DEF CountInv
    <3>3. Counting(q) => parent' = parent
      BY <2>2
    <3>. QED  BY <3>1, <3>2, <3>3
  <2>. QED  BY <2>1, <2>2
<1>7. /\ \A q \in Clerks : "at" \in DOMAIN clerk'[q]
      /\ {"status", "done", "total"} \subseteq DOMAIN parent'
  BY <1>1 DEF CountInv
<1>8. \A q, r \in Clerks : Counting(q)' /\ Counting(r)' => q = r
  BY <1>2 DEF CountInv
<1>9. \A q \in Clerks : Edits(clerk[q])' => clerk'[q].seen = IF Counting(q)' THEN {parent'} ELSE {}
  BY <1>6
<1>. QED  BY <1>1, <1>5, <1>7, <1>8, <1>9 DEF CountInv, Edits

\* Every step keeps it.
LEMMA WorkTasksStep ==
  ASSUME CountInv, [WorkTasksNext]_workTasksVars
  PROVE  CountInv'
<1>0. /\ DOMAIN clerk = Clerks /\ \A p \in Clerks : "at" \in DOMAIN clerk[p]
      /\ {"status", "done", "total"} \subseteq DOMAIN parent /\ ParentCountsItsSubtasks
  BY DEF CountInv
<1>1. CASE UNCHANGED workTasksVars
  <2>1. UNCHANGED <<sub, parent, clerk, counted>>
    BY <1>1 DEF workTasksVars
  <2>2. \A q \in Clerks : Edits(clerk'[q]) => clerk'[q].seen = IF Counting(q)' THEN {parent'} ELSE {}
    BY <2>1 DEF CountInv, Counting
  <2>. QED  BY <2>1, <2>2 DEF CountInv, Counting, Edits, Seen, Live, Done, ParentCountsItsSubtasks
<1>2. ASSUME NEW p \in Clerks, NEW s \in Subtasks, ReadForSubtask(p, s)
      PROVE  CountInv'
  <2>. DEFINE to == [at |-> "read", of |-> s, was |-> "none", to |-> "open",
                     writes |-> TRUE, seen |-> {parent}]
  <2>1. clerk' = [clerk EXCEPT ![p] = to] /\ UNCHANGED <<sub, parent, counted>>
    BY <1>2 DEF ReadForSubtask, ClerkGoes
  <2>2. "at" \in DOMAIN to /\ to.at # "counted" /\ (Edits(to) => to.seen = {})
    BY DEF Edits
  <2>. HIDE DEF to
  <2>. QED  BY <1>0, <2>1, <2>2, NoCountBegins DEF ParentCountsItsSubtasks, Live, Done
<1>3. ASSUME NEW p \in Clerks, NEW s \in Subtasks, NEW end \in SubStatuses,
             ReadForUpdate(p, s, end)
      PROVE  CountInv'
  <2>. PICK writes : writes = (end # sub[s])
    OBVIOUS
  <2>. DEFINE to == [at |-> "read", of |-> s, was |-> sub[s], to |-> end,
                     writes |-> writes, seen |-> {}]
  <2>1. clerk' = [clerk EXCEPT ![p] = to] /\ UNCHANGED <<sub, parent, counted>>
    BY <1>3 DEF ReadForUpdate, ClerkGoes
  <2>2. "at" \in DOMAIN to /\ to.at # "counted" /\ (Edits(to) => to.seen = {})
    BY DEF Edits
  <2>. HIDE DEF to
  <2>. QED  BY <1>0, <2>1, <2>2, NoCountBegins DEF ParentCountsItsSubtasks, Live, Done
<1>4. ASSUME NEW p \in Clerks, Flush(p) \/ DeadlockAbort(p)
      PROVE  CountInv'
  <2>1. PICK to : /\ clerk' = [clerk EXCEPT ![p] = to] /\ UNCHANGED <<sub, parent, counted>>
                  /\ to = Away \/ to = [clerk[p] EXCEPT !.at = "flushed"]
    BY <1>4 DEF Flush, DeadlockAbort, ClerkGoes
  <2>2. "at" \in DOMAIN to /\ to.at # "counted" /\ (Edits(to) => to.seen = {})
    <3>1. CASE to = Away
      BY <3>1 DEF Away, Edits
    <3>2. CASE to = [clerk[p] EXCEPT !.at = "flushed"]
      <4>1. to.at = "flushed" /\ "at" \in DOMAIN to /\ to.was = clerk[p].was /\ to.seen = clerk[p].seen
        BY <1>0, <3>2
      <4>2. clerk[p].at \in {"read", "flushed"} /\ ~Counting(p)
        BY <1>4, <2>1, <3>2 DEF Flush, DeadlockAbort, Counting
      <4>3. Edits(to) => Edits(clerk[p])
        BY <4>1, <4>2 DEF Edits
      <4>4. Edits(clerk[p]) => clerk[p].seen = {}
        BY <4>2 DEF CountInv
      <4>. QED  BY <4>1, <4>3, <4>4
    <3>. QED  BY <2>1, <3>1, <3>2
  <2>. QED  BY <1>0, <2>1, <2>2, NoCountBegins DEF ParentCountsItsSubtasks, Live, Done
<1>5. ASSUME NEW p \in Clerks, Recount(p)
      PROVE  CountInv'
  <2>1. PICK to : /\ to.at = "counted" /\ "at" \in DOMAIN to
                  /\ to.of = clerk[p].of /\ to.to = clerk[p].to /\ to.writes = clerk[p].writes
                  /\ to.was = clerk[p].was
                  /\ to.seen = IF clerk[p].seen = {} THEN {parent} ELSE clerk[p].seen
                  /\ to.total = Cardinality(Live(Seen(p))) /\ to.done = Cardinality(Done(Seen(p)))
                  /\ clerk' = [clerk EXCEPT ![p] = to]
    <3>. PICK seen : seen = IF clerk[p].seen = {} THEN {parent} ELSE clerk[p].seen
      OBVIOUS
    <3>. PICK total, done : total = Cardinality(Live(Seen(p))) /\ done = Cardinality(Done(Seen(p)))
      OBVIOUS
    <3>. DEFINE row == [at |-> "counted", of |-> clerk[p].of, was |-> clerk[p].was,
                        to |-> clerk[p].to, writes |-> clerk[p].writes, seen |-> seen,
                        total |-> total, done |-> done]
    <3>1. clerk' = [clerk EXCEPT ![p] = row]
      BY <1>5 DEF Recount, ClerkGoes
    <3>2. /\ row.at = "counted" /\ "at" \in DOMAIN row
          /\ row.of = clerk[p].of /\ row.to = clerk[p].to /\ row.writes = clerk[p].writes
          /\ row.total = total /\ row.done = done /\ row.was = clerk[p].was /\ row.seen = seen
      OBVIOUS
    <3>. HIDE DEF row
    <3>. QED  BY <3>1, <3>2
  <2>2. /\ UNCHANGED <<sub, parent, counted>> /\ clerk[p].at = "flushed"
        /\ \A q \in Clerks \ {p} : ~Counting(q)
    BY <1>5 DEF Recount, MayLock, OtherClerks, Counting
  <2>3. /\ DOMAIN clerk' = Clerks /\ clerk'[p] = to
        /\ \A q \in Clerks : q # p => clerk'[q] = clerk[q]
    BY <1>0, <2>1
  <2>4. Seen(p)' = Seen(p)
    BY <2>1, <2>2, <2>3 DEF Seen
  <2>5. \A q \in Clerks : Counting(q)' => q = p
    BY <2>2, <2>3 DEF Counting
  <2>6. clerk'[p].total = Cardinality(Live(Seen(p)))' /\ clerk'[p].done = Cardinality(Done(Seen(p)))'
    <3>1. Live(Seen(p))' = Live(Seen(p)) /\ Done(Seen(p))' = Done(Seen(p))
      BY <2>4 DEF Live, Done
    <3>. QED  BY <2>1, <2>3, <3>1
  <2>7. ParentCountsItsSubtasks'
    BY <1>0, <2>2 DEF ParentCountsItsSubtasks, Live, Done
  <2>8. \A q \in Clerks : Edits(clerk'[q]) => clerk'[q].seen = IF Counting(q)' THEN {parent'} ELSE {}
    <3>1. ASSUME Edits(clerk'[p])
          PROVE  clerk'[p].seen = {parent'} /\ Counting(p)'
      <4>1. Edits(clerk[p]) /\ ~Counting(p)
        BY <2>1, <2>2, <2>3, <3>1 DEF Edits, Counting
      <4>2. clerk[p].seen = {}
        BY <4>1 DEF CountInv
      <4>. QED  BY <2>1, <2>2, <2>3, <4>2 DEF Counting
    <3>2. ASSUME NEW q \in Clerks, q # p, Edits(clerk'[q])
          PROVE  clerk'[q].seen = {} /\ ~Counting(q)'
      <4>1. Edits(clerk[q]) /\ ~Counting(q) /\ clerk'[q] = clerk[q]
        BY <2>2, <2>3, <3>2
      <4>. QED  BY <4>1 DEF CountInv, Counting
    <3>. QED  BY <3>1, <3>2
  <2>. QED  BY <1>0, <2>1, <2>2, <2>3, <2>5, <2>6, <2>7, <2>8 DEF CountInv, Edits
<1>6. ASSUME NEW p \in Clerks, CommitSubtask(p)
      PROVE  CountInv'
  <2>. DEFINE c == clerk[p]
  <2>1. PICK read \in c.seen :
          /\ Counting(p) /\ sub' = Seen(p) /\ clerk' = [clerk EXCEPT ![p] = Away]
          /\ parent' = IF c.total = 0 THEN parent
                       ELSE [parent EXCEPT !.total = Changed(read.total, c.total, @),
                                           !.done = Changed(read.done, c.done, @)]
          /\ counted' = (c.total > 0 /\ c.was # "none")
    BY <1>6 DEF CommitSubtask, ClerkGoes, Counting
  <2>2. c.total = Cardinality(Live(Seen(p))) /\ c.done = Cardinality(Done(Seen(p)))
    BY <2>1 DEF CountInv
  <2>3. /\ DOMAIN clerk' = Clerks /\ \A q \in Clerks : "at" \in DOMAIN clerk'[q] /\ ~Counting(q)'
    BY <1>0, <2>1 DEF CountInv, Counting, Away
  <2>7. \A q \in Clerks : Edits(clerk'[q]) => clerk'[q].seen = {}
    <3>1. ~Edits(clerk'[p]) /\ \A q \in Clerks \ {p} : ~Counting(q) /\ clerk'[q] = clerk[q]
      BY <1>0, <2>1 DEF CountInv, Edits, Away
    <3>. QED  BY <3>1 DEF CountInv
  <2>. HIDE DEF c
  <2>4. {"status", "done", "total"} \subseteq DOMAIN parent'
    BY <1>0, <2>1
  <2>5. ASSUME counted'  PROVE parent'.total = c.total /\ parent'.done = c.done
    <3>0. c.total > 0 /\ c.was # "none"
      BY <2>1, <2>5, Zenon
    <3>1. c.total > 0 /\ read = parent
      <4>1. Edits(c)
        BY <2>1, <3>0 DEF Edits, Counting, c
      <4>2. c.seen = {parent}
        BY <2>1, <4>1 DEF CountInv, c
      <4>. QED  BY <2>1, <3>0, <4>2
    <3>2. c.total # 0
      BY <3>1
    <3>. QED  BY <1>0, <2>1, <3>1, <3>2 DEF Changed
  <2>6. ParentCountsItsSubtasks'
    BY <2>1, <2>2, <2>5 DEF ParentCountsItsSubtasks, Live, Done
  <2>. QED  BY <2>3, <2>4, <2>6, <2>7 DEF CountInv, Edits
<1>7. ASSUME NEW p \in Clerks, ReadParent(p)
      PROVE  CountInv'
  <2>. DEFINE to == [at |-> "parent", seen |-> {parent}]
  <2>1. clerk' = [clerk EXCEPT ![p] = to] /\ UNCHANGED <<sub, parent, counted>>
    BY <1>7 DEF ReadParent, ClerkGoes
  <2>2. "at" \in DOMAIN to /\ to.at # "counted" /\ (Edits(to) => to.seen = {})
    BY DEF Edits
  <2>. HIDE DEF to
  <2>. QED  BY <1>0, <2>1, <2>2, NoCountBegins DEF ParentCountsItsSubtasks, Live, Done
<1>8. ASSUME NEW p \in Clerks, NEW end \in {"open", "completed"}, NEW units \in 0..MaxUnits,
             PatchParent(p, end, units)
      PROVE  CountInv'
  <2>1. \/ parent' = parent /\ (counted' => counted)
        \/ {"status", "done", "total"} \subseteq DOMAIN parent' /\ ~counted'
    <3>1. PICK read, done, new :
            /\ new = [status |-> Changed(read.status, end, parent.status),
                      done |-> Changed(read.done, done, parent.done), total |-> parent.total]
            /\ parent' = IF units <= read.total /\ Truthful(new) THEN new ELSE parent
            /\ counted' = (counted /\ ~(units <= read.total /\ Truthful(new)))
      BY <1>8, Zenon DEF PatchParent
    <3>2. {"status", "done", "total"} \subseteq DOMAIN new
      BY <3>1
    <3>3. CASE units <= read.total /\ Truthful(new)
      <4>1. parent' = new /\ ~counted'
        BY <3>1, <3>3, Zenon
      <4>. QED  BY <3>2, <4>1
    <3>4. CASE ~(units <= read.total /\ Truthful(new))
      <4>1. parent' = parent /\ (counted' => counted)
        BY <3>1, <3>4, Zenon
      <4>. QED  BY <3>2, <4>1
    <3>. QED  BY <3>3, <3>4
  <2>2. clerk' = [clerk EXCEPT ![p] = Away] /\ UNCHANGED sub
    BY <1>8 DEF PatchParent, ClerkGoes
  <2>3. "at" \in DOMAIN Away /\ Away.at # "counted" /\ ~Edits(Away)
    BY DEF Away, Edits
  <2>4. ParentCountsItsSubtasks' /\ {"status", "done", "total"} \subseteq DOMAIN parent'
    BY <1>0, <2>1, <2>2 DEF ParentCountsItsSubtasks, Live, Done
  <2>5. \A q \in Clerks \ {p} : ~Counting(q)
    BY <1>8 DEF PatchParent, Unlocked, OtherClerks, Counting
  <2>. QED  BY <2>2, <2>3, <2>4, <2>5, NoCountBegins
<1>9. ASSUME NEW p \in Clerks, AdvanceParent(p)
      PROVE  CountInv'
  <2>1. UNCHANGED <<sub, clerk>> /\ {"status", "done", "total"} \subseteq DOMAIN parent' /\ ~counted'
    BY <1>0, <1>9 DEF AdvanceParent
  <2>2. \A q \in Clerks : Edits(clerk'[q]) => clerk'[q].seen = IF Counting(q)' THEN {parent'} ELSE {}
    <3>1. \A q \in Clerks : q # p => ~Counting(q)
      BY <1>9 DEF AdvanceParent, Unlocked, OtherClerks, Counting
    <3>2. ~Edits(clerk[p])
      BY <1>9 DEF AdvanceParent, Edits, Away
    <3>. QED  BY <2>1, <3>1, <3>2 DEF CountInv, Counting
  <2>. QED  BY <1>0, <2>1, <2>2 DEF CountInv, Counting, Edits, Seen, Live, Done, ParentCountsItsSubtasks
<1>. QED  BY <1>1, <1>2, <1>3, <1>4, <1>5, <1>6, <1>7, <1>8, <1>9 DEF WorkTasksNext

\* Nobody counts yet.
LEMMA CountInvInit == WorkTasksInit => CountInv
BY DEF WorkTasksInit, CountInv, Counting, Edits, Away, ParentCountsItsSubtasks

\* Whoever edits or adds subtasks, or edits the parent, at the same time: after an
\* edit of a subtask the parent counts its subtasks. It says nothing of the counters
\* an added subtask leaves, nor of those that were set by hand.
THEOREM ParentIsCounted == WorkTasksSpec => []ParentCountsItsSubtasks
<1>1. CountInv => ParentCountsItsSubtasks
  BY DEF CountInv
<1>. QED  BY CountInvInit, <1>1, WorkTasksStep, PTL DEF WorkTasksSpec

--------------------------------------------------------------------------------
(***************************************************************************)
(* CaseTimeline.                                                           *)
(***************************************************************************)

\* Events numbered from 1 without a gap beyond their number.
Counted(events) ==
  /\ IsFiniteSet(events)
  /\ \A e \in events : e.seq \in Nat /\ e.seq <= Cardinality(events)

\* The last event that moves the case moves it to end.
LastMove(events, end) ==
  \E e \in events : e.status = end /\ \A f \in events : f.seq > e.seq => ~Moves(f.status)

\* What a transaction has flushed of its moves, or is about to number or insert.
MoveKnown(t) ==
  \/ \A e \in t.own : ~Moves(e.status)
  \/ LastMove(t.own, t.status)
  \/ t.todo # <<>> /\ Head(t.todo).op = "event" /\ Head(t.todo).status = t.status /\ Moves(t.status)

\* An open transaction: once it has a number it holds the advisory lock, and its events
\* come after those that are committed.
OpenOK(r) ==
  LET t == tx[r] IN
  /\ {"at", "status", "todo", "seq", "own", "takes", "gives", "run"} \subseteq DOMAIN t
  /\ t.seq \in Nat /\ Counted(timeline \cup t.own) /\ MoveKnown(t)
  /\ t.seq # 0 \/ t.own # {} => advisory = r
  /\ \A e \in t.own, f \in timeline : f.seq < e.seq
  /\ t.seq # 0 => /\ t.seq = Cardinality(timeline \cup t.own) + 1
                  /\ t.todo # <<>> /\ Head(t.todo).op = "event"
                  /\ Moves(Head(t.todo).status) => Head(t.todo).status = t.status

\* What is committed is numbered and ends with the status of the case.
OrderInv ==
  /\ DOMAIN tx = Handlers /\ Counted(timeline) /\ LastMove(timeline, caseStatus)
  /\ \A r \in Handlers : Busy(r) => OpenOK(r)

\* The next number is not taken.
LEMMA NextNumber ==
  ASSUME NEW events, Counted(events)
  PROVE  /\ Cardinality(events) \in Nat
         /\ \A e \in events : e.seq \in Nat /\ e.seq < Cardinality(events) + 1
<1>1. Cardinality(events) \in Nat
  BY FS_CardinalityType DEF Counted
<1>. QED  BY <1>1 DEF Counted

\* An event with the next number leaves the events numbered.
LEMMA OneMore ==
  ASSUME NEW events, Counted(events), NEW new, new.seq = Cardinality(events) + 1
  PROVE  /\ Counted(events \cup {new}) /\ new.seq \in Nat
         /\ \A e \in events : e.seq \in Nat /\ e.seq < new.seq
<1>1. Cardinality(events) \in Nat /\ new.seq \in Nat
  BY NextNumber
<1>2. \A e \in events : e.seq \in Nat /\ e.seq < new.seq
  BY NextNumber
<1>3. new \notin events
  BY <1>1, <1>2
<1>4. IsFiniteSet(events \cup {new}) /\ Cardinality(events \cup {new}) = Cardinality(events) + 1
  BY <1>3, FS_AddElement DEF Counted
<1>. QED  BY <1>1, <1>2, <1>4 DEF Counted

\* The event that comes last is the last move, or leaves it.
LEMMA LastComes ==
  ASSUME NEW events, NEW new, new.seq \in Nat,
         \A e \in events : e.seq \in Nat /\ e.seq < new.seq
  PROVE  /\ LastMove(events \cup {new}, new.status)
         /\ \A end : ~Moves(new.status) /\ LastMove(events, end)
                         => LastMove(events \cup {new}, end)
<1>1. LastMove(events \cup {new}, new.status)
  <2>1. \A f \in events \cup {new} : ~(f.seq > new.seq)
    OBVIOUS
  <2>. QED  BY <2>1 DEF LastMove
<1>. QED  BY <1>1 DEF LastMove

\* Nobody else has a number.
LEMMA OneNumbers ==
  ASSUME OrderInv, NEW r \in Handlers, advisory = r \/ advisory = Nobody,
         NEW q \in Handlers, q # r, Busy(q)
  PROVE  tx[q].seq = 0 /\ tx[q].own = {}
BY TimelineAssumption DEF OrderInv, OpenOK, Nobody

\* A step of one transaction that commits nothing.
LEMMA OneSteps ==
  ASSUME OrderInv, NEW r \in Handlers, UNCHANGED <<timeline, caseStatus>>,
         DOMAIN tx' = Handlers, \A q \in Handlers : q # r => tx'[q] = tx[q],
         Busy(r)' => OpenOK(r)',
         \/ advisory' = advisory
         \/ advisory \in {Nobody, r}
  PROVE  OrderInv'
<1>1. ASSUME NEW q \in Handlers, Busy(q)'
      PROVE  OpenOK(q)'
  <2>1. CASE q = r
    BY <1>1, <2>1
  <2>2. CASE q # r
    <3>1. tx'[q] = tx[q] /\ Busy(q) /\ OpenOK(q)
      BY <1>1, <2>2 DEF Busy, OrderInv
    <3>2. CASE advisory' = advisory
      BY <3>1, <3>2 DEF OpenOK
    <3>3. CASE advisory \in {Nobody, r}
      BY <2>2, <3>1, <3>3, OneNumbers DEF OpenOK
    <3>. QED  BY <3>2, <3>3
  <2>. QED  BY <2>1, <2>2
<1>. QED  BY <1>1 DEF OrderInv

\* A transaction begins: it has read the status, and flushed nothing.
LEMMA OpenStep ==
  ASSUME OrderInv, NEW r \in Handlers, NEW todo, NEW run, NEW takes, NEW gives,
         Open(r, todo, run, takes, gives)
  PROVE  OrderInv'
<1>. DEFINE next == [at |-> "open", status |-> caseStatus, todo |-> todo, seq |-> 0, own |-> {},
                     takes |-> takes, gives |-> gives, run |-> run]
<1>1. tx' = [tx EXCEPT ![r] = next] /\ UNCHANGED <<timeline, caseStatus, advisory>>
  BY DEF Open
<1>2. /\ {"at", "status", "todo", "seq", "own", "takes", "gives", "run"} \subseteq DOMAIN next
      /\ next.seq = 0 /\ next.own = {}
  OBVIOUS
<1>. HIDE DEF next
<1>3. DOMAIN tx' = Handlers /\ tx'[r] = next /\ \A q \in Handlers : q # r => tx'[q] = tx[q]
  BY <1>1 DEF OrderInv
<1>4. OpenOK(r)'
  <2>1. timeline \cup next.own = timeline /\ Counted(timeline)
    BY <1>2 DEF OrderInv
  <2>2. MoveKnown(next)
    BY <1>2 DEF MoveKnown
  <2>3. Counted(timeline \cup tx[r].own)' /\ MoveKnown(tx[r])'
    BY <1>1, <1>3, <2>1, <2>2 DEF Counted, MoveKnown
  <2>. QED  BY <1>2, <1>3, <2>3 DEF OpenOK
<1>. QED  BY <1>1, <1>3, <1>4, OneSteps

\* An event is numbered, or waits for the row with the advisory lock in its hand.
LEMMA NumberStep ==
  ASSUME OrderInv, NEW r \in Handlers, NumberEvent(r)
  PROVE  OrderInv'
<1>. DEFINE to == Head(tx[r].todo).status
            next == [tx[r] EXCEPT !.seq = MaxSeq(r) + 1, !.status = IF Moves(to) THEN to ELSE @]
<1>1. /\ advisory \in {Nobody, r} /\ advisory' = r /\ UNCHANGED <<timeline, caseStatus>>
      /\ Busy(r) /\ OpenOK(r) /\ tx[r].seq = 0 /\ tx[r].todo # <<>> /\ Head(tx[r].todo).op = "event"
  BY DEF NumberEvent, MayNumber, Doing, OrderInv
<1>2. CASE UNCHANGED tx
  <2>1. OpenOK(r)'
    BY <1>1, <1>2 DEF OpenOK
  <2>. QED  BY <1>1, <1>2, <2>1, OneSteps DEF OrderInv
<1>3. CASE Steps(r, next)
  <2>1. DOMAIN tx' = Handlers /\ tx'[r] = next /\ \A q \in Handlers : q # r => tx'[q] = tx[q]
    BY <1>3 DEF OrderInv, Steps
  <2>2. /\ DOMAIN next = DOMAIN tx[r] /\ next.todo = tx[r].todo /\ next.own = tx[r].own
        /\ next.seq = Cardinality(timeline \cup tx[r].own) + 1
        /\ next.status = IF Moves(to) THEN to ELSE tx[r].status
    BY <1>1 DEF OpenOK, MaxSeq
  <2>. HIDE DEF next
  <2>3. Cardinality(timeline \cup tx[r].own) \in Nat
    BY <1>1, NextNumber DEF OpenOK
  <2>4. MoveKnown(next)
    BY <1>1, <2>2 DEF OpenOK, MoveKnown
  <2>5. OpenOK(r)'
    BY <1>1, <2>1, <2>2, <2>3, <2>4 DEF OpenOK
  <2>. QED  BY <1>1, <2>1, <2>5, OneSteps
<1>. QED  BY <1>2, <1>3 DEF NumberEvent

\* A numbered event is written: it comes last, also among the moves.
LEMMA InsertStep ==
  ASSUME OrderInv, NEW r \in Handlers, InsertEvent(r)
  PROVE  OrderInv'
<1>. DEFINE t == tx[r]
            head == Head(t.todo)
            new == [seq |-> t.seq, status |-> head.status]
            next == [Rest(r) EXCEPT !.seq = 0, !.own = @ \cup {new}]
<1>1. /\ Busy(r) /\ OpenOK(r) /\ t.seq # 0 /\ head.op = "event"
      /\ tx' = [tx EXCEPT ![r] = next] /\ UNCHANGED <<timeline, caseStatus, advisory>>
  BY DEF InsertEvent, Doing, OrderInv, Steps
<1>2. DOMAIN tx' = Handlers /\ tx'[r] = next /\ \A q \in Handlers : q # r => tx'[q] = tx[q]
  BY <1>1 DEF OrderInv
<1>3. /\ DOMAIN next = DOMAIN t /\ next.seq = 0 /\ next.own = t.own \cup {new}
      /\ next.status = t.status
  BY <1>1 DEF OpenOK, Rest
<1>4. new.seq = t.seq /\ new.status = head.status
  OBVIOUS
<1>. HIDE DEF next, new
<1>. DEFINE events == timeline \cup t.own
<1>5. /\ t.seq = Cardinality(events) + 1 /\ Counted(events) /\ advisory = r
      /\ MoveKnown(t) /\ (Moves(head.status) => head.status = t.status)
      /\ \A e \in t.own, f \in timeline : f.seq < e.seq
      /\ {"at", "status", "todo", "seq", "own", "takes", "gives", "run"} \subseteq DOMAIN t
  BY <1>1 DEF OpenOK
<1>6. timeline \cup next.own = events \cup {new}
  BY <1>3
<1>. HIDE DEF t, head, events
<1>7. /\ Counted(events \cup {new}) /\ new.seq \in Nat
      /\ \A e \in events : e.seq \in Nat /\ e.seq < new.seq
  BY <1>4, <1>5, OneMore
<1>8. \A e \in t.own : e.seq \in Nat /\ e.seq < new.seq
  BY <1>7 DEF events
<1>9. MoveKnown(next)
  <2>. PICK own : own = t.own
    OBVIOUS
  <2>0. /\ LastMove(own \cup {new}, new.status)
        /\ \A end : ~Moves(new.status) /\ LastMove(own, end) => LastMove(own \cup {new}, end)
    BY <1>7, <1>8, LastComes
  <2>1. CASE Moves(head.status)
    <3>1. LastMove(next.own, next.status)
      <4>1. next.own = own \cup {new} /\ next.status = new.status
        BY <1>3, <1>4, <1>5, <2>1
      <4>. QED  BY <2>0, <4>1
    <3>. QED  BY <3>1 DEF MoveKnown
  <2>2. CASE ~Moves(head.status)
    <3>1. (\A e \in t.own : ~Moves(e.status)) \/ LastMove(t.own, t.status)
      BY <1>5, <2>2 DEF MoveKnown, head
    <3>2. CASE \A e \in t.own : ~Moves(e.status)
      BY <1>3, <1>4, <2>2, <3>2 DEF MoveKnown
    <3>3. CASE LastMove(t.own, t.status)
      <4>1. LastMove(next.own, next.status)
        <5>1. next.own = own \cup {new} /\ next.status = t.status
          BY <1>3
        <5>. QED  BY <1>4, <2>0, <2>2, <3>3, <5>1
      <4>. QED  BY <4>1 DEF MoveKnown
    <3>. QED  BY <3>1, <3>2, <3>3
  <2>. QED  BY <2>1, <2>2
<1>10. \A e \in next.own, f \in timeline : f.seq < e.seq
  BY <1>3, <1>5, <1>7 DEF events
<1>11. OpenOK(r)'
  <2>1. /\ {"at", "status", "todo", "seq", "own", "takes", "gives", "run"} \subseteq DOMAIN tx'[r]
        /\ tx'[r].seq = 0 /\ MoveKnown(tx[r])'
        /\ \A e \in tx'[r].own, f \in timeline' : f.seq < e.seq
    BY <1>1, <1>2, <1>3, <1>5, <1>9, <1>10 DEF MoveKnown
  <2>2. Counted(timeline \cup tx[r].own)'
    BY <1>1, <1>2, <1>6, <1>7 DEF Counted
  <2>3. advisory' = r
    BY <1>1, <1>5
  <2>. QED  BY <2>1, <2>2, <2>3 DEF OpenOK
<1>. QED  BY <1>1, <1>2, <1>11, OneSteps

\* The reads of a run, and the request for an approval.
LEMMA AskStepKeeps ==
  ASSUME OrderInv, NEW r \in Handlers, RunReadTool(r) \/ ReuseApproval(r) \/ FlushApproval(r)
  PROVE  OrderInv'
<1>. DEFINE t == tx[r]
<1>1. /\ Busy(r) /\ OpenOK(r) /\ t.todo # <<>> /\ Head(t.todo).op \in {"read", "ask"}
      /\ UNCHANGED <<timeline, caseStatus, advisory>>
  BY DEF RunReadTool, ReuseApproval, FlushApproval, Doing, OrderInv
<1>2. PICK next : /\ tx' = [tx EXCEPT ![r] = next] /\ DOMAIN next = DOMAIN t
                  /\ next.seq = t.seq /\ next.own = t.own
                  /\ \/ next.status = t.status
                     \/ next.status = "AWAITING_APPROVAL" /\ next.todo = <<Event("AWAITING_APPROVAL")>>
  BY <1>1 DEF RunReadTool, ReuseApproval, FlushApproval, Steps, Rest, OpenOK
<1>. HIDE DEF t
<1>3. DOMAIN tx' = Handlers /\ tx'[r] = next /\ \A q \in Handlers : q # r => tx'[q] = tx[q]
  BY <1>2 DEF OrderInv
<1>4. MoveKnown(next) /\ t.seq = 0
  BY <1>1, <1>2 DEF OpenOK, MoveKnown, Event, Moves, t
<1>5. OpenOK(r)'
  BY <1>1, <1>2, <1>3, <1>4 DEF OpenOK, t
<1>. QED  BY <1>1, <1>3, <1>5, OneSteps

\* A transaction is rolled back.
LEMMA RollbackStep ==
  ASSUME OrderInv, NEW r \in Handlers, Rollback(r)
  PROVE  OrderInv'
<1>1. tx' = [tx EXCEPT ![r] = NoTx] /\ UNCHANGED <<timeline, caseStatus>>
      /\ advisory' = IF advisory = r THEN Nobody ELSE advisory
  BY DEF Rollback, Steps, Released
<1>2. DOMAIN tx' = Handlers /\ ~Busy(r)' /\ \A q \in Handlers : q # r => tx'[q] = tx[q]
  BY <1>1 DEF OrderInv, Busy, NoTx
<1>. QED  BY <1>1, <1>2, OneSteps

\* A transaction commits: its events follow those there are, and its last move is the status.
LEMMA CommitStep ==
  ASSUME OrderInv, NEW r \in Handlers, Commit(r)
  PROVE  OrderInv'
<1>. DEFINE t == tx[r]
<1>1. /\ OpenOK(r) /\ t.todo = <<>> /\ timeline' = timeline \cup t.own
      /\ caseStatus' = IF \E e \in t.own : Moves(e.status) THEN t.status ELSE caseStatus
      /\ advisory' = IF advisory = r THEN Nobody ELSE advisory
      /\ tx' = [tx EXCEPT ![r] = NoTx]
  BY DEF Commit, Steps, OrderInv, Busy, Released
<1>2. DOMAIN tx' = Handlers /\ ~Busy(r)' /\ \A q \in Handlers : q # r => tx'[q] = tx[q]
  BY <1>1 DEF OrderInv, Busy, NoTx
<1>3. Counted(timeline')
  BY <1>1 DEF OpenOK
<1>4. LastMove(timeline', caseStatus')
  <2>1. \A e \in t.own, f \in timeline : f.seq < e.seq
    BY <1>1 DEF OpenOK
  <2>2. \A e \in timeline \cup t.own : e.seq \in Nat
    BY <1>1 DEF OpenOK, Counted
  <2>3. CASE \E e \in t.own : Moves(e.status)
    <3>1. LastMove(t.own, t.status)
      BY <1>1, <2>3 DEF OpenOK, MoveKnown
    <3>2. PICK e \in t.own : e.status = t.status /\ \A f \in t.own : f.seq > e.seq => ~Moves(f.status)
      BY <3>1 DEF LastMove
    <3>3. \A f \in timeline \cup t.own : f.seq > e.seq => f \in t.own
      BY <2>1, <2>2
    <3>. QED  BY <1>1, <2>3, <3>2, <3>3 DEF LastMove
  <2>4. CASE ~\E e \in t.own : Moves(e.status)
    BY <1>1, <2>4 DEF LastMove, OrderInv
  <2>. QED  BY <2>3, <2>4
<1>5. ASSUME NEW q \in Handlers, Busy(q)'
      PROVE  OpenOK(q)'
  <2>1. q # r /\ tx'[q] = tx[q] /\ Busy(q) /\ OpenOK(q)
    BY <1>2, <1>5 DEF Busy, OrderInv
  <2>2. CASE advisory = r
    <3>1. tx[q].seq = 0 /\ tx[q].own = {}
      BY <2>1, <2>2, OneNumbers
    <3>. QED  BY <1>3, <2>1, <3>1 DEF OpenOK
  <2>3. CASE advisory # r
    <3>1. t.own = {}
      BY <1>1, <2>3 DEF OpenOK
    <3>2. timeline' = timeline /\ advisory' = advisory
      BY <1>1, <2>3, <3>1
    <3>. QED  BY <2>1, <3>2 DEF OpenOK
  <2>. QED  BY <2>2, <2>3
<1>. QED  BY <1>2, <1>3, <1>4, <1>5 DEF OrderInv

\* Every step keeps it.
LEMMA TimelineStep ==
  ASSUME OrderInv, [TimelineNext]_timelineVars
  PROVE  OrderInv'
<1>1. ASSUME NEW r \in Handlers,
             PlanCase(r) \/ RunCasePlan(r) \/ RequestOverMcp(r) \/ Decide(r) \/ PrepareWrite(r)
             \/ WorkerMoves(r) \/ AssignCaseOwner(r)
      PROVE  OrderInv'
  <2>1. PICK todo, run, takes, gives : Open(r, todo, run, takes, gives)
    BY <1>1, Zenon DEF PlanCase, RunCasePlan, RequestOverMcp, Decide, PrepareWrite, WorkerMoves, AssignCaseOwner
  <2>. QED  BY <2>1, OpenStep
<1>2. CASE UNCHANGED timelineVars
  BY <1>2 DEF timelineVars, OrderInv, OpenOK, Busy
<1>. QED  BY <1>1, <1>2, NumberStep, InsertStep, AskStepKeeps, RollbackStep, CommitStep DEF TimelineNext

\* A case begins with one event.
LEMMA OrderInvInit == TimelineInit => OrderInv
<1>. SUFFICES ASSUME TimelineInit  PROVE OrderInv
  OBVIOUS
<1>. DEFINE first == [seq |-> 1, status |-> "NEW"]
<1>1. timeline = {first} /\ first.seq = 1 /\ first.status = "NEW" /\ caseStatus = "NEW"
  BY DEF TimelineInit
<1>. HIDE DEF first
<1>2. Counted(timeline)
  BY <1>1, FS_Singleton DEF Counted
<1>3. LastMove(timeline, caseStatus)
  BY <1>1 DEF LastMove
<1>. QED  BY <1>2, <1>3 DEF TimelineInit, OrderInv, Busy, NoTx

\* Whatever requests append to the timeline at once: no number is used twice, and the
\* last move of the timeline is the status of the case.
THEOREM TimelineIsOrdered == TimelineSpec => []TimelineInOrder
<1>1. OrderInv => TimelineInOrder
  <2>. SUFFICES ASSUME OrderInv  PROVE TimelineInOrder
    OBVIOUS
  <2>1. ASSUME NEW r \in Handlers, Busy(r), tx[r].seq # 0
        PROVE  ~Taken(r)
    <3>1. advisory = r /\ tx[r].seq = Cardinality(timeline \cup tx[r].own) + 1
          /\ Counted(timeline \cup tx[r].own)
      BY <2>1 DEF OrderInv, OpenOK
    <3>2. tx[r].seq \notin Numbers
      BY <3>1, NextNumber DEF Numbers
    <3>3. \A q \in OtherHandlers(r) : OwnSeqs(q) = {}
      BY <3>1, OneNumbers DEF OtherHandlers, OwnSeqs
    <3>. QED  BY <3>2, <3>3 DEF Taken
  <2>. QED  BY <2>1 DEF TimelineInOrder, OrderInv, LastMove
<1>. QED  BY OrderInvInit, <1>1, TimelineStep, PTL DEF TimelineSpec

--------------------------------------------------------------------------------
(***************************************************************************)
(* Workbench.                                                              *)
(***************************************************************************)

\* A row that was read of an item, as far as the item has not changed since; no other
\* item changed at its instant.
ReadOf(r) ==
  /\ r.item \in WorkItems /\ r.at \in Nat /\ r.at <= updated[r.item]
  /\ r = [item |-> r.item, label |-> r.label, at |-> r.at]
  /\ r.at = updated[r.item] => r.label = Labels[TypeOf[r.item]][work[r.item]]
  /\ \A i \in WorkItems : updated[i] = r.at => i = r.item

\* No two rows of a page are of one instant.
Apart(rows) == \A r, s \in rows : r.at = s.at => r = s

\* Each item has an instant of its own, and what a request has read of it is of an instant.
BoardInv ==
  /\ stamp \in Nat /\ updated \in [WorkItems -> Nat] /\ DOMAIN work = WorkItems
  /\ \A i \in WorkItems : updated[i] <= stamp /\ (updated[i] = 0 <=> work[i] = "none")
  /\ \A i, j \in WorkItems : updated[i] = updated[j] /\ updated[i] # 0 => i = j
  /\ \A r \in gathering.rows : ReadOf(r)
  /\ Apart(gathering.rows) /\ IsFiniteSet(gathering.rows)
  /\ WorkTasksShownOnce

\* No type labels an item that does not exist.
LEMMA NoneIsUnlabelled ==
  ASSUME NEW type \in DOMAIN Labels
  PROVE  "none" \notin DOMAIN Labels[type]
<1>1. /\ "none" \notin DOMAIN AnalysisLabels /\ "none" \notin DOMAIN ReportLabels
      /\ "none" \notin DOMAIN SessionLabels /\ "none" \notin DOMAIN RequestLabels
      /\ "none" \notin DOMAIN CandidateLabels /\ "none" \notin DOMAIN TaskLabels
  BY DEF AnalysisLabels, ReportLabels, SessionLabels, RequestLabels, CandidateLabels, TaskLabels
<1>2. Labels[type] \in {AnalysisLabels, ReportLabels, SessionLabels, RequestLabels,
                        CandidateLabels, TaskLabels}
  BY DEF Labels
<1>. QED  BY <1>1, <1>2

\* One newest row at most, of rows of different instants.
LEMMA OneLatest ==
  ASSUME NEW rows, \A r \in rows : r.at \in Nat, Apart(rows)
  PROVE  Cardinality(Latest(rows)) <= 1
<1>1. \A r, s \in Latest(rows) : r = s
  <2>1. \A r, s \in Latest(rows) : r.at <= s.at /\ s.at <= r.at
    BY DEF Latest
  <2>2. Latest(rows) \subseteq rows
    BY DEF Latest
  <2>. QED  BY <2>1, <2>2 DEF Apart
<1>2. CASE Latest(rows) = {}
  BY <1>2, FS_EmptySet
<1>3. CASE Latest(rows) # {}
  <2>1. PICK r : r \in Latest(rows)
    BY <1>3
  <2>2. Latest(rows) = {r}
    BY <1>1, <2>1
  <2>3. Cardinality({r}) = 1
    BY FS_Singleton
  <2>. QED  BY <2>2, <2>3
<1>. QED  BY <1>2, <1>3

\* A newer row has fewer that are newer still.
LEMMA NewerHasFewer ==
  ASSUME NEW rows, IsFiniteSet(rows), \A s \in rows : s.at \in Nat, NEW r \in rows,
         NEW S, S = {s \in rows : s.at > r.at}
  PROVE  /\ IsFiniteSet(S) /\ Cardinality(S) \in Nat /\ Cardinality(S) < Cardinality(rows)
         /\ \A t \in S : Cardinality({s \in rows : s.at > t.at}) < Cardinality(S)
<1>1. S \in SUBSET rows /\ r \notin S
  OBVIOUS
<1>2. IsFiniteSet(S) /\ Cardinality(S) <= Cardinality(rows) /\ Cardinality(S) # Cardinality(rows)
  BY <1>1, FS_Subset
<1>3. Cardinality(S) \in Nat /\ Cardinality(rows) \in Nat
  BY <1>2, FS_CardinalityType
<1>4. ASSUME NEW t \in S
      PROVE  Cardinality({s \in rows : s.at > t.at}) < Cardinality(S)
  <2>. DEFINE T == {s \in rows : s.at > t.at}
  <2>1. T \in SUBSET S /\ t \notin T
    OBVIOUS
  <2>. HIDE DEF T
  <2>2. IsFiniteSet(T) /\ Cardinality(T) <= Cardinality(S) /\ Cardinality(T) # Cardinality(S)
    BY <1>2, <2>1, FS_Subset
  <2>3. Cardinality(T) \in Nat
    BY <2>2, FS_CardinalityType
  <2>4. Cardinality(T) < Cardinality(S)
    BY <1>3, <2>2, <2>3
  <2>. QED  BY <2>4 DEF T
<1>. QED  BY <1>2, <1>3, <1>4

\* What is cut off is older than what is kept, and nothing is cut off before the list is full.
LEMMA CutIsFull ==
  ASSUME NEW rows, IsFiniteSet(rows), Apart(rows), \A s \in rows : s.at \in Nat,
         NEW n \in Nat, NEW r \in rows, r \notin Newest(rows, n)
  PROVE  /\ Cardinality(Newest(rows, n)) = n
         /\ \A s \in Newest(rows, n) : s.at > r.at
<1>. DEFINE Later(t) == {s \in rows : s.at > t.at}
            size == Cardinality(rows)
            place == [t \in rows |-> Cardinality(Later(t))]
            kept == Newest(rows, n)
<1>1. \A t \in rows : Cardinality(Later(t)) \in Nat /\ Cardinality(Later(t)) < size
  BY NewerHasFewer
<1>2. \A t \in rows : \A s \in Later(t) : Cardinality(Later(s)) < Cardinality(Later(t))
  BY NewerHasFewer
<1>3. size \in Nat
  BY FS_CardinalityType
<1>4. \A s, t \in rows : s \in Later(t) \/ t \in Later(s) \/ s = t
  <2>1. \A s, t \in rows : s.at > t.at \/ t.at > s.at \/ s.at = t.at
    OBVIOUS
  <2>. QED  BY <2>1 DEF Apart
<1>5. kept = {t \in rows : place[t] < n} /\ place[r] >= n /\ kept \subseteq rows
  BY <1>1 DEF Newest
<1>6. \A t \in rows : place[t] \in 0..(size - 1)
  BY <1>1, <1>3
<1>7. \A s, t \in rows : s \in Later(t) => place[s] < place[t]
  BY <1>2
<1>8. \A t \in rows : \A s \in rows : s.at > t.at => s \in Later(t)
  OBVIOUS
<1>9. place \in [rows -> 0..(size - 1)]
  BY <1>6
<1>. HIDE DEF place, kept, size
<1>10. \A s, t \in rows : place[s] = place[t] => s = t
  BY <1>4, <1>6, <1>7, <1>3
<1>11. place \in Injection(rows, 0..(size - 1))
  BY <1>9, <1>10 DEF Injection, IsInjective
<1>12. IsFiniteSet(0..(size - 1)) /\ Cardinality(0..(size - 1)) = size
  BY <1>3, FS_Interval
<1>13. place \in Surjection(rows, 0..(size - 1))
  BY <1>11, <1>12, FS_Injection DEF size
<1>14. \A k \in 0..(size - 1) : \E t \in rows : place[t] = k
  BY <1>13 DEF Surjection
<1>15. n <= size - 1
  BY <1>3, <1>5, <1>6
<1>. DEFINE few == [t \in kept |-> place[t]]
<1>16. few \in Injection(kept, 0..(n - 1))
  <2>1. few \in [kept -> 0..(n - 1)]
    BY <1>5, <1>6, <1>3
  <2>2. \A s, t \in kept : few[s] = few[t] => s = t
    BY <1>5, <1>10
  <2>. QED  BY <2>1, <2>2 DEF Injection, IsInjective
<1>17. few \in Surjection(kept, 0..(n - 1))
  <2>1. few \in [kept -> 0..(n - 1)]
    BY <1>16 DEF Injection
  <2>2. ASSUME NEW k \in 0..(n - 1)
        PROVE  \E t \in kept : few[t] = k
    <3>1. k \in 0..(size - 1) /\ k < n
      BY <1>3, <1>15
    <3>2. PICK t \in rows : place[t] = k
      BY <1>14, <3>1
    <3>3. t \in kept
      BY <1>5, <3>1, <3>2
    <3>. QED  BY <3>2, <3>3
  <2>. QED  BY <2>1, <2>2 DEF Surjection
<1>. HIDE DEF few
<1>18. IsFiniteSet(0..(n - 1)) /\ Cardinality(0..(n - 1)) = n
  BY FS_Interval
<1>19. Cardinality(kept) = n
  BY <1>16, <1>17, <1>18, FS_Injection
<1>20. \A s \in kept : s.at > r.at
  <2>. SUFFICES ASSUME NEW s \in kept  PROVE s.at > r.at
    OBVIOUS
  <2>1. s \in rows /\ place[s] < n /\ place[r] >= n
    BY <1>5
  <2>2. s \in Later(r)
    BY <1>3, <1>4, <1>6, <1>7, <2>1
  <2>. QED  BY <2>2
<1>. QED  BY <1>19, <1>20 DEF kept

\* An item changes at an instant of its own, or nothing does.
LEMMA ItemChanges ==
  ASSUME BoardInv, NEW i \in WorkItems, NEW end, end # "none", Becomes(i, end),
         UNCHANGED <<gathering, board>>
  PROVE  BoardInv'
<1>1. /\ stamp \in Nat /\ stamp' = stamp + 1
      /\ updated \in [WorkItems -> Nat] /\ updated' = [updated EXCEPT ![i] = stamp + 1]
      /\ DOMAIN work = WorkItems /\ work' = [work EXCEPT ![i] = end]
      /\ \A j \in WorkItems : updated[j] <= stamp
  BY DEF BoardInv, Becomes
<1>2. /\ stamp' \in Nat /\ updated' \in [WorkItems -> Nat] /\ DOMAIN work' = WorkItems
      /\ updated'[i] = stamp + 1 /\ work'[i] = end
      /\ \A j \in WorkItems : j # i => updated'[j] = updated[j] /\ work'[j] = work[j]
  BY <1>1
<1>3. \A j \in WorkItems : updated'[j] <= stamp' /\ (updated'[j] = 0 <=> work'[j] = "none")
  BY <1>1, <1>2 DEF BoardInv
<1>4. \A j, k \in WorkItems : updated'[j] = updated'[k] /\ updated'[j] # 0 => j = k
  BY <1>1, <1>2 DEF BoardInv
<1>5. \A r \in gathering'.rows : ReadOf(r)'
  <2>. SUFFICES ASSUME NEW r \in gathering.rows  PROVE ReadOf(r)'
    OBVIOUS
  <2>1. ReadOf(r)
    BY DEF BoardInv
  <2>2. r.at <= stamp
    BY <1>1, <2>1 DEF ReadOf
  <2>. QED  BY <1>1, <1>2, <2>1, <2>2 DEF ReadOf
<1>6. Apart(gathering'.rows) /\ WorkTasksShownOnce'
  BY DEF BoardInv, WorkTasksShownOnce
<1>. QED  BY <1>2, <1>3, <1>4, <1>5, <1>6 DEF BoardInv

\* A collector's rows are apart from each other and from those read before.
LEMMA Gathered ==
  ASSUME BoardInv, Gather
  PROVE  BoardInv'
<1>. DEFINE types == Collectors[gathering.next]
            read == Newest(Collected(types), LimitOf[gathering.next])
<1>1. /\ gathering' = [rows |-> gathering.rows \cup read, next |-> gathering.next + 1]
      /\ UNCHANGED <<stamp, work, updated, drafting, board>>
  BY DEF Gather
<1>6. read \subseteq Collected(types)
  BY DEF Newest
<1>. HIDE DEF types, read
<1>2. gathering'.rows = gathering.rows \cup read
  BY <1>1
<1>3. ASSUME NEW r \in read
      PROVE  r.at = updated[r.item] /\ ReadOf(r)
  <2>1. PICK i \in WorkItems : work[i] \in DOMAIN Labels[TypeOf[i]] /\ r = RowOf(i)
    BY <1>6 DEF Collected
  <2>2. r.item = i /\ r.at = updated[i] /\ r.label = Labels[TypeOf[i]][work[i]]
        /\ r = [item |-> r.item, label |-> r.label, at |-> r.at]
    BY <2>1 DEF RowOf
  <2>3. work[i] # "none"
    <3>1. TypeOf[i] \in DOMAIN Labels
      BY WorkbenchAssumption
    <3>. QED  BY <2>1, <3>1, NoneIsUnlabelled
  <2>. QED  BY <2>2, <2>3 DEF ReadOf, BoardInv
<1>4. Apart(gathering'.rows)
  <2>. SUFFICES ASSUME NEW r \in gathering'.rows, NEW s \in gathering'.rows, r.at = s.at
                PROVE  r = s
    BY DEF Apart
  <2>1. ReadOf(r) /\ ReadOf(s)
    BY <1>2, <1>3 DEF BoardInv
  <2>2. CASE r \in read \/ s \in read
    BY <1>3, <2>1, <2>2 DEF ReadOf
  <2>3. CASE r \in gathering.rows /\ s \in gathering.rows
    BY <2>3 DEF BoardInv, Apart
  <2>. QED  BY <1>2, <2>2, <2>3
<1>5. \A r \in gathering'.rows : ReadOf(r)'
  <2>1. \A r \in gathering'.rows : ReadOf(r)
    BY <1>2, <1>3 DEF BoardInv
  <2>. QED  BY <1>1, <2>1 DEF ReadOf
<1>7. IsFiniteSet(gathering'.rows)
  <2>. DEFINE chosen == {j \in WorkItems :
                TypeOf[j] \in types \cap PageTypes /\ work[j] \in DOMAIN Labels[TypeOf[j]]}
              rowOf == [j \in chosen |-> RowOf(j)]
  <2>1. IsFiniteSet(chosen)
    BY WorkbenchAssumption, FS_Subset
  <2>2. Collected(types) = {RowOf(j) : j \in chosen}
    BY DEF Collected
  <2>. HIDE DEF chosen
  <2>3. rowOf \in Surjection(chosen, Collected(types))
    <3>1. rowOf \in [chosen -> Collected(types)]
      BY <2>2
    <3>2. \A r \in Collected(types) : \E j \in chosen : rowOf[j] = r
      BY <2>2
    <3>. QED  BY <3>1, <3>2 DEF Surjection
  <2>. HIDE DEF rowOf
  <2>4. IsFiniteSet(Collected(types))
    BY <2>1, <2>3, FS_Surjection
  <2>5. IsFiniteSet(read)
    BY <1>6, <2>4, FS_Subset
  <2>6. IsFiniteSet(gathering.rows)
    BY DEF BoardInv
  <2>7. IsFiniteSet(gathering.rows \cup read)
    BY <2>5, <2>6, FS_Union
  <2>. QED  BY <1>2, <2>7
<1>. QED  BY <1>1, <1>4, <1>5, <1>7 DEF BoardInv, WorkTasksShownOnce

\* What the buckets make of rows of different instants.
LEMMA Shown ==
  ASSUME BoardInv, ShowBoard
  PROVE  BoardInv'
<1>. DEFINE rows == gathering.rows
            kept == Deduplicated(rows)
            resume == Latest(Resumable(kept))
            open == {r \in kept : r.label \in {"failed", "to confirm", "processing"}}
            others == open \ resume
<1>1. /\ board' = Buckets(rows) /\ gathering' = NotGathering
      /\ UNCHANGED <<stamp, work, updated, drafting>>
  BY DEF ShowBoard
<1>2. /\ board'.rows = rows /\ board'.resume = resume
      /\ board'.attention = Newest(others, AttentionLimit)
  BY <1>1 DEF Buckets
<1>3. Cardinality(resume) <= 1
  <2>1. /\ Resumable(kept) \subseteq rows
        /\ \A r \in rows : r.at \in Nat
    BY DEF Resumable, Deduplicated, BoardInv, ReadOf
  <2>2. Apart(Resumable(kept))
    BY <2>1 DEF BoardInv, Apart
  <2>. HIDE DEF kept, rows
  <2>. QED  BY <2>1, <2>2, OneLatest
<1>4. \A r \in rows : TypeOf[r.item] = "work_task" /\ r.label \in {"processing", "to confirm"}
                      => r \in others \cup resume
  BY DEF Deduplicated
<1>8. /\ others \in SUBSET rows /\ others \cap resume = {}
      /\ IsFiniteSet(rows) /\ Apart(rows) /\ \A r \in rows : r.at \in Nat
  BY DEF Deduplicated, BoardInv, ReadOf
<1>. HIDE DEF kept, rows, resume, others
<1>9. IsFiniteSet(others) /\ Apart(others) /\ \A r \in others : r.at \in Nat
  BY <1>8, FS_Subset DEF Apart
<1>10. Newest(others, AttentionLimit) \subseteq others
  BY DEF Newest
<1>11. ASSUME NEW r \in board'.rows,
              TypeOf[r.item] = "work_task", r.label \in {"processing", "to confirm"},
              r \notin board'.attention \cup board'.resume
       PROVE  /\ Cardinality(board'.attention) = AttentionLimit
              /\ \A s \in board'.attention : s.at > r.at
  <2>1. r \in others /\ r \notin Newest(others, AttentionLimit) /\ AttentionLimit \in Nat
    BY <1>2, <1>4, <1>11, WorkbenchAssumption
  <2>2. /\ Cardinality(Newest(others, AttentionLimit)) = AttentionLimit
        /\ \A s \in Newest(others, AttentionLimit) : s.at > r.at
    BY <1>9, <2>1, CutIsFull
  <2>. QED  BY <1>2, <2>2
<1>5. WorkTasksShownOnce'
  <2>1. board'.attention \cap board'.resume = {} /\ Cardinality(board'.resume) <= 1
    BY <1>2, <1>3, <1>8, <1>10
  <2>. QED  BY <1>11, <2>1 DEF WorkTasksShownOnce
<1>6. \A r \in gathering'.rows : ReadOf(r)'
  BY <1>1 DEF NotGathering
<1>7. Apart(gathering'.rows)
  BY <1>1 DEF NotGathering, Apart
<1>12. IsFiniteSet(gathering'.rows)
  <2>1. gathering'.rows = {}
    BY <1>1 DEF NotGathering
  <2>. QED  BY <2>1, FS_EmptySet
<1>. QED  BY <1>1, <1>5, <1>6, <1>7, <1>12 DEF BoardInv

\* A step of the drafts, or the opening of a page.
LEMMA NoItemChanges ==
  ASSUME BoardInv, UNCHANGED <<stamp, work, updated, board>>,
         gathering' = gathering \/ gathering'.rows = {}
  PROVE  BoardInv'
BY FS_EmptySet DEF BoardInv, ReadOf, Apart, WorkTasksShownOnce

\* Every step keeps it.
LEMMA WorkbenchStep ==
  ASSUME BoardInv, [WorkbenchNext]_workbenchVars
  PROVE  BoardInv'
<1>1. CASE OpenBoard \/ UNCHANGED workbenchVars
  BY <1>1, NoItemChanges DEF OpenBoard, workbenchVars
<1>2. CASE Gather
  BY <1>2, Gathered
<1>3. CASE ShowBoard
  BY <1>3, Shown
<1>4. ASSUME NEW i \in WorkItems, WorkChanges(i) \/ SaveReport(i)
      PROVE  BoardInv'
  <2>1. PICK end : end # "none" /\ Becomes(i, end)
    BY <1>4 DEF WorkChanges, FollowingStatus, SaveReport
  <2>. QED  BY <1>4, <2>1, ItemChanges DEF WorkChanges, SaveReport
<1>5. ASSUME NEW i \in WorkItems, StoreReport(i)
      PROVE  BoardInv'
  <2>1. CASE Becomes(i, "draft")
    BY <1>5, <2>1, ItemChanges DEF StoreReport
  <2>2. CASE UNCHANGED <<stamp, work, updated>>
    BY <1>5, <2>2, NoItemChanges DEF StoreReport
  <2>. QED  BY <1>5, <2>1, <2>2 DEF StoreReport
<1>6. ASSUME NEW i \in WorkItems, GenerateReport(i) \/ WriteDraft(i)
      PROVE  BoardInv'
  BY <1>6, NoItemChanges DEF GenerateReport, WriteDraft
<1>. QED  BY <1>1, <1>2, <1>3, <1>4, <1>5, <1>6 DEF WorkbenchNext

\* The page is empty.
LEMMA BoardInvInit == WorkbenchInit => BoardInv
<1>. SUFFICES ASSUME WorkbenchInit  PROVE BoardInv
  OBVIOUS
<1>1. board = Nothing /\ board.rows = {} /\ board.resume = {} /\ board.attention = {}
  BY DEF WorkbenchInit, Nothing
<1>2. WorkTasksShownOnce
  BY <1>1, FS_EmptySet DEF WorkTasksShownOnce
<1>. QED  BY <1>2, FS_EmptySet DEF WorkbenchInit, BoardInv, NotGathering, Apart

\* However the work changes while a page is put together, and whatever the limits: it lists
\* each open work task that was read once, or a full list of newer rows, and names at most one
\* thing to go on with.
THEOREM TasksAreShownOnce == WorkbenchSpec => []WorkTasksShownOnce
<1>1. BoardInv => WorkTasksShownOnce
  BY DEF BoardInv
<1>. QED  BY BoardInvInit, <1>1, WorkbenchStep, PTL DEF WorkbenchSpec
================================================================================
