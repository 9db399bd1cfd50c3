----------------------------- MODULE DataSources ------------------------------
(***************************************************************************)
(* One data source (a connected enterprise platform) and the requests of   *)
(* administrators that change its row: registration, pause and resume,     *)
(* revocation, the OAuth round trip with the platform, and its sync.       *)
(*                                                                         *)
(*   data_source/service   the handlers                                    *)
(*   connectors/runner     the sync behind its advisory lock               *)
(*   connectors/sync       mark_sync_ok, mark_sync_failed                  *)
(*                                                                         *)
(* Most handlers read the row without a lock and write it back; the write  *)
(* holds the columns whose value they changed and no others (ModifiedIn).  *)
(***************************************************************************)
EXTENDS Integers, Sequences

CONSTANTS
  Admins,    \* concurrent requests
  MaxStates  \* BOUND: OAuth round trips started

ASSUME DataSourcesAssumption == MaxStates \in Nat

VARIABLES
  row,     \* the row of data_sources
  states,  \* oauth_nonces: one per round trip
  admin    \* where each request stands

sourceVars == <<row, states, admin>>

OAuthState == {"none", "pending", "connected", "revoked"}
SyncStatus == {"never_run", "ok", "failed", "paused"}
SourceRow == [exists : BOOLEAN, credential : BOOLEAN, callback : BOOLEAN, tokens : BOOLEAN,
        oauth : OAuthState, paused : BOOLEAN, sync : SyncStatus, revoked : BOOLEAN]
NoRow == [exists |-> FALSE, credential |-> FALSE, callback |-> FALSE, tokens |-> FALSE,
          oauth |-> "none", paused |-> FALSE, sync |-> "never_run", revoked |-> FALSE]
\* "deleted" by a revocation; exchanged counts codes sent to the platform.
State == [status : {"fresh", "consumed", "lapsed", "deleted"}, exchanged : 0..2]

Free == [at |-> "free"]
AdminGoes(p, where) == admin' = [admin EXCEPT ![p] = where]

SourceInit == row = NoRow /\ states = <<>> /\ admin = [p \in Admins |-> Free]

\* What a session writes: the columns it changed, over the row as it is now.
ModifiedIn(read, wanted) ==
  [c \in DOMAIN row |-> IF wanted[c] = read[c] THEN row[c] ELSE wanted[c]]

\* create_data_source, with or without the application's credential.
Create ==
  /\ ~row.exists
  /\ \E credential \in BOOLEAN : row' = [NoRow EXCEPT !.exists = TRUE, !.credential = credential]
  /\ UNCHANGED <<states, admin>>

(***************************************************************************)
(* The handlers that read, then write.                                     *)
(***************************************************************************)

ReadWrites == {"pause", "resume", "revoke", "start"}

\* What a handler refuses when it reads the row.
Accepts(op, r) ==
  /\ r.exists
  /\ op = "resume" => ~r.revoked
  /\ op = "start" => ~r.revoked /\ r.credential

\* pause_data_source, resume_data_source, revoke_data_source, start_oauth.
Wanted(op, r) ==
  CASE op = "pause"  -> [r EXCEPT !.paused = TRUE, !.sync = "paused"]
    [] op = "resume" -> [r EXCEPT !.paused = FALSE, !.sync = IF @ = "paused" THEN "never_run" ELSE @]
    [] op = "revoke" -> [r EXCEPT !.paused = TRUE, !.sync = "paused", !.revoked = TRUE,
                                  !.credential = FALSE, !.callback = FALSE, !.tokens = FALSE,
                                  !.oauth = "revoked"]
    [] op = "start"  -> [r EXCEPT !.oauth = "pending"]

\* The first reading of a revocation, and its call to the platform, which is told
\* to forget the tokens there were, and may not answer.
TellPlatform(p) ==
  /\ admin[p] = Free /\ row.exists
  /\ AdminGoes(p, [at |-> "tell"])
  /\ UNCHANGED <<row, states>>

\* The reading of a handler, for a revocation its second one.
AdminBegins(p, op) ==
  /\ admin[p] = IF op = "revoke" THEN [at |-> "tell"] ELSE Free
  /\ Accepts(op, row)
  /\ op = "start" => Len(states) < MaxStates
  /\ AdminGoes(p, [at |-> op, read |-> row])
  /\ UNCHANGED <<row, states>>

Commits(p) ==
  /\ admin[p].at \in ReadWrites
  /\ LET op == admin[p].at  read == admin[p].read IN
       /\ row' = ModifiedIn(read, Wanted(op, read))
       /\ \/ op = "start" /\ Len(states) < MaxStates
             /\ states' = Append(states, [status |-> "fresh", exchanged |-> 0])
          \/ op = "revoke"
             /\ states' = [n \in DOMAIN states |-> [states[n] EXCEPT !.status = "deleted"]]
          \/ op \in {"pause", "resume"} /\ UNCHANGED states
  /\ AdminGoes(p, Free)

\* configure_wecom_callback holds the row locked from its reading on.
ConfigureCallback ==
  /\ row.exists /\ ~row.revoked
  /\ row' = [row EXCEPT !.callback = TRUE]
  /\ UNCHANGED <<states, admin>>

(***************************************************************************)
(* complete_oauth.                                                         *)
(***************************************************************************)

\* The row and the nonce are read; an expired one is burnt.
PresentState(p, n) ==
  /\ admin[p] = Free /\ ~row.revoked
  /\ \/ /\ states[n].status = "fresh"
        /\ AdminGoes(p, [at |-> "consume", of |-> n, credential |-> row.credential])
        /\ UNCHANGED states
     \/ /\ states[n].status = "lapsed"
        /\ states' = [states EXCEPT ![n].status = "consumed"]
        /\ UNCHANGED admin
  /\ UNCHANGED row

StillFresh_AsRead(n) == TRUE
\* UPDATE ... WHERE consumed_at IS NULL AND expires_at >= now
StillFresh(n) == states[n].status = "fresh"

ConsumeState(p) ==
  /\ admin[p].at = "consume"
  /\ LET n == admin[p].of IN
       IF StillFresh(n)
       THEN /\ states' = [states EXCEPT ![n].status = "consumed"]
            /\ AdminGoes(p, IF admin[p].credential THEN [at |-> "exchange", of |-> n] ELSE Free)
       ELSE AdminGoes(p, Free) /\ UNCHANGED states
  /\ UNCHANGED row

\* exchange_code: the platform gives tokens, or does not.
Exchange(p) ==
  /\ admin[p].at = "exchange"
  /\ states' = [states EXCEPT ![admin[p].of].exchanged = @ + 1]
  /\ AdminGoes(p, [at |-> "connect"]) \/ AdminGoes(p, Free)
  /\ UNCHANGED row

\* UPDATE ... WHERE oauth_state = 'pending' AND revoked_at IS NULL AND NOT paused
Connectable == row.oauth = "pending" /\ ~row.revoked /\ ~row.paused

Connect(p) ==
  /\ admin[p].at = "connect"
  /\ row' = IF Connectable THEN [row EXCEPT !.oauth = "connected", !.tokens = TRUE] ELSE row
  /\ AdminGoes(p, Free)
  /\ UNCHANGED states

StateLapses(n) ==
  /\ states[n].status = "fresh"
  /\ states' = [states EXCEPT ![n].status = "lapsed"]
  /\ UNCHANGED <<row, admin>>

(***************************************************************************)
(* trigger_sync and run_connector_sync; Intake says what a sync consumes.  *)
(***************************************************************************)

Syncing == \E p \in Admins : admin[p].at = "sync"

\* The advisory lock is tried, never waited for.
TriggerSync(p) ==
  /\ admin[p] = Free
  /\ row.exists /\ ~row.revoked /\ ~row.paused /\ row.oauth = "connected"
  /\ ~Syncing
  /\ AdminGoes(p, [at |-> "sync"])
  /\ UNCHANGED <<row, states>>

\* mark_sync_ok and mark_sync_failed, which does not look at paused.
SyncEnds(p) ==
  /\ admin[p].at = "sync"
  /\ \/ row' = IF row.revoked \/ row.paused THEN row ELSE [row EXCEPT !.sync = "ok"]
     \/ row' = IF row.revoked THEN row ELSE [row EXCEPT !.sync = "failed"]
  /\ AdminGoes(p, Free)
  /\ UNCHANGED states

SourceNext ==
  \/ Create \/ ConfigureCallback
  \/ \E n \in DOMAIN states : StateLapses(n)
  \/ \E p \in Admins :
       \/ Commits(p) \/ ConsumeState(p) \/ Exchange(p) \/ Connect(p)
       \/ TellPlatform(p) \/ TriggerSync(p) \/ SyncEnds(p)
       \/ \E op \in ReadWrites : AdminBegins(p, op)
       \/ \E n \in DOMAIN states : PresentState(p, n)

SourceSpec == SourceInit /\ [][SourceNext]_sourceVars
--------------------------------------------------------------------------------

SourceTypeOK ==
  /\ row \in SourceRow
  /\ states \in Seq(State) /\ Len(states) <= MaxStates
  /\ \A p \in Admins :
       admin[p].at \in ReadWrites \cup {"free", "tell", "consume", "exchange", "connect", "sync"}

\* A state parameter is good for one code, however many callbacks bring it at once.
OneExchangePerState == \A n \in DOMAIN states : states[n].exchanged <= 1
================================================================================
