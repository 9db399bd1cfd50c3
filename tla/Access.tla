--------------------------------- MODULE Access ---------------------------------
(***************************************************************************)
(* Who may do what over the REST API, and the administration of it.        *)
(*                                                                         *)
(*   routes/auth          login, refresh and the profile                   *)
(*   access/tokens, middleware/auth, rbac, decorators    a request's role  *)
(*   routes/admin_users   manager scopes, work without an owner            *)
(*                                                                         *)
(* An access token carries the role its user had when it was issued; the   *)
(* roles themselves change in the database, outside this code.             *)
(* Production: no development users.  A database that does not answer only *)
(* refuses.  A transaction of an administrator holds row locks until it    *)
(* commits, at READ COMMITTED.                                             *)
(***************************************************************************)
EXTENDS Integers, FiniteSets

CONSTANTS
  Users,           \* people who sign in: administrators, at first
  ScopedManagers,  \* HR managers: who can be given a scope, and unowned work
  NewRoles,        \* what a change may make of an administrator
  OrgUnits,
  LegacyWork,      \* rows without an owner
  AccessLife,      \* ticks an access token lives
  RefreshLife,     \* ticks a refresh token lives
  MaxClock,        \* BOUND: ticks
  MaxChanges       \* BOUND: changes of a role

Roles == {"employee", "hrbp", "hr_manager", "admin"}
NoUser == "no user"

ASSUME AccessAssumption ==
  /\ NewRoles \subseteq Roles \cup {"inactive"} /\ NoUser \notin ScopedManagers
  /\ {AccessLife, RefreshLife, MaxClock, MaxChanges} \subseteq Nat

VARIABLES
  clock,
  role,       \* users.role, or "inactive"
  heldUntil,  \* history: when each user last had each role, -1 for never
  session,    \* what each user's browser holds: role, until, renewable until
  served,     \* history: how long ago the role of a served request had been lost
  orgScopes,  \* manager_org_scopes: <<manager, unit>>
  owner,      \* created_by of the legacy work, or NoUser
  claims,     \* audit: legacy_work.claimed, <<work, owner>>
  scopeTx,    \* the transaction each administrator has open
  changes

accessVars == <<clock, role, heldUntil, session, served, orgScopes, owner, claims, scopeTx, changes>>
peopleVars == <<role, heldUntil, changes>>
workVars == <<orgScopes, owner, claims, scopeTx>>

NoSession == [role |-> "none", until |-> -1, renewable |-> -1]
NoTransaction == [at |-> "none"]

AccessInit ==
  /\ clock = 0 /\ role = [u \in Users |-> "admin"] /\ changes = 0
  /\ heldUntil = [u \in Users |-> [r \in Roles |-> IF r = "admin" THEN 0 ELSE -1]]
  /\ session = [u \in Users |-> NoSession] /\ served = {}
  /\ orgScopes = {}
  /\ owner = [w \in LegacyWork |-> NoUser] /\ claims = {}
  /\ scopeTx = [u \in Users |-> NoTransaction]

(***************************************************************************)
(* Signing in.                                                             *)
(***************************************************************************)

\* An access token of this role, and a refresh token that names no role.
TokensFor(r) == [role |-> r, until |-> clock + AccessLife, renewable |-> clock + RefreshLife]

\* login: the password of an active user.
SignIn(u) ==
  /\ role[u] # "inactive"
  /\ session' = [session EXCEPT ![u] = TokensFor(role[u])]
  /\ UNCHANGED <<clock, served>> /\ UNCHANGED peopleVars /\ UNCHANGED workVars

\* refresh reads the user again, whatever the access token says.
RefreshRole_OfToken(u) == session[u].role
RefreshRole(u) == role[u]

Refresh(u) ==
  /\ session[u].renewable > clock /\ role[u] # "inactive"
  /\ session' = [session EXCEPT ![u] = TokensFor(RefreshRole(u))]
  /\ UNCHANGED <<clock, served>> /\ UNCHANGED peopleVars /\ UNCHANGED workVars

(***************************************************************************)
(* A request: the token's role, then the route's capability.               *)
(***************************************************************************)

CapabilitiesOf(r) ==
  CASE r = "employee"   -> {"policy_qa", "employee_request"}
    [] r = "hrbp"       -> {"policy_qa", "hr_case"}
    [] r = "hr_manager" -> {"policy_qa", "hr_case", "knowledge_feedback"}
    [] r = "admin"      -> {"user_admin", "kb_management"}

\* read_access_claims: the signature and the expiry, no look at the database.
Authenticated(u) == session[u].until > clock

Allowed(u, capability) == Authenticated(u) /\ capability \in CapabilitiesOf(session[u].role)

LostFor(u) ==
  IF role[u] = session[u].role THEN 0 ELSE clock - heldUntil[u][session[u].role]

Serves(u) == served' = served \cup {LostFor(u)}

\* Any route that only reads.
Request(u) ==
  /\ \E capability \in {"policy_qa", "hr_case", "user_admin"} : Allowed(u, capability)
  /\ Serves(u)
  /\ UNCHANGED <<clock, session>> /\ UNCHANGED peopleVars /\ UNCHANGED workVars

(***************************************************************************)
(* routes/admin_users.                                                     *)
(***************************************************************************)

ScopesBegin(u) == scopeTx[u] = NoTransaction /\ Allowed(u, "user_admin") /\ Serves(u)
ScopesHeld(u, at) == scopeTx[u].at = at
Continues(u, next) == scopeTx' = [scopeTx EXCEPT ![u] = next]

\* replace_manager_scopes: the DELETE takes its snapshot, ...
ScopesDelete(u, m, units) ==
  /\ ScopesBegin(u)
  /\ Continues(u, [at |-> "delete", manager |-> m, units |-> units,
                   sees |-> {s \in orgScopes : s[1] = m}])
  /\ UNCHANGED <<clock, session, orgScopes, owner, claims>> /\ UNCHANGED peopleVars

Uncommitted(u, field) ==
  UNION {scopeTx[v][field] : v \in {v \in Users \ {u} : scopeTx[v].at \in {"insert", "commit"}}}

\* ... waits for the rows another transaction deletes, and skips those it did; ...
ScopesDeleted(u) ==
  /\ ScopesHeld(u, "delete") /\ scopeTx[u].sees \cap Uncommitted(u, "deletes") = {}
  /\ Continues(u, [at |-> "insert", manager |-> scopeTx[u].manager, units |-> scopeTx[u].units,
                   deletes |-> scopeTx[u].sees \cap orgScopes, inserts |-> {}])
  /\ UNCHANGED <<clock, session, served, orgScopes, owner, claims>> /\ UNCHANGED peopleVars

\* ... the rows are inserted, unless one of them is there: the request fails; ...
ScopesInsert(u) ==
  LET rows == {scopeTx[u].manager} \X scopeTx[u].units IN
  /\ ScopesHeld(u, "insert") /\ rows \cap Uncommitted(u, "inserts") = {}
  /\ rows \cap Uncommitted(u, "deletes") = {}
  /\ Continues(u, IF rows \cap (orgScopes \ scopeTx[u].deletes) # {} THEN NoTransaction
                  ELSE [scopeTx[u] EXCEPT !.at = "commit", !.inserts = rows])
  /\ UNCHANGED <<clock, session, served, orgScopes, owner, claims>> /\ UNCHANGED peopleVars

\* ... and the scope is the new one, with what another replacement inserted meanwhile.
ScopesCommit(u) ==
  /\ ScopesHeld(u, "commit")
  /\ orgScopes' = (orgScopes \ scopeTx[u].deletes) \cup scopeTx[u].inserts
  /\ Continues(u, NoTransaction)
  /\ UNCHANGED <<clock, session, served, owner, claims>> /\ UNCHANGED peopleVars

\* claim_legacy_work reads the person and finds the row, ...
ReadLegacy(u, w, m) ==
  /\ ScopesBegin(u)
  /\ Continues(u, [at |-> "claim", work |-> w, for |-> m])
  /\ UNCHANGED <<clock, session, orgScopes, owner, claims>> /\ UNCHANGED peopleVars

Unclaimed(t) == owner[t.work] = NoUser

\* ... then updates the row where it still has no owner, and audits that; or refuses.
ClaimLegacy(u) ==
  /\ ScopesHeld(u, "claim")
  /\ LET t == scopeTx[u] IN
       IF Unclaimed(t)
       THEN owner' = [owner EXCEPT ![t.work] = t.for] /\ claims' = claims \cup {<<t.work, t.for>>}
       ELSE UNCHANGED <<owner, claims>>
  /\ Continues(u, NoTransaction)
  /\ UNCHANGED <<clock, session, served, orgScopes>> /\ UNCHANGED peopleVars

(***************************************************************************)
(* Outside.                                                                *)
(***************************************************************************)

\* The role of a user is changed in the database, or the user deactivated.
ChangeRole(u, r) ==
  /\ changes < MaxChanges /\ r # role[u]
  /\ role' = [role EXCEPT ![u] = r] /\ changes' = changes + 1
  /\ heldUntil' = [heldUntil EXCEPT ![u] =
       [s \in Roles |-> IF s \in {r, role[u]} THEN clock ELSE heldUntil[u][s]]]
  /\ UNCHANGED <<clock, session, served>> /\ UNCHANGED workVars

ClockTick ==
  /\ clock < MaxClock /\ clock' = clock + 1
  /\ UNCHANGED <<session, served>> /\ UNCHANGED peopleVars /\ UNCHANGED workVars

AccessNext ==
  \/ ClockTick
  \/ \E u \in Users :
       \/ SignIn(u) \/ Refresh(u) \/ Request(u)
       \/ ScopesDeleted(u) \/ ScopesInsert(u) \/ ScopesCommit(u) \/ ClaimLegacy(u)
       \/ \E r \in NewRoles : ChangeRole(u, r)
       \/ \E m \in ScopedManagers : \/ \E units \in SUBSET OrgUnits : ScopesDelete(u, m, units)
                              \/ \E w \in LegacyWork : ReadLegacy(u, w, m)

AccessSpec == AccessInit /\ [][AccessNext]_accessVars
--------------------------------------------------------------------------------

AccessTypeOK ==
  /\ clock \in 0..MaxClock /\ role \in [Users -> Roles \cup {"inactive"}] /\ changes \in 0..MaxChanges
  /\ heldUntil \in [Users -> [Roles -> -1..MaxClock]]
  /\ \A u \in Users : session[u].role \in Roles \cup {"none"}
  /\ orgScopes \subseteq ScopedManagers \X OrgUnits
  /\ owner \in [LegacyWork -> ScopedManagers \cup {NoUser}] /\ claims \subseteq LegacyWork \X ScopedManagers
  /\ \A u \in Users : scopeTx[u].at \in {"none", "delete", "insert", "commit", "claim"}

\* A role that was taken away opens no route for longer than an access token lives,
\* however often its user's tokens are refreshed in between.
RoleLossTakesEffect == \A late \in served : late < AccessLife
================================================================================
