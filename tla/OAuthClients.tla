----------------------------- MODULE OAuthClients -----------------------------
(***************************************************************************)
(* One client of the authorization server, and the people who connect it:  *)
(* its registration, the tenant that claims it, login, consent, and the    *)
(* codes consent gives out.                                                *)
(*                                                                         *)
(*   registry           resolve_client, sync_preconfigured_clients,        *)
(*                      register_dynamic_client, bind_dynamic_client_tenant*)
(*   clients            what metadata and redirect addresses are accepted  *)
(*   cimd               how a client's metadata document is fetched        *)
(*   routes/authorize   authorize, login, consent, logout                  *)
(*   routes/admin_mcp   block and enable                                   *)
(*                                                                         *)
(* A handler is one step, except login: it reads the client before it      *)
(* checks a password and claims the client after it.  An address stands    *)
(* for what the checks tell apart of a redirect URI.                       *)
(***************************************************************************)
EXTENDS Integers

CONSTANTS
  People,
  TenantOf,     \* the tenant whose directory lists a person
  Unbound,      \* UNBOUND_TENANT
  HomeTenant,   \* the tenant operations declare for a pre-registered client
  MaxIdentity,  \* BOUND: values of users.auth_version
  MaxDocument,  \* BOUND: editions of a client's metadata document
  DocumentOf,   \* what each edition says: redirect addresses, scope ({}: not said),
                \* and whether it names the address it is served from
  Asks,         \* authorization requests: an address, a scope ({}: not said)
  DefaultScope  \* OAUTH_DEFAULT_SCOPE, {} when operations do not set it

Tenants == {TenantOf[u] : u \in People}
Sources == {"pre_registered", "cimd", "dcr"}
Scopes == {"read", "propose"}
Addresses == {"https", "loopback", "other port", "custom", "plain http"}

ASSUME OAuthClientsAssumption ==
  /\ Unbound \notin Tenants /\ HomeTenant \in Tenants
  /\ MaxIdentity \in Nat \ {0} /\ MaxDocument \in Nat \ {0}
  /\ DocumentOf \in [1..MaxDocument -> [uris : SUBSET Addresses, scope : SUBSET Scopes, itself : BOOLEAN]]
  /\ Asks \subseteq [uri : Addresses, scope : SUBSET Scopes] /\ DefaultScope \subseteq Scopes

VARIABLES
  source,    \* how the client is registered
  client,    \* its row in oauth_clients
  document,  \* the edition of its metadata document, on its own server
  blocked,   \* tenants whose administrator blocks it
  person,    \* users: auth_version, is_active
  cookie,    \* each browser's session: the auth_version it signed in with, or 0
  page,      \* what each browser shows, and the request it is about
  granted    \* the code each person was given last, with what the consent page said

clientsVars == <<source, client, document, blocked, person, cookie, page, granted>>

NoClient == [tenant |-> Unbound, edition |-> 0, stale |-> FALSE]
\* "signing": a login between its password, of which ident is the memory, and its claim.
Views == {"none", "login", "signing", "consent", "expired", "conflict", "refused", "code"}
NoAsk == [uri |-> "none", scope |-> {}]
\* A page that ends a request: an error, or a redirection.
Page(view) == [view |-> view, ident |-> 0, asks |-> NoAsk, shown |-> {}]
NoCode == [edition |-> 0, asks |-> NoAsk, scope |-> {}, shown |-> {}]

ClientsInit ==
  /\ source \in Sources
  /\ client = NoClient /\ document = 1 /\ blocked = {}
  /\ person = [u \in People |-> [ident |-> 1, active |-> TRUE]]
  /\ cookie = [u \in People |-> 0]
  /\ page = [u \in People |-> Page("none")]
  /\ granted = [u \in People |-> NoCode]

Show(u, view) == page' = [page EXCEPT ![u] = Page(view)]
Form(u, view, ident, asks, shown) ==
  page' = [page EXCEPT ![u] = [view |-> view, ident |-> ident, asks |-> asks, shown |-> shown]]

(***************************************************************************)
(* What a client may say, and what may be asked in its name.               *)
(***************************************************************************)

\* _validate_redirect_uri: https, or http to this machine; no scheme is configured.
AllowedAddress(a) == a \in {"https", "loopback", "other port"}

\* validate_client_metadata
ValidDocument(edition) ==
  /\ DocumentOf[edition].uris # {}
  /\ \A a \in DocumentOf[edition].uris : AllowedAddress(a)

\* redirect_uri_matches: the same address, or this machine whatever the port.
UriMatches(uris, a) == a \in uris \/ (a = "other port" /\ "loopback" \in uris)

\* A self-registered client that names no scope may ask for every one.
ClientScopes(edition) ==
  IF DocumentOf[edition].scope = {} /\ source # "pre_registered" THEN Scopes
  ELSE DocumentOf[edition].scope

\* The scope of a request that names none: a client without a tenant does not get to
\* propose by default.
GrantedScope(tenant, edition, asks) ==
  CASE asks.scope # {} -> asks.scope
    [] asks.scope = {} /\ DefaultScope = {} -> ClientScopes(edition)
    [] OTHER -> ClientScopes(edition) \cap
                (IF tenant = Unbound THEN DefaultScope \ {"propose"} ELSE DefaultScope)

\* _resolve_client_and_redirect and _validate_authorization_request.
ValidRequest(edition, asks) ==
  UriMatches(DocumentOf[edition].uris, asks.uri) /\ asks.scope \subseteq ClientScopes(edition)

(***************************************************************************)
(* The registry.                                                           *)
(***************************************************************************)

Registered == client # NoClient

SaveClient_MovesTenant(row, tenant, edition) ==
  [tenant |-> tenant, edition |-> edition, stale |-> FALSE]

\* save_client: an update leaves the tenant alone, and an update that changes
\* no column is not sent, so it does not move updated_at either.
SaveClient(row, tenant, edition) ==
  IF row = NoClient THEN [tenant |-> tenant, edition |-> edition, stale |-> FALSE]
  ELSE IF row.edition = edition THEN row
  ELSE [row EXCEPT !.edition = edition, !.stale = FALSE]

\* _assert_host_resolves_to_public_ips: every address of the host is public, or the
\* host is one that operations allow by name.
Hosts == {"public", "partly public", "private", "allowed by name", "unknown"}
MayContact(host) == host \in {"public", "allowed by name"}

\* fetch_metadata_document: what comes back. A redirection is not followed.
Replies == {"object", "not an object", "too large", "redirection", "error", "none"}
Fetched(host, reply) == MayContact(host) /\ reply = "object"

\* resolve_cimd_client: a document that says it belongs to another address is nobody's.
Declares(edition) == DocumentOf[edition].itself /\ ValidDocument(edition)

\* resolve_client: the tenant the caller gets to see, and the row it leaves.
\* A document fetched again knows no tenant; a fetch that fails, or brings a
\* document that is not valid, falls back.
Fetches ==
  {[tenant |-> Unbound, row |-> SaveClient(client, Unbound, document)] :
     fetch \in {f \in Hosts \X Replies : Fetched(f[1], f[2]) /\ Declares(document)}}

Resolved ==
  IF Registered /\ client.tenant \in blocked THEN {}
  ELSE IF Registered /\ ~client.stale THEN {[tenant |-> client.tenant, row |-> client]}
  ELSE IF source # "cimd" THEN {}
  ELSE Fetches \cup (IF Registered THEN {[tenant |-> client.tenant, row |-> client]} ELSE {})

ClaimTenant_Overwrites(row, tenant) ==
  IF source \in {"dcr", "cimd"} THEN [row EXCEPT !.tenant = tenant, !.stale = FALSE] ELSE row

\* bind_dynamic_client_tenant: compare and set.
ClaimTenant(row, tenant) ==
  IF source \in {"dcr", "cimd"} /\ row.tenant = Unbound
  THEN [row EXCEPT !.tenant = tenant, !.stale = FALSE] ELSE row

RegisterDynamic ==
  /\ source = "dcr" /\ ~Registered /\ ValidDocument(document)
  /\ client' = SaveClient(NoClient, Unbound, document)
  /\ UNCHANGED <<source, document, blocked, person, cookie, page, granted>>

\* The start of the server.
SyncPreconfigured ==
  /\ source = "pre_registered" /\ ValidDocument(document)
  /\ client' = SaveClient(client, HomeTenant, document)
  /\ client' # client
  /\ UNCHANGED <<source, document, blocked, person, cookie, page, granted>>

(***************************************************************************)
(* Login and consent.                                                      *)
(***************************************************************************)

\* read_session_cookie, then revalidate_session.
SignedIn(u) == cookie[u] = person[u].ident /\ person[u].active

Authorize(u, asks) ==
  /\ page[u].view # "signing"
  /\ \E resolved \in Resolved :
       LET claims == SignedIn(u) /\ resolved.tenant = Unbound
           row == IF claims THEN ClaimTenant(resolved.row, TenantOf[u]) ELSE resolved.row
           tenant == IF claims /\ row.tenant = TenantOf[u] THEN row.tenant ELSE resolved.tenant IN
       IF ~ValidRequest(resolved.row.edition, asks)
       THEN client' = resolved.row /\ Show(u, "refused")
       ELSE /\ client' = row
            /\ IF SignedIn(u) /\ tenant = TenantOf[u]
               THEN Form(u, "consent", 0, asks, GrantedScope(tenant, row.edition, asks))
               ELSE Form(u, "login", 0, asks, {})
  /\ UNCHANGED <<source, document, blocked, person, cookie, granted>>

\* authenticate, in the directory of one tenant: an active user and the password.
Authenticates(u, tenant) == tenant = TenantOf[u] /\ person[u].active

\* _revalidate_form: what a form says again is checked again, against the client there is now.
FormHolds_Trusted(edition, asks) == TRUE
FormHolds(edition, asks) == ValidRequest(edition, asks)

\* authorize_login up to the claim: the directory is the client's tenant, or the
\* one the form names for a client that has none.
Login(u) ==
  /\ page[u].view \in {"login", "expired"}
  /\ \E resolved \in Resolved :
       LET directory == IF resolved.tenant = Unbound THEN TenantOf[u] ELSE resolved.tenant
           knows == Authenticates(u, directory)
           asks == page[u].asks
           scope == GrantedScope(resolved.tenant, resolved.row.edition, asks) IN
       /\ client' = resolved.row
       /\ IF ~FormHolds(resolved.row.edition, asks) THEN Show(u, "refused") /\ UNCHANGED cookie
          ELSE \/ ~knows /\ Form(u, "login", 0, asks, {}) /\ UNCHANGED cookie
               \/ /\ knows /\ resolved.tenant = Unbound
                  /\ Form(u, "signing", person[u].ident, asks, scope) /\ UNCHANGED cookie
               \/ /\ knows /\ resolved.tenant # Unbound
                  /\ Form(u, "consent", 0, asks, scope)
                  /\ cookie' = [cookie EXCEPT ![u] = person[u].ident]
  /\ UNCHANGED <<source, document, blocked, person, granted>>

\* The rest of authorize_login for a client that had no tenant.
LoginClaims(u) ==
  /\ page[u].view = "signing"
  /\ client' = ClaimTenant(client, TenantOf[u])
  /\ IF client'.tenant = TenantOf[u]
     THEN /\ Form(u, "consent", 0, page[u].asks, page[u].shown)
          /\ cookie' = [cookie EXCEPT ![u] = page[u].ident]
     ELSE Show(u, "conflict") /\ UNCHANGED cookie
  /\ UNCHANGED <<source, document, blocked, person, granted>>

Consent(u) ==
  /\ page[u].view = "consent"
  /\ \E resolved \in Resolved :
       LET asks == page[u].asks  edition == resolved.row.edition IN
       /\ client' = resolved.row
       /\ IF ~FormHolds(edition, asks) THEN Show(u, "refused") /\ UNCHANGED granted
          ELSE IF ~SignedIn(u) \/ resolved.tenant # TenantOf[u]
          THEN Form(u, "expired", 0, asks, {}) /\ UNCHANGED granted
          ELSE \/ Show(u, "none") /\ UNCHANGED granted
               \/ /\ Show(u, "code")
                  /\ granted' = [granted EXCEPT ![u] =
                       [edition |-> edition, asks |-> asks, shown |-> page[u].shown,
                        scope |-> GrantedScope(resolved.tenant, edition, asks)]]
  /\ UNCHANGED <<source, document, blocked, person, cookie>>

Logout(u) ==
  /\ page[u].view = "consent"
  /\ \E resolved \in Resolved :
       /\ client' = resolved.row
       /\ IF ~FormHolds(resolved.row.edition, page[u].asks)
          THEN Show(u, "refused") /\ UNCHANGED cookie
          ELSE Form(u, "login", 0, page[u].asks, {}) /\ cookie' = [cookie EXCEPT ![u] = 0]
  /\ UNCHANGED <<source, document, blocked, person, granted>>

(***************************************************************************)
(* Administrators, the directory, the client's own server, the clock.      *)
(***************************************************************************)

\* revoke_client and enable_client, as far as the client itself goes.
BlockClient(tenant) ==
  /\ Registered /\ client.tenant = tenant /\ tenant \notin blocked
  /\ blocked' = blocked \cup {tenant}
  /\ UNCHANGED <<source, client, document, person, cookie, page, granted>>

EnableClient(tenant) ==
  /\ tenant \in blocked
  /\ blocked' = blocked \ {tenant}
  /\ UNCHANGED <<source, client, document, person, cookie, page, granted>>

\* The trigger on users bumps auth_version with the password, role or status.
PersonChanges(u) ==
  /\ person[u].ident < MaxIdentity
  /\ \E active \in BOOLEAN :
       person' = [person EXCEPT ![u] = [ident |-> @.ident + 1, active |-> active]]
  /\ UNCHANGED <<source, client, document, blocked, cookie, page, granted>>

DocumentChanges ==
  /\ source # "dcr" /\ document < MaxDocument
  /\ document' = document + 1
  /\ UNCHANGED <<source, client, blocked, person, cookie, page, granted>>

\* oauth_cimd_cache_ttl_seconds passes since updated_at.
CacheLapses ==
  /\ source = "cimd" /\ Registered /\ ~client.stale
  /\ client' = [client EXCEPT !.stale = TRUE]
  /\ UNCHANGED <<source, document, blocked, person, cookie, page, granted>>

ClientsNext ==
  \/ RegisterDynamic \/ SyncPreconfigured \/ DocumentChanges \/ CacheLapses
  \/ \E u \in People : Login(u) \/ LoginClaims(u) \/ Consent(u) \/ Logout(u) \/ PersonChanges(u)
                       \/ \E asks \in Asks : Authorize(u, asks)
  \/ \E tenant \in Tenants : BlockClient(tenant) \/ EnableClient(tenant)

ClientsSpec == ClientsInit /\ [][ClientsNext]_clientsVars

--------------------------------------------------------------------------------

ClientsTypeOK ==
  /\ source \in Sources
  /\ client \in [tenant : Tenants \cup {Unbound}, edition : 0..MaxDocument, stale : BOOLEAN]
  /\ document \in 1..MaxDocument
  /\ blocked \subseteq Tenants
  /\ \A u \in People : /\ granted[u].edition \in 0..MaxDocument
                       /\ {granted[u].asks, page[u].asks} \subseteq Asks \cup {NoAsk}
                       /\ page[u].view \in Views /\ page[u].ident \in 0..MaxIdentity
  /\ person \in [People -> [ident : 1..MaxIdentity, active : BOOLEAN]]
  /\ cookie \in [People -> 0..MaxIdentity]

\* Codes for a client go to people of one tenant, the one that claimed it, to an
\* address and for a scope that the client had registered when the code was given,
\* even when people of two tenants log in to it at once, when its document is
\* fetched again, or when its configuration is synchronised again.
GrantsFollowBinding ==
  \A u \in People : granted[u] # NoCode =>
    /\ client.tenant = TenantOf[u]
    /\ UriMatches(DocumentOf[granted[u].edition].uris, granted[u].asks.uri)
    /\ granted[u].scope \subseteq ClientScopes(granted[u].edition)

\* "The right to write must be chosen by the user on the authorization page"
\* (_validate_authorization_request): a code is for no more than its page said.
GrantedAsShown == \A u \in People : granted[u].scope \subseteq granted[u].shown
================================================================================
