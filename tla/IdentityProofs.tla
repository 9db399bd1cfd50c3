---------------------------- MODULE IdentityProofs -----------------------------
(***************************************************************************)
(* Who may come in, and how often: what holds of the parts of MC_Identity  *)
(* for every number of people, requests, servers and calls.  One section   *)
(* for each part, and one for what the seven of them keep; the tokens have *)
(* OAuthTokensProofs.                                                      *)
(*                                                                         *)
(*   OAuthClients  codes follow the binding of their client                *)
(*   SigningKeys   a rotation costs requests that overtake an answer       *)
(*   DataSources   a state is exchanged for one code                       *)
(*   Access        a role that is lost opens nothing for long              *)
(*   McpCalls      an approval that a tool asked for has its audit row     *)
(*   Limits        no window lets more calls through than its limit        *)
(***************************************************************************)
EXTENDS MC_Identity, OAuthTokensProofs, SequenceTheorems, FiniteSetTheorems, TLAPS

--------------------------------------------------------------------------------
(***************************************************************************)
(* OAuthClients.                                                           *)
(***************************************************************************)

\* The row of the client.
ClientRow == [tenant : Tenants \cup {Unbound}, edition : 0..MaxDocument, stale : BOOLEAN]

\* A code is for an address and a scope of the edition it was given for.
CodeFits(code) ==
  /\ UriMatches(DocumentOf[code.edition].uris, code.asks.uri)
  /\ code.scope \subseteq ClientScopes(code.edition)

\* Who holds a code belongs to the tenant of the row, and the code fits it.
ClientsInv ==
  /\ client \in ClientRow /\ document \in 1..MaxDocument /\ DOMAIN granted = People
  /\ \A u \in People : granted[u] # NoCode => client.tenant = TenantOf[u] /\ CodeFits(granted[u])

\* What may become of the row: its tenant is written once.
RowAfter(new) == new \in ClientRow /\ (client.tenant # Unbound => new.tenant = client.tenant)

\* A tenant whose directory lists somebody.
LEMMA PeopleHaveTenants == \A u \in People : TenantOf[u] \in Tenants /\ TenantOf[u] # Unbound
BY OAuthClientsAssumption DEF Tenants

\* The writes of the registry keep a tenant that is written.
LEMMA RowsKeepTenant ==
  ASSUME client \in ClientRow, document \in 1..MaxDocument
  PROVE  /\ RowAfter(client) /\ RowAfter([client EXCEPT !.stale = TRUE])
         /\ \A t \in Tenants \cup {Unbound} : RowAfter(SaveClient(client, t, document))
         /\ client = NoClient => \A t \in Tenants \cup {Unbound} : RowAfter(SaveClient(NoClient, t, document))
<1>1. document \in 0..MaxDocument /\ client.tenant \in Tenants \cup {Unbound}
  BY DEF ClientRow
<1>2. RowAfter(client) /\ RowAfter([client EXCEPT !.stale = TRUE])
  BY DEF RowAfter, ClientRow
<1>3. ASSUME NEW t \in Tenants \cup {Unbound}
      PROVE  RowAfter(SaveClient(client, t, document))
  <2>1. [client EXCEPT !.edition = document, !.stale = FALSE] \in ClientRow
        /\ [client EXCEPT !.edition = document, !.stale = FALSE].tenant = client.tenant
    BY <1>1 DEF ClientRow
  <2>2. [tenant |-> t, edition |-> document, stale |-> FALSE] \in ClientRow
    BY <1>1 DEF ClientRow
  <2>3. client = NoClient => client.tenant = Unbound
    BY DEF NoClient
  <2>. QED  BY <1>2, <2>1, <2>2, <2>3 DEF RowAfter, SaveClient
<1>. QED  BY <1>2, <1>3

\* A claim writes the tenant of a client that has none.
LEMMA ClaimKeepsTenant ==
  ASSUME NEW new, RowAfter(new), NEW tenant \in Tenants
  PROVE  RowAfter(ClaimTenant(new, tenant))
BY DEF RowAfter, ClaimTenant, ClientRow

\* What resolve_client gives a caller: a tenant of somebody only for the row there is.
LEMMA ResolvedRows ==
  ASSUME client \in ClientRow, document \in 1..MaxDocument, NEW r \in Resolved
  PROVE  /\ RowAfter(r.row)
         /\ r.tenant \in Tenants => r.row = client /\ r.tenant = client.tenant
<1>1. r = [tenant |-> client.tenant, row |-> client] \/ r \in Fetches
  BY DEF Resolved
<1>2. r \in Fetches => r = [tenant |-> Unbound, row |-> SaveClient(client, Unbound, document)]
  BY DEF Fetches
<1>3. Unbound \notin Tenants
  BY OAuthClientsAssumption
<1>. QED  BY <1>1, <1>2, <1>3, RowsKeepTenant

\* The scope of a valid request is one the client may have.
LEMMA GrantedScopeFits ==
  ASSUME NEW tenant, NEW edition, NEW asks, ValidRequest(edition, asks)
  PROVE  GrantedScope(tenant, edition, asks) \subseteq ClientScopes(edition)
BY DEF ValidRequest, GrantedScope

\* Codes stay good while the row keeps its tenant.
LEMMA CodesStay ==
  ASSUME ClientsInv, RowAfter(client'), UNCHANGED source, document' \in 1..MaxDocument,
         UNCHANGED granted
  PROVE  ClientsInv'
<1>1. \A code : CodeFits(code)' <=> CodeFits(code)
  BY DEF CodeFits, UriMatches, ClientScopes
<1>. QED  BY <1>1, PeopleHaveTenants DEF ClientsInv, RowAfter

\* Every step keeps it.
LEMMA ClientsStep ==
  ASSUME ClientsInv, [ClientsNext]_clientsVars
  PROVE  ClientsInv'
<1>0. /\ client \in ClientRow /\ document \in 1..MaxDocument /\ DOMAIN granted = People
      /\ HomeTenant \in Tenants /\ RowAfter(client)
  BY RowsKeepTenant, OAuthClientsAssumption DEF ClientsInv
<1>1. CASE RegisterDynamic \/ SyncPreconfigured \/ CacheLapses
  <2>1. RowAfter(client')
    BY <1>0, <1>1, RowsKeepTenant DEF RegisterDynamic, SyncPreconfigured, CacheLapses, Registered
  <2>. QED  BY <1>0, <1>1, <2>1, CodesStay DEF RegisterDynamic, SyncPreconfigured, CacheLapses
<1>2. CASE DocumentChanges
  <2>1. document' \in 1..MaxDocument
    BY <1>0, <1>2, OAuthClientsAssumption DEF DocumentChanges
  <2>. QED  BY <1>0, <1>2, <2>1, CodesStay DEF DocumentChanges
<1>3. ASSUME NEW u \in People, NEW asks \in Asks, Authorize(u, asks)
      PROVE  ClientsInv'
  <2>1. PICK r \in Resolved : client' \in {r.row, ClaimTenant(r.row, TenantOf[u])}
    BY <1>3 DEF Authorize
  <2>2. RowAfter(client')
    BY <1>0, <2>1, ResolvedRows, ClaimKeepsTenant, PeopleHaveTenants
  <2>. QED  BY <1>0, <1>3, <2>2, CodesStay DEF Authorize
<1>4. ASSUME NEW u \in People, Login(u) \/ Logout(u)
      PROVE  ClientsInv'
  <2>1. PICK r \in Resolved : client' = r.row
    BY <1>4 DEF Login, Logout
  <2>2. RowAfter(client')
    BY <1>0, <2>1, ResolvedRows
  <2>. QED  BY <1>0, <1>4, <2>2, CodesStay DEF Login, Logout
<1>5. ASSUME NEW u \in People, LoginClaims(u)
      PROVE  ClientsInv'
  BY <1>0, <1>5, ClaimKeepsTenant, PeopleHaveTenants, CodesStay DEF LoginClaims
<1>6. ASSUME NEW u \in People, Consent(u)
      PROVE  ClientsInv'
  <2>1. PICK r \in Resolved :
          /\ client' = r.row
          /\ \/ UNCHANGED granted
             \/ /\ FormHolds(r.row.edition, page[u].asks) /\ r.tenant = TenantOf[u]
                /\ granted' = [granted EXCEPT ![u] =
                     [edition |-> r.row.edition, asks |-> page[u].asks, shown |-> page[u].shown,
                      scope |-> GrantedScope(r.tenant, r.row.edition, page[u].asks)]]
    BY <1>6 DEF Consent
  <2>2. RowAfter(client') /\ UNCHANGED <<source, document>>
    BY <1>0, <1>6, <2>1, ResolvedRows DEF Consent
  <2>3. CASE UNCHANGED granted
    BY <1>0, <2>2, <2>3, CodesStay
  <2>4. CASE granted' # granted
    <3>. DEFINE code == [edition |-> r.row.edition, asks |-> page[u].asks, shown |-> page[u].shown,
                         scope |-> GrantedScope(r.tenant, r.row.edition, page[u].asks)]
    <3>1. /\ FormHolds(r.row.edition, page[u].asks) /\ r.tenant = TenantOf[u]
          /\ granted' = [granted EXCEPT ![u] = code]
      BY <2>1, <2>4
    <3>2. CodeFits(code)
      BY <3>1, GrantedScopeFits DEF FormHolds, ValidRequest, CodeFits
    <3>3. client' = client /\ client.tenant = TenantOf[u]
      BY <1>0, <2>1, <3>1, ResolvedRows, PeopleHaveTenants
    <3>. HIDE DEF code
    <3>4. \A c : CodeFits(c)' <=> CodeFits(c)
      BY <2>2 DEF CodeFits, UriMatches, ClientScopes
    <3>5. \A v \in People : granted'[v] = IF v = u THEN code ELSE granted[v]
      BY <1>0, <3>1
    <3>6. DOMAIN granted' = People
      BY <1>0, <3>1
    <3>7. \A v \in People : granted'[v] # NoCode => client'.tenant = TenantOf[v] /\ CodeFits(granted'[v])
      BY <3>2, <3>3, <3>5 DEF ClientsInv
    <3>. QED  BY <1>0, <2>2, <3>3, <3>4, <3>6, <3>7 DEF ClientsInv, NoCode, NoAsk
  <2>. QED  BY <2>3, <2>4
<1>7. ASSUME NEW u \in People, PersonChanges(u)
      PROVE  ClientsInv'
  BY <1>0, <1>7, CodesStay DEF PersonChanges
<1>8. ASSUME NEW tenant \in Tenants, BlockClient(tenant) \/ EnableClient(tenant)
      PROVE  ClientsInv'
  BY <1>0, <1>8, CodesStay DEF BlockClient, EnableClient
<1>9. CASE UNCHANGED clientsVars
  BY <1>0, <1>9, CodesStay DEF clientsVars
<1>. QED  BY <1>1, <1>2, <1>3, <1>4, <1>5, <1>6, <1>7, <1>8, <1>9 DEF ClientsNext

\* However the binding of a client, its document and the consent pages of several
\* people interleave: a code is for a person of the tenant the client is bound to,
\* for an address and a scope of the document it was given for.
THEOREM GrantsHold == ClientsSpec => []GrantsFollowBinding
<1>1. ClientsInit => ClientsInv
  BY OAuthClientsAssumption DEF ClientsInit, ClientsInv, ClientRow, NoClient
<1>2. ClientsInv => GrantsFollowBinding
  BY DEF ClientsInv, CodeFits, GrantsFollowBinding
<1>. QED  BY <1>1, <1>2, ClientsStep, PTL DEF ClientsSpec

--------------------------------------------------------------------------------
(***************************************************************************)
(* SigningKeys.  A request that waits for its refresh has not missed its   *)
(* key: neither an answer that came since it began to wait nor one still   *)
(* on its way lacks the key, unless that answer overtook it or the key was *)
(* withdrawn.                                                              *)
(***************************************************************************)

\* A request that began with a key finds it published, or the key was withdrawn.
KeyKnown(r) == r.kid \in Published \/ r.retired

\* A set of keys that holds nothing against a request, if it is a document at all.
HasKey(r, keys) == keys = {} \/ r.kid \in keys \/ r.retired \/ r.overtaken

\* What holds of a request: what was fetched since its refresh began, or is being
\* fetched, has its key; and it fails only for a reason of its own.
KeyRequestOK(r) ==
  /\ r.at # "idle" => KeyKnown(r)
  /\ r.at \in {"lock", "fetch"} /\ r.refresh => HasKey(r, answer)
  /\ r.at = "lock" /\ r.refresh /\ r.fresh => HasKey(r, cache)
  /\ r.at = "malformed" => r.unlucky \/ r.retired \/ r.overtaken

\* The invariant of the keys.
KeysInv == KeysTypeOK /\ \A v \in Verifiers : KeyRequestOK(verifier[v])

\* Using keys among which the token's is leads to no refusal.
LEMMA UseOfKnownKeys ==
  ASSUME NEW r \in Verifier, NEW keys, NEW coming
  PROVE  LET u == Use(r, keys, coming) IN
         /\ u \in Verifier
         /\ u.kid = r.kid /\ u.retired = r.retired /\ u.unlucky = r.unlucky
         /\ u.at \in {"ok", "malformed", "lock"}
         /\ u.at = "lock" => ~u.fresh /\ HasKey(u, coming)
         /\ u.at = "malformed" => /\ r.kid \notin keys /\ (r.refresh \/ keys = {})
                                 /\ u.overtaken = r.overtaken
<1>1. CASE r.kid \in keys \/ r.refresh \/ keys = {}
  BY <1>1 DEF Use, Verifier, KeyWaits
<1>2. CASE ~(r.kid \in keys \/ r.refresh \/ keys = {})
  <2>. DEFINE b == coming # {} /\ r.kid \notin coming
              u == [r EXCEPT !.at = "lock", !.refresh = TRUE, !.fresh = FALSE, !.overtaken = b]
  <2>1. b \in BOOLEAN /\ (~b => coming = {} \/ r.kid \in coming)
    OBVIOUS
  <2>2. Use(r, keys, coming) = u
    BY <1>2 DEF Use
  <2>. HIDE DEF b
  <2>3. /\ u \in Verifier /\ u.at = "lock" /\ u.kid = r.kid /\ u.retired = r.retired
        /\ u.unlucky = r.unlucky /\ u.fresh = FALSE /\ u.overtaken = b
    BY <2>1 DEF Verifier, KeyWaits
  <2>. QED  BY <2>1, <2>2, <2>3 DEF HasKey
<1>. QED  BY <1>1, <1>2

\* A request that has not come yet.
LEMMA NotStartedFits == /\ NotStarted \in Verifier
                        /\ NotStarted.at = "idle" /\ NotStarted.fresh = FALSE
                        /\ NotStarted.refresh = FALSE /\ NotStarted.overtaken = FALSE
BY SigningKeysAssumption DEF NotStarted, Verifier, KeyWaits

\* One request goes on, and keys and cache stay.
LEMMA KeyRequestMoves ==
  ASSUME KeysInv, NEW v \in Verifiers, NEW r \in Verifier,
         verifier' = [verifier EXCEPT ![v] = r], holder' \in Verifiers \cup {"nobody"},
         r.at = "fetch" <=> holder' = v,
         \A w \in Verifiers \ {v} : verifier[w].at = "fetch" <=> holder' = w,
         answer' = answer \/ (answer' = {} /\ holder' = "nobody"),
         holder' = "nobody" => answer' = {},
         UNCHANGED <<activeKey, retained, cache, old>>, KeyRequestOK(r)
  PROVE  KeysInv'
<1>1. verifier' \in [Verifiers -> Verifier]
  BY DEF KeysInv, KeysTypeOK
<1>2. \A w \in Verifiers : verifier'[w] = IF w = v THEN r ELSE verifier[w]
  BY DEF KeysInv, KeysTypeOK
<1>3. KeysTypeOK'
  BY <1>1, <1>2 DEF KeysInv, KeysTypeOK
<1>4. \A w \in Verifiers : KeyRequestOK(verifier'[w])
  BY <1>2 DEF KeysInv
<1>5. \A q : HasKey(q, answer) => HasKey(q, answer')
  BY DEF HasKey
<1>. QED  BY <1>3, <1>4, <1>5 DEF KeysInv, KeyRequestOK, KeyKnown, Published, HasKey

\* Every step keeps it.
LEMMA KeysStep ==
  ASSUME KeysInv, [KeysNext]_keysVars
  PROVE  KeysInv'
<1>0. /\ verifier \in [Verifiers -> Verifier] /\ holder \in Verifiers \cup {"nobody"}
      /\ \A v \in Verifiers : verifier[v] \in Verifier /\ KeyRequestOK(verifier[v])
      /\ \A v \in Verifiers : verifier[v].at = "fetch" <=> holder = v
      /\ activeKey \in 1..MaxKid /\ retained \subseteq 1..MaxKid /\ cache \subseteq 1..MaxKid
      /\ old \in BOOLEAN /\ 1..MaxKid \subseteq Nat
      /\ answer \subseteq 1..MaxKid /\ (holder = "nobody" => answer = {})
  BY DEF KeysInv, KeysTypeOK
<1>1. CASE Rotate
  <2>1. activeKey' \in 1..MaxKid /\ retained' \subseteq 1..MaxKid /\ Published \subseteq Published'
    BY <1>0, <1>1, SigningKeysAssumption DEF Rotate, Published
  <2>. QED  BY <1>0, <1>1, <2>1 DEF Rotate, KeysInv, KeysTypeOK, KeyRequestOK, KeyKnown, HasKey
<1>2. CASE DocumentLapses \/ UNCHANGED keysVars
  BY <1>0, <1>2
     DEF DocumentLapses, keysVars, KeysInv, KeysTypeOK, KeyRequestOK, KeyKnown, HasKey, Published
<1>3. ASSUME NEW kid \in 1..MaxKid, Withdraw(kid)
      PROVE  KeysInv'
  <2>. DEFINE After(v) == IF verifier[v].kid = kid THEN [verifier[v] EXCEPT !.retired = TRUE]
                          ELSE verifier[v]
  <2>1. \A v \in Verifiers : /\ After(v) \in Verifier /\ After(v).at = verifier[v].at
                             /\ After(v).kid = verifier[v].kid /\ After(v).fresh = verifier[v].fresh
                             /\ After(v).unlucky = verifier[v].unlucky
                             /\ After(v).refresh = verifier[v].refresh
                             /\ After(v).overtaken = verifier[v].overtaken
                             /\ After(v).retired <=> (verifier[v].retired \/ verifier[v].kid = kid)
    <3>1. \A v \in Verifiers : verifier[v].retired \in BOOLEAN /\ [verifier[v] EXCEPT !.retired = TRUE] \in Verifier
      BY <1>0 DEF Verifier
    <3>. QED  BY <1>0, <3>1 DEF Verifier
  <2>2. verifier' = [v \in Verifiers |-> After(v)]
    BY <1>3 DEF Withdraw
  <2>. HIDE DEF After
  <2>3. KeysTypeOK'
    <3>1. verifier' \in [Verifiers -> Verifier] /\ \A v \in Verifiers : verifier'[v].at = verifier[v].at
      BY <2>1, <2>2
    <3>. QED  BY <1>0, <1>3, <3>1 DEF Withdraw, KeysTypeOK
  <2>4. \A k \in Published : k # kid => k \in Published'
    BY <1>3 DEF Withdraw, Published
  <2>5. \A v \in Verifiers : KeyRequestOK(verifier[v])'
    BY <1>0, <1>3, <2>1, <2>2, <2>4 DEF Withdraw, KeyRequestOK, KeyKnown, HasKey
  <2>. QED  BY <2>3, <2>5 DEF KeysInv
<1>4. ASSUME NEW v \in Verifiers, Acquire(v)
      PROVE  KeysInv'
  <2>. DEFINE r == verifier[v]
  <2>1. r \in Verifier /\ KeyKnown(r) /\ r.at = "lock" /\ holder = "nobody" /\ answer = {}
    BY <1>0, <1>4 DEF Acquire, KeyRequestOK
  <2>2. \A w \in Verifiers : verifier[w].at # "fetch"
    BY <1>0, <2>1, SigningKeysAssumption
  <2>3. CASE Reusable(r)
    <3>. DEFINE u == Use(r, cache, {})
    <3>1. cache # {} /\ (r.refresh => HasKey(r, cache))
      BY <1>0, <2>1, <2>3 DEF Reusable, KeyRequestOK
    <3>2. verifier' = [verifier EXCEPT ![v] = u]
          /\ UNCHANGED <<activeKey, retained, cache, old, holder, answer>>
      BY <1>4, <2>3 DEF Acquire
    <3>3. u \in Verifier /\ u.at # "fetch" /\ KeyRequestOK(u)
      BY <2>1, <3>1, UseOfKnownKeys DEF KeyRequestOK, KeyKnown, HasKey
    <3>. HIDE DEF u
    <3>. QED  BY <1>0, <2>1, <2>2, <3>2, <3>3, KeyRequestMoves, SigningKeysAssumption
  <2>4. CASE ~Reusable(r)
    <3>. DEFINE q == [r EXCEPT !.at = "fetch"]
    <3>1. q \in Verifier /\ KeyRequestOK(q) /\ q.at = "fetch"
      BY <2>1 DEF Verifier, KeyWaits, KeyRequestOK, KeyKnown, HasKey
    <3>2. verifier' = [verifier EXCEPT ![v] = q] /\ holder' = v
          /\ UNCHANGED <<activeKey, retained, cache, old, answer>>
      BY <1>4, <2>4 DEF Acquire
    <3>. HIDE DEF q
    <3>3. holder' # "nobody"
      BY <3>2, SigningKeysAssumption
    <3>. QED  BY <2>2, <3>1, <3>2, <3>3, KeyRequestMoves
  <2>. QED  BY <2>3, <2>4
<1>5. ASSUME NEW v \in Verifiers, FetchSucceeds(v)
      PROVE  KeysInv'
  <2>. DEFINE r == verifier[v]
              u == Use(r, answer, {})
              After(w) == IF w = v THEN u
                          ELSE IF verifier[w].at = "lock" THEN [verifier[w] EXCEPT !.fresh = TRUE]
                          ELSE verifier[w]
  <2>1. r \in Verifier /\ KeyKnown(r) /\ r.at = "fetch" /\ holder = v /\ answer # {}
    BY <1>0, <1>5 DEF FetchSucceeds, KeyRequestOK
  <2>2. r.refresh => HasKey(r, answer)
    BY <1>0, <2>1 DEF KeyRequestOK
  <2>3. /\ u \in Verifier /\ u.at # "fetch" /\ (u.at = "lock" => ~u.fresh) /\ KeyKnown(u)
        /\ u.at = "malformed" => u.unlucky \/ u.retired \/ u.overtaken
    BY <2>1, <2>2, UseOfKnownKeys DEF KeyKnown, HasKey
  <2>4. \A w \in Verifiers : w # v => /\ After(w) \in Verifier /\ After(w).at = verifier[w].at
                                      /\ After(w).kid = verifier[w].kid
                                      /\ After(w).refresh = verifier[w].refresh
                                      /\ After(w).unlucky = verifier[w].unlucky
                                      /\ After(w).retired = verifier[w].retired
                                      /\ After(w).overtaken = verifier[w].overtaken
    BY <1>0 DEF Verifier
  <2>5. After(v) = u
    OBVIOUS
  <2>6. verifier' = [w \in Verifiers |-> After(w)] /\ holder' = "nobody" /\ cache' = answer
        /\ answer' = {} /\ old' = FALSE /\ UNCHANGED <<activeKey, retained>>
    BY <1>5 DEF FetchSucceeds
  <2>7. Published' = Published
    BY <2>6 DEF Published
  <2>. HIDE DEF After, u
  <2>8. \A w \in Verifiers : /\ verifier'[w] \in Verifier /\ verifier'[w].at # "fetch"
                             /\ verifier'[w] = After(w)
    BY <1>0, <2>1, <2>3, <2>4, <2>5, <2>6
  <2>9. KeysTypeOK'
    BY <1>0, <2>6, <2>8, SigningKeysAssumption DEF KeysTypeOK
  <2>10. ASSUME NEW w \in Verifiers PROVE KeyRequestOK(verifier[w])'
    <3>1. CASE w = v
      BY <2>3, <2>5, <2>6, <2>7, <2>8, <3>1 DEF KeyRequestOK, KeyKnown, HasKey
    <3>2. CASE w # v
      <4>1. KeyRequestOK(verifier[w])
        BY <1>0
      <4>. QED  BY <2>4, <2>6, <2>7, <2>8, <3>2, <4>1 DEF KeyRequestOK, KeyKnown, HasKey
    <3>. QED  BY <3>1, <3>2
  <2>. QED  BY <2>9, <2>10 DEF KeysInv
<1>6. ASSUME NEW v \in Verifiers, FetchFails(v)
      PROVE  KeysInv'
  <2>. DEFINE r == [verifier[v] EXCEPT !.unlucky = TRUE]
              u == Use(r, cache, {})
  <2>1. r \in Verifier /\ KeyKnown(r) /\ r.unlucky /\ holder = v
    BY <1>0, <1>6 DEF FetchFails, KeyRequestOK, KeyKnown, Verifier
  <2>2. verifier' = [verifier EXCEPT ![v] = u] /\ holder' = "nobody" /\ answer' = {}
        /\ UNCHANGED <<activeKey, retained, cache, old>>
    BY <1>6 DEF FetchFails
  <2>. HIDE DEF r
  <2>3. /\ u \in Verifier /\ u.at # "fetch" /\ u.unlucky /\ KeyKnown(u)
        /\ u.at = "lock" => ~u.fresh
    BY <2>1, UseOfKnownKeys DEF KeyKnown
  <2>. HIDE DEF u
  <2>4. \A w \in Verifiers : w # v => verifier[w].at # "fetch"
    BY <1>0, <2>1
  <2>5. ASSUME NEW w \in Verifiers PROVE KeyRequestOK(verifier[w])'
    <3>1. verifier' \in [Verifiers -> Verifier]
          /\ verifier'[v] = u /\ (w # v => verifier'[w] = verifier[w])
      BY <1>0, <2>2, <2>3
    <3>2. KeyRequestOK(verifier[w])
      BY <1>0
    <3>. QED  BY <2>2, <2>3, <3>1, <3>2 DEF KeyRequestOK, KeyKnown, HasKey, Published
  <2>6. KeysTypeOK'
    BY <1>0, <2>2, <2>3, <2>4, SigningKeysAssumption DEF KeysTypeOK
  <2>. QED  BY <2>5, <2>6 DEF KeysInv
<1>7. ASSUME NEW v \in Verifiers, NEW kid \in 1..MaxKid, Present(v, kid)
      PROVE  KeysInv'
  <2>. DEFINE r == [NotStarted EXCEPT !.kid = kid, !.at = "lock"]
              q == IF cache # {} /\ ~old THEN Use(r, cache, answer) ELSE r
  <2>1. /\ r \in Verifier /\ r.at = "lock" /\ r.kid = kid /\ r.kid \in Published
        /\ r.fresh = FALSE /\ r.refresh = FALSE
    <3>1. kid \in 0..MaxKid /\ kid \in Published
      BY <1>7, SigningKeysAssumption DEF Present
    <3>. QED  BY <3>1, NotStartedFits DEF Verifier, KeyWaits
  <2>2. verifier' = [verifier EXCEPT ![v] = q] /\ verifier[v].at # "fetch"
        /\ UNCHANGED <<activeKey, retained, cache, old, holder, answer>>
    BY <1>7 DEF Present, KeyRests
  <2>. HIDE DEF r
  <2>3. q \in Verifier /\ q.at # "fetch" /\ KeyRequestOK(q)
    BY <2>1, UseOfKnownKeys DEF KeyRequestOK, KeyKnown
  <2>. HIDE DEF q
  <2>. QED  BY <1>0, <2>2, <2>3, KeyRequestMoves
<1>8. ASSUME NEW v \in Verifiers, Serve(v)
      PROVE  KeysInv'
  <2>1. /\ holder = v /\ answer' = Published /\ Published' = Published
        /\ UNCHANGED <<activeKey, retained, cache, old, holder, verifier>>
    BY <1>0, <1>8 DEF Serve, Published
  <2>2. KeysTypeOK'
    BY <1>0, <2>1, SigningKeysAssumption DEF KeysTypeOK, Published
  <2>3. \A w \in Verifiers : KeyRequestOK(verifier[w])'
    BY <1>0, <2>1 DEF KeyRequestOK, KeyKnown, HasKey
  <2>. QED  BY <2>2, <2>3 DEF KeysInv
<1>. QED  BY <1>1, <1>2, <1>3, <1>4, <1>5, <1>6, <1>7, <1>8 DEF KeysNext

\* No document is cached, and nobody asks.
LEMMA KeysInvInit == KeysInit => KeysInv
<1>. SUFFICES ASSUME KeysInit PROVE KeysInv
  OBVIOUS
<1>1. /\ verifier = [v \in Verifiers |-> NotStarted] /\ activeKey = 1 /\ retained = {}
      /\ cache = {} /\ old = FALSE /\ holder = "nobody" /\ answer = {}
  BY DEF KeysInit
<1>2. verifier \in [Verifiers -> Verifier] /\ \A v \in Verifiers : verifier[v].at = "idle"
  BY <1>1, NotStartedFits
<1>. HIDE DEF KeysInit
<1>3. \A v \in Verifiers : holder # v /\ verifier[v].at # "fetch"
  BY <1>1, <1>2, SigningKeysAssumption
<1>4. 1 \in 1..MaxKid
  BY SigningKeysAssumption
<1>5. KeysTypeOK
  BY <1>1, <1>2, <1>3, <1>4 DEF KeysTypeOK
<1>6. \A v \in Verifiers : KeyRequestOK(verifier[v])
  BY <1>2 DEF KeyRequestOK
<1>. QED  BY <1>5, <1>6 DEF KeysInv

\* The signing key may rotate, and keys be withdrawn, while any number of requests
\* fetch the document, each answer on its way for as long as it takes: a request
\* whose token was signed with a published key is refused only when the key was
\* withdrawn meanwhile, a fetch failed for it, or its refresh began while an answer
\* without the key was on its way.
THEOREM RotationCostsFew == KeysSpec => []PublishedKeyVerifies
<1>1. KeysInv => PublishedKeyVerifies
  BY DEF KeysInv, KeyRequestOK, PublishedKeyVerifies
<1>. QED  BY KeysInvInit, KeysStep, <1>1, PTL DEF KeysSpec

--------------------------------------------------------------------------------
(***************************************************************************)
(* DataSources.                                                            *)
(***************************************************************************)

\* The request holds a state it presented, or one it consumed and may exchange for.
HoldsState(p) == admin[p].at \in {"consume", "exchange"}
Exchanges(p) == admin[p].at = "exchange"

\* The states, and the requests that hold one.
StatesOK ==
  /\ states \in Seq(State)
  /\ DOMAIN admin = Admins
  /\ \A p \in Admins : HoldsState(p) => admin[p].of \in DOMAIN states

\* Why one code is enough for a state: consuming it makes one request, and no
\* other, the one that exchanges, and nothing makes it fresh again.
ExchangeInv ==
  /\ StatesOK
  /\ OneExchangePerState
  /\ \A n \in DOMAIN states : states[n].status = "fresh" => states[n].exchanged = 0
  /\ \A p \in Admins : Exchanges(p) => /\ states[admin[p].of].status # "fresh"
                                       /\ states[admin[p].of].exchanged = 0
  /\ \A p, q \in Admins : Exchanges(p) /\ Exchanges(q) /\ admin[p].of = admin[q].of => p = q

\* States that nobody exchanges for: each is as it was, or no longer fresh.
QuietStates ==
  /\ states' \in Seq(State) /\ DOMAIN states' = DOMAIN states
  /\ \A n \in DOMAIN states : /\ states'[n].exchanged = states[n].exchanged
                              /\ states'[n].status = "fresh" => states[n].status = "fresh"
  /\ DOMAIN admin' = Admins
  /\ \A p \in Admins : /\ HoldsState(p)' => admin'[p].of \in DOMAIN states
                       /\ Exchanges(p)' => Exchanges(p) /\ admin'[p].of = admin[p].of

\* A quiet step keeps what makes an exchange the only one.
LEMMA QuietStep ==
  ASSUME ExchangeInv, QuietStates
  PROVE  ExchangeInv'
<1>1. StatesOK'
  BY DEF QuietStates, StatesOK
<1>2. OneExchangePerState' /\ \A n \in DOMAIN states' :
                                states'[n].status = "fresh" => states'[n].exchanged = 0
  BY DEF QuietStates, ExchangeInv, OneExchangePerState
<1>3. \A p \in Admins : Exchanges(p) => admin[p].of \in DOMAIN states
  BY DEF ExchangeInv, StatesOK, HoldsState, Exchanges
<1>4. \A p \in Admins : Exchanges(p)' => /\ states'[admin'[p].of].status # "fresh"
                                         /\ states'[admin'[p].of].exchanged = 0
  BY <1>3 DEF QuietStates, ExchangeInv
<1>5. \A p, q \in Admins : Exchanges(p)' /\ Exchanges(q)' /\ admin'[p].of = admin'[q].of => p = q
  BY DEF QuietStates, ExchangeInv
<1> QED
  BY <1>1, <1>2, <1>4, <1>5 DEF ExchangeInv

\* A state whose status is written stays a state.
LEMMA StatusWritten ==
  ASSUME states \in Seq(State), NEW n \in DOMAIN states,
         NEW status \in {"fresh", "consumed", "lapsed", "deleted"}
  PROVE  LET written == [states EXCEPT ![n].status = status] IN
         /\ written \in Seq(State) /\ DOMAIN written = DOMAIN states
         /\ written[n].status = status
         /\ \A m \in DOMAIN states : /\ written[m].exchanged = states[m].exchanged
                                     /\ m # n => written[m] = states[m]
<1> DEFINE row1 == [states[n] EXCEPT !.status = status]
<1>1. states[n] \in State
  OBVIOUS
<1>2. row1 \in State /\ row1.status = status /\ row1.exchanged = states[n].exchanged
  BY <1>1 DEF State
<1>3. [states EXCEPT ![n].status = status] = [states EXCEPT ![n] = row1]
  OBVIOUS
<1> HIDE DEF row1
<1>4. \A m \in DOMAIN states : states[m] \in State
  OBVIOUS
<1>5. [states EXCEPT ![n] = row1] \in [DOMAIN states -> State]
  BY <1>2, <1>4
<1> QED
  BY <1>2, <1>3, <1>5

\* A new state is the last; the others stay.
LEMMA StateInserted ==
  ASSUME ExchangeInv, NEW p \in Admins,
         states' = Append(states, [status |-> "fresh", exchanged |-> 0]), AdminGoes(p, Free)
  PROVE  ExchangeInv'
<1> DEFINE new == [status |-> "fresh", exchanged |-> 0]
<1>1. states \in Seq(State) /\ DOMAIN admin = Admins
  BY DEF ExchangeInv, StatesOK
<1>2. new \in State /\ new.exchanged = 0
  BY DEF State
<1>3. states' = Append(states, new)
  OBVIOUS
<1> HIDE DEF new
<1>4. /\ states' \in Seq(State)
      /\ DOMAIN states' = DOMAIN states \cup {Len(states) + 1}
      /\ states'[Len(states) + 1] = new
      /\ \A n \in DOMAIN states : states'[n] = states[n]
  BY <1>1, <1>2, <1>3
<1>5. \A q \in Admins : HoldsState(q)' => q # p /\ admin'[q] = admin[q]
  BY <1>1 DEF AdminGoes, Free, HoldsState
<1>6. \A q \in Admins : Exchanges(q)' => Exchanges(q) /\ admin'[q] = admin[q] /\ HoldsState(q)
  BY <1>1 DEF AdminGoes, Free, Exchanges, HoldsState
<1>7. StatesOK'
  BY <1>1, <1>4, <1>5 DEF AdminGoes, ExchangeInv, StatesOK, HoldsState
<1>8. OneExchangePerState' /\ \A n \in DOMAIN states' :
                                states'[n].status = "fresh" => states'[n].exchanged = 0
  BY <1>2, <1>4 DEF ExchangeInv, OneExchangePerState
<1>9. \A q \in Admins : Exchanges(q)' => /\ states'[admin'[q].of].status # "fresh"
                                         /\ states'[admin'[q].of].exchanged = 0
  BY <1>4, <1>6 DEF ExchangeInv, StatesOK
<1>10. \A q, r \in Admins : Exchanges(q)' /\ Exchanges(r)' /\ admin'[q].of = admin'[r].of => q = r
  BY <1>6 DEF ExchangeInv
<1> QED
  BY <1>7, <1>8, <1>9, <1>10 DEF ExchangeInv

\* The guarded UPDATE: it finds the state fresh, so nobody exchanges for it yet.
LEMMA ConsumeStep ==
  ASSUME ExchangeInv, NEW p \in Admins, ConsumeState(p)
  PROVE  ExchangeInv'
<1> DEFINE n == admin[p].of
<1>1. states \in Seq(State) /\ DOMAIN admin = Admins /\ n \in DOMAIN states
  BY DEF ExchangeInv, StatesOK, ConsumeState, HoldsState
<1>2. CASE ~StillFresh(n)
  BY <1>1, <1>2, QuietStep
     DEF ConsumeState, AdminGoes, Free, QuietStates, HoldsState, Exchanges, ExchangeInv, StatesOK
<1>3. CASE StillFresh(n)
  <2>1. states' = [states EXCEPT ![n].status = "consumed"]
    BY <1>3 DEF ConsumeState
  <2>2. /\ states' \in Seq(State) /\ DOMAIN states' = DOMAIN states
        /\ states'[n].status = "consumed"
        /\ \A m \in DOMAIN states : /\ states'[m].exchanged = states[m].exchanged
                                    /\ m # n => states'[m] = states[m]
    BY <1>1, <2>1, StatusWritten
  <2>3. /\ DOMAIN admin' = Admins
        /\ HoldsState(p)' => admin'[p].of = n
        /\ \A q \in Admins \ {p} : admin'[q] = admin[q]
    BY <1>1, <1>3 DEF ConsumeState, AdminGoes, Free, HoldsState
  <2>4. states[n].status = "fresh" /\ states[n].exchanged = 0
    BY <1>1, <1>3 DEF StillFresh, ExchangeInv
  <2>5. \A q \in Admins : Exchanges(q) => admin[q].of # n /\ admin[q].of \in DOMAIN states
    BY <2>4 DEF ExchangeInv, StatesOK, HoldsState, Exchanges
  <2> HIDE DEF n
  <2>6. StatesOK'
    BY <1>1, <2>2, <2>3 DEF ExchangeInv, StatesOK, HoldsState
  <2>7. OneExchangePerState' /\ \A m \in DOMAIN states' :
                                  states'[m].status = "fresh" => states'[m].exchanged = 0
    BY <1>1, <2>2 DEF ExchangeInv, OneExchangePerState
  <2>8. \A q \in Admins : Exchanges(q)' => IF q = p THEN admin'[q].of = n
                                           ELSE Exchanges(q) /\ admin'[q].of = admin[q].of
    BY <2>3 DEF Exchanges, HoldsState
  <2>9. \A q \in Admins : Exchanges(q)' => /\ states'[admin'[q].of].status # "fresh"
                                           /\ states'[admin'[q].of].exchanged = 0
    BY <1>1, <2>2, <2>4, <2>5, <2>8 DEF ExchangeInv
  <2>10. \A q, r \in Admins : Exchanges(q)' /\ Exchanges(r)' /\ admin'[q].of = admin'[r].of => q = r
    BY <2>5, <2>8 DEF ExchangeInv
  <2> QED
    BY <2>6, <2>7, <2>9, <2>10 DEF ExchangeInv
<1> QED  BY <1>2, <1>3

\* The code goes to the platform; the request exchanges no more.
LEMMA ExchangeStep ==
  ASSUME ExchangeInv, NEW p \in Admins, Exchange(p)
  PROVE  ExchangeInv'
<1> DEFINE n == admin[p].of
           sent == [states[n] EXCEPT !.exchanged = @ + 1]
<1>1. states \in Seq(State) /\ DOMAIN admin = Admins /\ n \in DOMAIN states
  BY DEF ExchangeInv, StatesOK, Exchange, HoldsState
<1>2. Exchanges(p) /\ states[n].exchanged = 0 /\ states[n].status # "fresh"
  BY DEF Exchange, Exchanges, ExchangeInv
<1>3. states[n] \in State
  BY <1>1
<1>4. sent \in State /\ sent.exchanged = 1 /\ sent.status = states[n].status
  BY <1>2, <1>3 DEF State
<1>5. states' = [states EXCEPT ![n] = sent]
  BY DEF Exchange
<1>6. \A m \in DOMAIN states : states[m] \in State
  BY <1>1
<1>7. \A q \in Admins : HoldsState(q)' => q # p /\ admin'[q] = admin[q]
  BY <1>1 DEF Exchange, AdminGoes, Free, HoldsState
<1>8. DOMAIN admin' = Admins
  BY <1>1 DEF Exchange, AdminGoes
<1>9. \A q \in Admins : Exchanges(q) /\ q # p => admin[q].of # n
  BY <1>2 DEF ExchangeInv
<1> HIDE DEF n, sent
<1>10. states' \in [DOMAIN states -> State]
  BY <1>4, <1>5, <1>6
<1>11. /\ states' \in Seq(State) /\ DOMAIN states' = DOMAIN states
       /\ states'[n] = sent /\ \A m \in DOMAIN states : m # n => states'[m] = states[m]
  BY <1>1, <1>5, <1>10
<1>12. StatesOK'
  BY <1>7, <1>8, <1>11 DEF ExchangeInv, StatesOK, HoldsState
<1>13. OneExchangePerState' /\ \A m \in DOMAIN states' :
                                 states'[m].status = "fresh" => states'[m].exchanged = 0
  BY <1>2, <1>4, <1>11 DEF ExchangeInv, OneExchangePerState
<1>14. \A q \in Admins : Exchanges(q)' =>
         Exchanges(q) /\ q # p /\ admin'[q].of = admin[q].of /\ admin[q].of \in DOMAIN states
  BY <1>7 DEF Exchanges, HoldsState, ExchangeInv, StatesOK
<1>15. \A q \in Admins : Exchanges(q)' => /\ states'[admin'[q].of].status # "fresh"
                                          /\ states'[admin'[q].of].exchanged = 0
  BY <1>9, <1>11, <1>14 DEF ExchangeInv
<1>16. \A q, r \in Admins : Exchanges(q)' /\ Exchanges(r)' /\ admin'[q].of = admin'[r].of => q = r
  BY <1>14 DEF ExchangeInv
<1> QED
  BY <1>12, <1>13, <1>15, <1>16 DEF ExchangeInv

\* Every other step is quiet.
LEMMA SourceStep ==
  ASSUME ExchangeInv, [SourceNext]_sourceVars
  PROVE  ExchangeInv'
<1>0. states \in Seq(State) /\ DOMAIN admin = Admins
  BY DEF ExchangeInv, StatesOK
<1>1. ASSUME UNCHANGED states, DOMAIN admin' = Admins,
             \A p \in Admins : HoldsState(p)' => HoldsState(p) /\ admin'[p].of = admin[p].of,
             \A p \in Admins : Exchanges(p)' => Exchanges(p)
      PROVE  ExchangeInv'
  <2>1. \A p \in Admins : Exchanges(p)' => HoldsState(p)'
    BY DEF Exchanges, HoldsState
  <2> QED  BY <1>0, <1>1, <2>1, QuietStep DEF QuietStates, ExchangeInv, StatesOK
<1>2. CASE Create \/ ConfigureCallback \/ UNCHANGED sourceVars
  BY <1>0, <1>1, <1>2 DEF Create, ConfigureCallback, sourceVars, HoldsState, Exchanges
<1>3. ASSUME NEW n \in DOMAIN states, StateLapses(n)
      PROVE  ExchangeInv'
  <2>1. /\ states' \in Seq(State) /\ DOMAIN states' = DOMAIN states /\ states'[n].status = "lapsed"
        /\ \A m \in DOMAIN states : /\ states'[m].exchanged = states[m].exchanged
                                    /\ m # n => states'[m] = states[m]
    BY <1>0, <1>3, StatusWritten DEF StateLapses
  <2>2. admin' = admin
    BY <1>3 DEF StateLapses
  <2> QED  BY <1>0, <2>1, <2>2, QuietStep DEF QuietStates, HoldsState, Exchanges, ExchangeInv, StatesOK
<1>4. ASSUME NEW p \in Admins, Commits(p)
      PROVE  ExchangeInv'
  <2>1. AdminGoes(p, Free)
    BY <1>4 DEF Commits
  <2>2. CASE states' = Append(states, [status |-> "fresh", exchanged |-> 0])
    BY <2>1, <2>2, StateInserted
  <2>3. CASE UNCHANGED states
    BY <1>0, <1>1, <2>1, <2>3 DEF AdminGoes, Free, HoldsState, Exchanges
  <2>4. CASE states' = [n \in DOMAIN states |-> [states[n] EXCEPT !.status = "deleted"]]
    <3> DEFINE deleted(n) == [states[n] EXCEPT !.status = "deleted"]
    <3>1. \A n \in DOMAIN states : /\ deleted(n) \in State
                                   /\ deleted(n).exchanged = states[n].exchanged
                                   /\ deleted(n).status = "deleted"
      <4>1. \A n \in DOMAIN states : states[n] \in State
        BY <1>0
      <4> QED  BY <4>1 DEF State
    <3>2. states' = [n \in DOMAIN states |-> deleted(n)]
      BY <2>4
    <3> HIDE DEF deleted
    <3>3. states' \in [DOMAIN states -> State]
      BY <3>1, <3>2
    <3>4. states' \in Seq(State) /\ DOMAIN states' = DOMAIN states
      BY <1>0, <3>3
    <3>5. \A n \in DOMAIN states : /\ states'[n].exchanged = states[n].exchanged
                                   /\ states'[n].status = "deleted"
      BY <3>1, <3>2
    <3> QED
      BY <1>0, <2>1, <3>4, <3>5, QuietStep
         DEF AdminGoes, Free, QuietStates, HoldsState, Exchanges, ExchangeInv, StatesOK
  <2> QED  BY <1>4, <2>2, <2>3, <2>4 DEF Commits
<1>5. ASSUME NEW p \in Admins, ConsumeState(p) \/ Exchange(p)
      PROVE  ExchangeInv'
  BY <1>5, ConsumeStep, ExchangeStep
<1>6. ASSUME NEW p \in Admins, Connect(p) \/ TellPlatform(p) \/ TriggerSync(p) \/ SyncEnds(p)
      PROVE  ExchangeInv'
  BY <1>0, <1>1, <1>6
     DEF Connect, TellPlatform, TriggerSync, SyncEnds, AdminGoes, Free, HoldsState, Exchanges
<1>7. ASSUME NEW p \in Admins, NEW op \in ReadWrites, AdminBegins(p, op)
      PROVE  ExchangeInv'
  BY <1>0, <1>1, <1>7 DEF AdminBegins, ReadWrites, AdminGoes, HoldsState, Exchanges
<1>8. ASSUME NEW p \in Admins, NEW n \in DOMAIN states, PresentState(p, n)
      PROVE  ExchangeInv'
  <2>1. CASE states' = [states EXCEPT ![n].status = "consumed"] /\ UNCHANGED admin
    <3>1. /\ states' \in Seq(State) /\ DOMAIN states' = DOMAIN states
          /\ states'[n].status = "consumed"
          /\ \A m \in DOMAIN states : /\ states'[m].exchanged = states[m].exchanged
                                      /\ m # n => states'[m] = states[m]
      BY <1>0, <2>1, StatusWritten
    <3> QED  BY <1>0, <2>1, <3>1, QuietStep DEF QuietStates, HoldsState, Exchanges, ExchangeInv, StatesOK
  <2>2. CASE UNCHANGED states /\ admin' = [admin EXCEPT ![p] =
               [at |-> "consume", of |-> n, credential |-> row.credential]]
    BY <1>0, <2>2, QuietStep DEF QuietStates, HoldsState, Exchanges, ExchangeInv, StatesOK
  <2> QED  BY <1>8, <2>1, <2>2 DEF PresentState, AdminGoes
<1> QED
  BY <1>2, <1>3, <1>4, <1>5, <1>6, <1>7, <1>8 DEF SourceNext

\* A state parameter is exchanged for one code, whichever callbacks bring it at
\* once, and whatever expiry or revocation happens in between.
THEOREM OneExchangeHolds == SourceSpec => []OneExchangePerState
<1>1. SourceInit => ExchangeInv
  BY DEF SourceInit, ExchangeInv, StatesOK, OneExchangePerState, HoldsState, Exchanges, Free
<1>2. ExchangeInv /\ [SourceNext]_sourceVars => ExchangeInv'
  BY SourceStep
<1>3. ExchangeInv => OneExchangePerState
  BY DEF ExchangeInv
<1> QED
  BY <1>1, <1>2, <1>3, PTL DEF SourceSpec

--------------------------------------------------------------------------------
(***************************************************************************)
(* Access.                                                                 *)
(***************************************************************************)

\* The role of a live access token is its user's, or was no longer ago than when
\* the token was issued.
SessionTrue(u) ==
  /\ session[u].until \in Int
  /\ session[u].until > clock =>
       /\ session[u].role \in Roles
       /\ session[u].until <= clock + AccessLife
       /\ \/ role[u] = session[u].role
          \/ heldUntil[u][session[u].role] >= session[u].until - AccessLife

\* Every token is true of its role, and so is what was served with one.
AccessInv ==
  /\ clock \in Nat /\ DOMAIN session = Users
  /\ role \in [Users -> Roles \cup {"inactive"}] /\ heldUntil \in [Users -> [Roles -> Int]]
  /\ \A u \in Users : SessionTrue(u)
  /\ RoleLossTakesEffect

\* Work in the administration leaves the roles and the tokens alone, and is done
\* with a token that is good.
LEMMA AdministrationKeeps ==
  ASSUME AccessInv, UNCHANGED <<clock, session>>, UNCHANGED peopleVars,
         UNCHANGED served \/ \E u \in Users : Serves(u) /\ Authenticated(u)
  PROVE  AccessInv'
<1>1. /\ clock' \in Nat /\ DOMAIN session' = Users
      /\ role' \in [Users -> Roles \cup {"inactive"}] /\ heldUntil' \in [Users -> [Roles -> Int]]
      /\ \A u \in Users : SessionTrue(u)'
  BY DEF AccessInv, peopleVars, SessionTrue
<1>2. ASSUME NEW u \in Users, Serves(u), Authenticated(u)
      PROVE  RoleLossTakesEffect'
  <2>1. /\ session[u].role \in Roles /\ session[u].until \in Int /\ clock \in Nat
        /\ session[u].until > clock /\ session[u].until <= clock + AccessLife
        /\ \/ role[u] = session[u].role
           \/ heldUntil[u][session[u].role] >= session[u].until - AccessLife
    BY <1>2 DEF AccessInv, SessionTrue, Authenticated
  <2>2. heldUntil[u][session[u].role] \in Int /\ AccessLife \in Nat
    BY <2>1, AccessAssumption DEF AccessInv
  <2>3. LostFor(u) < AccessLife
    BY <2>1, <2>2 DEF LostFor
  <2>. QED  BY <1>2, <2>3 DEF AccessInv, Serves, RoleLossTakesEffect
<1>3. CASE UNCHANGED served
  BY <1>1, <1>3 DEF AccessInv, RoleLossTakesEffect
<1>. QED  BY <1>1, <1>2, <1>3 DEF AccessInv

\* Signing in and refreshing issue tokens of the role there is.
LEMMA TokensAreTrue ==
  ASSUME AccessInv, NEW u \in Users, SignIn(u) \/ Refresh(u)
  PROVE  AccessInv'
<1>1. /\ role[u] \in Roles /\ clock \in Nat /\ AccessLife \in Nat
      /\ session' = [session EXCEPT ![u] = TokensFor(role[u])]
      /\ UNCHANGED <<clock, served, role, heldUntil>>
  BY AccessAssumption DEF AccessInv, SignIn, Refresh, RefreshRole, peopleVars
<1>2. /\ DOMAIN session' = Users /\ session'[u] = TokensFor(role[u])
      /\ \A v \in Users : v # u => session'[v] = session[v]
  BY <1>1 DEF AccessInv
<1>3. SessionTrue(u)'
  BY <1>1, <1>2 DEF SessionTrue, TokensFor
<1>4. \A v \in Users : v # u => SessionTrue(v)'
  BY <1>1, <1>2 DEF AccessInv, SessionTrue
<1>. QED  BY <1>1, <1>2, <1>3, <1>4 DEF AccessInv, RoleLossTakesEffect

\* A role that changes was held until now.
LEMMA RoleChanges ==
  ASSUME AccessInv, NEW u \in Users, NEW r \in NewRoles, ChangeRole(u, r)
  PROVE  AccessInv'
<1>. DEFINE Held(s) == IF s \in {r, role[u]} THEN clock ELSE heldUntil[u][s]
<1>1. /\ clock \in Nat /\ DOMAIN session = Users /\ AccessLife \in Nat
      /\ role \in [Users -> Roles \cup {"inactive"}] /\ heldUntil \in [Users -> [Roles -> Int]]
      /\ role' = [role EXCEPT ![u] = r] /\ heldUntil' = [heldUntil EXCEPT ![u] = [s \in Roles |-> Held(s)]]
      /\ UNCHANGED <<clock, session, served>> /\ r \in Roles \cup {"inactive"}
  BY AccessAssumption DEF AccessInv, ChangeRole
<1>2. [s \in Roles |-> Held(s)] \in [Roles -> Int]
  BY <1>1
<1>3. /\ role' \in [Users -> Roles \cup {"inactive"}] /\ role'[u] = r
      /\ \A v \in Users : v # u => role'[v] = role[v]
  BY <1>1
<1>4. /\ heldUntil' \in [Users -> [Roles -> Int]] /\ heldUntil'[u] = [s \in Roles |-> Held(s)]
      /\ \A v \in Users : v # u => heldUntil'[v] = heldUntil[v]
  BY <1>1, <1>2
<1>5. SessionTrue(u)'
  <2>. SUFFICES ASSUME session[u].until > clock
                PROVE  /\ session[u].role \in Roles /\ session[u].until \in Int
                       /\ session[u].until <= clock + AccessLife
                       /\ \/ role'[u] = session[u].role
                          \/ heldUntil'[u][session[u].role] >= session[u].until - AccessLife
    BY <1>1 DEF SessionTrue, AccessInv
  <2>1. /\ session[u].role \in Roles /\ session[u].until \in Int
        /\ session[u].until <= clock + AccessLife
        /\ \/ role[u] = session[u].role
           \/ heldUntil[u][session[u].role] >= session[u].until - AccessLife
    BY DEF AccessInv, SessionTrue
  <2>2. heldUntil'[u][session[u].role] = Held(session[u].role)
    BY <1>4, <2>1
  <2>. QED  BY <1>1, <1>3, <2>1, <2>2
<1>6. \A v \in Users : v # u => SessionTrue(v)'
  BY <1>1, <1>3, <1>4 DEF AccessInv, SessionTrue
<1>. QED  BY <1>1, <1>3, <1>4, <1>5, <1>6 DEF AccessInv, RoleLossTakesEffect

\* Every step keeps the invariant.
LEMMA AccessStep ==
  ASSUME AccessInv, [AccessNext]_accessVars
  PROVE  AccessInv'
<1>1. CASE ClockTick
  <2>1. /\ clock \in Nat /\ clock' = clock + 1 /\ AccessLife \in Nat
        /\ UNCHANGED <<session, served, role, heldUntil>>
    BY <1>1, AccessAssumption DEF ClockTick, peopleVars, AccessInv
  <2>2. ASSUME NEW u \in Users, session[u].until > clock'
        PROVE  /\ session[u].role \in Roles /\ session[u].until \in Int
               /\ session[u].until <= clock' + AccessLife
               /\ \/ role[u] = session[u].role
                  \/ heldUntil[u][session[u].role] >= session[u].until - AccessLife
    <3>1. session[u].until \in Int
      BY <2>1 DEF AccessInv, SessionTrue
    <3>2. session[u].until > clock
      BY <2>1, <2>2, <3>1
    <3>. QED  BY <2>1, <3>1, <3>2 DEF AccessInv, SessionTrue
  <2>3. \A u \in Users : SessionTrue(u)'
    BY <2>1, <2>2 DEF SessionTrue, AccessInv
  <2>. QED  BY <2>1, <2>3 DEF AccessInv, RoleLossTakesEffect
<1>2. CASE UNCHANGED accessVars
  BY <1>2, AdministrationKeeps DEF accessVars, peopleVars
<1>3. ASSUME NEW u \in Users, Request(u)
      PROVE  AccessInv'
  BY <1>3, AdministrationKeeps DEF Request, Allowed
<1>4. ASSUME NEW u \in Users, ScopesDeleted(u) \/ ScopesInsert(u) \/ ScopesCommit(u) \/ ClaimLegacy(u)
      PROVE  AccessInv'
  BY <1>4, AdministrationKeeps DEF ScopesDeleted, ScopesInsert, ScopesCommit, ClaimLegacy
<1>5. ASSUME NEW u \in Users, NEW m \in ScopedManagers,
             \/ \E units \in SUBSET OrgUnits : ScopesDelete(u, m, units)
             \/ \E w \in LegacyWork : ReadLegacy(u, w, m)
      PROVE  AccessInv'
  BY <1>5, AdministrationKeeps DEF ScopesDelete, ReadLegacy, ScopesBegin, Allowed
<1>. QED  BY <1>1, <1>2, <1>3, <1>4, <1>5, TokensAreTrue, RoleChanges DEF AccessNext

\* Whatever was changed in the administration, nobody is served in a role that was
\* lost longer ago than an access token lives.
THEOREM RoleLossHolds == AccessSpec => []RoleLossTakesEffect
<1>1. AccessInit => AccessInv
  BY DEF AccessInit, AccessInv, Roles, SessionTrue, NoSession, RoleLossTakesEffect
<1>2. AccessInv => RoleLossTakesEffect
  BY DEF AccessInv
<1>. QED  BY <1>1, <1>2, AccessStep, PTL DEF AccessSpec

--------------------------------------------------------------------------------
(***************************************************************************)
(* McpCalls.                                                               *)
(***************************************************************************)

\* The outcomes a row may record.
Outcomes == OkOutcomes \cup FailureOutcomes \cup {"CANCELLED"}

\* A call under way, and a row.
CallRecord == [at : {"guard", "tool", "run", "record"}, surface : {"mcp", "tasks"}, kind : Kinds,
               large : BOOLEAN, approval : Nat]
RowRecord == [outcome : Outcomes, installed : BOOLEAN, approval : Nat]

\* The rows, the approvals and the calls have their types.
CallsTyped ==
  /\ mcpCall \in [Calls -> CallRecord \cup {NoCall}]
  /\ proposals \in Seq(Surfaces) /\ auditRows \in Seq(RowRecord)

\* An approval is recorded in the step that asks for it.
McpInv == CallsTyped /\ ApprovalsAreAudited

\* A row has its type.
LEMMA RowTyped ==
  ASSUME NEW outcome \in Outcomes, NEW approval \in Nat
  PROVE  /\ AuditRow(outcome, approval) \in RowRecord
         /\ AuditRow(outcome, approval).outcome = outcome
         /\ AuditRow(outcome, approval).approval = approval
BY DEF AuditRow, RowRecord

\* Rows are only added; the approvals there were stay audited, and one that is
\* added is another surface's, or the row added is its own.
LEMMA RowsAreAdded ==
  ASSUME McpInv, NEW outcome \in Outcomes, NEW approval \in Nat, NEW surface \in Surfaces,
         mcpCall' \in [Calls -> CallRecord \cup {NoCall}],
         MayRecord(outcome, approval),
         UNCHANGED proposals \/ proposals' = Append(proposals, surface),
         surface = "mcp" =>
           /\ RecordedCall(outcome, approval) /\ outcome = "AWAITING_APPROVAL"
           /\ proposals' = proposals \/ approval = Len(proposals) + 1
  PROVE  McpInv'
<1>. DEFINE added == AuditRow(outcome, approval)
<1>1. /\ added \in RowRecord /\ added.outcome = outcome /\ added.approval = approval
      /\ proposals \in Seq(Surfaces) /\ auditRows \in Seq(RowRecord)
  BY RowTyped DEF McpInv, CallsTyped
<1>. HIDE DEF added
<1>2. UNCHANGED auditRows \/ auditRows' = Append(auditRows, added)
  BY DEF MayRecord, RecordedCall, added
<1>3. /\ auditRows' \in Seq(RowRecord)
      /\ \A n \in DOMAIN auditRows : n \in DOMAIN auditRows' /\ auditRows'[n] = auditRows[n]
  <2>1. CASE UNCHANGED auditRows
    BY <1>1, <2>1
  <2>2. CASE auditRows' = Append(auditRows, added)
    <3>1. /\ auditRows' \in Seq(RowRecord) /\ Len(auditRows') = Len(auditRows) + 1
          /\ \A n \in 1..Len(auditRows) : auditRows'[n] = auditRows[n]
      BY <1>1, <2>2, AppendProperties
    <3>2. /\ DOMAIN auditRows = 1..Len(auditRows) /\ Len(auditRows) \in Nat
          /\ DOMAIN auditRows' = 1..(Len(auditRows) + 1)
      BY <1>1, <3>1
    <3>. QED  BY <3>1, <3>2
  <2>. QED  BY <1>2, <2>1, <2>2
<1>4. proposals' \in Seq(Surfaces)
  <2>1. CASE UNCHANGED proposals
    BY <1>1, <2>1
  <2>2. CASE proposals' = Append(proposals, surface)
    BY <1>1, <2>2, AppendProperties
  <2>. QED  BY <2>1, <2>2
<1>5. ASSUME NEW a \in DOMAIN proposals, proposals[a] = "mcp"
      PROVE  \E n \in DOMAIN auditRows' :
               auditRows'[n].approval = a /\ auditRows'[n].outcome = "AWAITING_APPROVAL"
  <2>1. PICK n \in DOMAIN auditRows :
          auditRows[n].approval = a /\ auditRows[n].outcome = "AWAITING_APPROVAL"
    BY <1>5 DEF McpInv, ApprovalsAreAudited
  <2>. QED  BY <1>3, <2>1
<1>6. CASE UNCHANGED proposals
  BY <1>3, <1>4, <1>5, <1>6 DEF McpInv, CallsTyped, ApprovalsAreAudited
<1>7. CASE proposals' # proposals
  <2>1. /\ Len(proposals') = Len(proposals) + 1 /\ proposals'[Len(proposals) + 1] = surface
        /\ \A a \in 1..Len(proposals) : proposals'[a] = proposals[a]
    BY <1>1, <1>7, AppendProperties
  <2>2. DOMAIN proposals = 1..Len(proposals) /\ DOMAIN proposals' = 1..(Len(proposals) + 1)
        /\ Len(proposals) \in Nat
    BY <1>1, <1>4, <2>1
  <2>3. ASSUME surface = "mcp"
        PROVE  \E n \in DOMAIN auditRows' : /\ auditRows'[n].approval = Len(proposals) + 1
                                            /\ auditRows'[n].outcome = "AWAITING_APPROVAL"
    <3>1. auditRows' = Append(auditRows, added) /\ approval = Len(proposals) + 1
          /\ outcome = "AWAITING_APPROVAL"
      BY <1>7, <2>3 DEF RecordedCall, added
    <3>2. Len(auditRows) + 1 \in DOMAIN auditRows' /\ auditRows'[Len(auditRows) + 1] = added
      BY <1>1, <3>1, AppendProperties
    <3>. QED  BY <1>1, <3>1, <3>2
  <2>4. ApprovalsAreAudited'
    <3>. SUFFICES ASSUME NEW a \in DOMAIN proposals', proposals'[a] = "mcp"
                  PROVE  \E n \in DOMAIN auditRows' : /\ auditRows'[n].approval = a
                                                      /\ auditRows'[n].outcome = "AWAITING_APPROVAL"
      BY DEF ApprovalsAreAudited
    <3>1. CASE a \in 1..Len(proposals)
      BY <1>5, <2>1, <2>2, <3>1
    <3>2. CASE a = Len(proposals) + 1
      BY <2>1, <2>3, <3>2
    <3>. QED  BY <2>2, <3>1, <3>2
  <2>. QED  BY <1>3, <1>4, <2>4 DEF McpInv, CallsTyped
<1>. QED  BY <1>6, <1>7

\* A step of one call that records at most one row of no approval.
LEMMA CallGoes ==
  ASSUME McpInv, NEW c \in Calls, NEW next \in CallRecord \cup {NoCall}, Moves(c, next),
         NEW outcome \in Outcomes, NEW approval \in Nat, MayRecord(outcome, approval),
         UNCHANGED proposals
  PROVE  McpInv'
<1>1. mcpCall' \in [Calls -> CallRecord \cup {NoCall}]
  BY DEF McpInv, CallsTyped, Moves
<1>2. "tasks" \in Surfaces
  BY DEF Surfaces
<1>. QED  BY <1>1, <1>2, RowsAreAdded

\* What is recorded of a decision is an outcome.
LEMMA DenialsAreOutcomes ==
  ASSUME NEW kind, Decision(kind) # "allowed"
  PROVE  Denial(Decision(kind)) \in Outcomes
BY DEF Decision, Denial, ScopeDenials, Outcomes, OkOutcomes, FailureOutcomes

\* Every step keeps it.
LEMMA McpStep ==
  ASSUME McpInv, [McpNext]_mcpVars
  PROVE  McpInv'
<1>0. /\ mcpCall \in [Calls -> CallRecord \cup {NoCall}] /\ proposals \in Seq(Surfaces)
      /\ {"FORBIDDEN", "AWAITING_APPROVAL", "FOUND", "NO_EVIDENCE", "FAILED", "CANCELLED"} \subseteq Outcomes
      /\ {"mcp", "tasks", "bridge"} \subseteq Surfaces /\ NoApproval \in Nat
  BY DEF McpInv, CallsTyped, Outcomes, OkOutcomes, FailureOutcomes, Surfaces, NoApproval
<1>1. ASSUME NEW c \in Calls, Arrive(c)
      PROVE  McpInv'
  <2>1. PICK surface \in {"mcp", "tasks"}, kind \in Kinds, large \in BOOLEAN :
          Moves(c, [at |-> "guard", surface |-> surface, kind |-> kind, large |-> large,
                    approval |-> NoApproval])
    BY <1>1 DEF Arrive
  <2>2. [at |-> "guard", surface |-> surface, kind |-> kind, large |-> large,
         approval |-> NoApproval] \in CallRecord
    BY DEF CallRecord, NoApproval
  <2>. QED  BY <1>0, <1>1, <2>1, <2>2, CallGoes DEF Arrive, MayRecord
<1>2. ASSUME NEW c \in Calls, mcpCall[c].at \in {"guard", "tool", "run", "record"}
      PROVE  mcpCall[c] \in CallRecord
  BY <1>0, <1>2 DEF NoCall
<1>3. ASSUME NEW c \in Calls, GuardStops(c) \/ ToolDenies(c)
      PROVE  McpInv'
  <2>1. CASE GuardStops(c)
    BY <1>0, <2>1, CallGoes DEF GuardStops, Throttled, MayRecord
  <2>2. CASE ToolDenies(c)
    BY <1>0, <2>2, CallGoes, DenialsAreOutcomes DEF ToolDenies
  <2>. QED  BY <1>3, <2>1, <2>2
<1>4. ASSUME NEW c \in Calls, GuardPasses(c) \/ ToolAllows(c)
      PROVE  McpInv'
  <2>1. mcpCall[c] \in CallRecord
    BY <1>2, <1>4 DEF GuardPasses, ToolAllows, At
  <2>2. /\ [mcpCall[c] EXCEPT !.at = "tool", !.large = FALSE] \in CallRecord
        /\ [mcpCall[c] EXCEPT !.at = "run"] \in CallRecord
    BY <2>1 DEF CallRecord
  <2>. QED  BY <1>0, <1>4, <2>2, CallGoes DEF GuardPasses, ToolAllows, GoesTo, MayRecord
<1>5. ASSUME NEW c \in Calls, RunRead(c) \/ CallFails(c)
      PROVE  McpInv'
  BY <1>0, <1>5, CallGoes DEF RunRead, CallFails, MayRecord
<1>6. ASSUME NEW surface \in Surfaces, NEW approval \in 1..(Len(proposals) + 1),
             AsksApproval(surface, approval)
      PROVE  /\ approval \in Nat /\ (UNCHANGED proposals \/ proposals' = Append(proposals, surface))
             /\ proposals' = proposals \/ approval = Len(proposals) + 1
  <2>1. Len(proposals) \in Nat
    BY <1>0
  <2>. QED  BY <1>6, <2>1 DEF AsksApproval
<1>7. ASSUME NEW c \in Calls, Propose(c)
      PROVE  McpInv'
  <2>1. PICK approval \in 1..(Len(proposals) + 1) :
          AsksApproval("mcp", approval) /\ RecordsProposal(approval)
    BY <1>7 DEF Propose
  <2>2. mcpCall' \in [Calls -> CallRecord \cup {NoCall}]
    BY <1>0, <1>7 DEF Propose, Moves
  <2>. QED  BY <1>0, <1>6, <2>1, <2>2, RowsAreAdded DEF RecordsProposal, RecordedCall, MayRecord
<1>8. ASSUME NEW c \in Calls, TaskWrite(c)
      PROVE  McpInv'
  <2>1. mcpCall[c] \in CallRecord /\ UNCHANGED auditRows
    BY <1>2, <1>8 DEF TaskWrite, At
  <2>2. CASE GoesTo(c, "record") /\ UNCHANGED proposals
    <3>1. [mcpCall[c] EXCEPT !.at = "record"] \in CallRecord
      BY <2>1 DEF CallRecord
    <3>. QED  BY <1>0, <2>1, <2>2, <3>1, CallGoes DEF GoesTo, MayRecord
  <2>3. ASSUME NEW approval \in 1..(Len(proposals) + 1), AsksApproval("tasks", approval),
               Moves(c, [mcpCall[c] EXCEPT !.at = "record", !.approval = approval])
        PROVE  McpInv'
    <3>1. approval \in Nat /\ (UNCHANGED proposals \/ proposals' = Append(proposals, "tasks"))
      BY <1>0, <1>6, <2>3
    <3>2. [mcpCall[c] EXCEPT !.at = "record", !.approval = approval] \in CallRecord
      BY <2>1, <3>1 DEF CallRecord
    <3>3. mcpCall' \in [Calls -> CallRecord \cup {NoCall}]
      BY <1>0, <2>3, <3>2 DEF Moves
    <3>. QED  BY <1>0, <2>1, <3>1, <3>3, RowsAreAdded DEF MayRecord
  <2>. QED  BY <1>8, <2>2, <2>3 DEF TaskWrite
<1>9. ASSUME NEW c \in Calls, RecordTask(c)
      PROVE  McpInv'
  <2>1. mcpCall[c].approval \in Nat
    BY <1>2, <1>9 DEF RecordTask, At, CallRecord
  <2>. QED  BY <1>0, <1>9, <2>1, CallGoes DEF RecordTask
<1>10. CASE BridgeCall
  <2>1. PICK approval \in 1..(Len(proposals) + 1) : AsksApproval("bridge", approval)
    BY <1>10 DEF BridgeCall
  <2>. QED  BY <1>0, <1>6, <1>10, <2>1, RowsAreAdded DEF BridgeCall, MayRecord
<1>11. CASE LowerCeiling \/ RevokeConnection \/ DecideProposal \/ LookAtConnections \/ UNCHANGED mcpVars
  BY <1>11 DEF LowerCeiling, RevokeConnection, DecideProposal, LookAtConnections, mcpVars, McpInv,
               CallsTyped, ApprovalsAreAudited
<1>. QED  BY <1>1, <1>3, <1>4, <1>5, <1>7, <1>8, <1>9, <1>10, <1>11 DEF McpNext

\* However many calls and approvals there are, and wherever a call is stopped: what
\* an atomic tool asked approval for has its audit row.
THEOREM ApprovalsHaveRows == McpSpec => []ApprovalsAreAudited
<1>1. McpInit => McpInv
  BY DEF McpInit, McpInv, CallsTyped, ApprovalsAreAudited
<1>2. McpInv => ApprovalsAreAudited
  BY DEF McpInv
<1>. QED  BY <1>1, <1>2, McpStep, PTL DEF McpSpec

--------------------------------------------------------------------------------
(***************************************************************************)
(* Limits.  A hit stays in its sorted set while it is recent, so those     *)
(* that passed in the last window's length are among those counted.        *)
(***************************************************************************)

\* Where windows are kept, and the records of hits, calls let through and checks.
Places == Servers \cup {"redis"}
HitRecord == [n : Nat, at : Nat]
AdmissionRecord == [window : Windows, place : Places, n : Nat, at : Nat]
ApiCheck == [at : {"add", "count"}, user : ApiUsers, n : Nat, began : Nat, when : Nat,
             left : Seq(Windows), ok : BOOLEAN]
SentCheck == [at : {"send"}, window : {"bucket", "login"}, n : Nat, when : Nat]
CheckRecord == ApiCheck \cup SentCheck

\* Where the hits of a window are kept.
Counter(w, place) == IF place = "redis" THEN hits[w] ELSE memory[place]

\* The hit of a call.
HitOf(a) == [n |-> a.n, at |-> a.at]

\* A check whose tenant's window had room: it may still be let through.
TenantPassed(s) == check[s].at \in {"add", "count"} /\ check[s].left = <<check[s].user>> /\ check[s].ok
ForTenant(s) == Admission("tenant", "redis", check[s].n, check[s].began)

\* The calls let through, and those whose first window had room.
Passed == admitted \cup {ForTenant(s) : s \in {r \in Servers : TenantPassed(r)}}
PassedUpTo(w, place, end) ==
  {a \in Passed : a.window = w /\ a.place = place /\ a.at \in end - WindowTicks + 1..end}

\* The stretches that are counted.
Ends(place) == IF place = "redis" THEN {now} ELSE 0..now

\* A check reads the clock before it is sent; what it added is still there when it
\* counts, unless it took so long that its hit is no longer recent.
Dated(c) == c # NoCheck => c.when <= now
Ordered(c) ==
  c.at \in {"add", "count"} =>
    /\ c.began <= c.when
    /\ (c.left = <<"tenant", c.user>> /\ c.when = c.began) \/ c.left = <<c.user>>
Held(c) ==
  c.at = "count" /\ c.when > now - WindowTicks => [n |-> c.n, at |-> c.when] \in hits[c.left[1]]

\* The counters are finite sets of hits.
CountersOK ==
  /\ now \in Nat /\ checks \in Nat
  /\ hits \in [Windows -> SUBSET HitRecord] /\ \A w \in Windows : IsFiniteSet(hits[w])
  /\ memory \in [Servers -> SUBSET HitRecord] /\ \A s \in Servers : IsFiniteSet(memory[s])

\* The checks of all servers are such.
ChecksOK ==
  /\ check \in [Servers -> CheckRecord \cup {NoCheck}]
  /\ \A s \in Servers : Dated(check[s]) /\ Ordered(check[s]) /\ Held(check[s])

\* A call that passed is a hit of its window for as long as it is recent.
PassedAreCounted ==
  \A a \in Passed :
    /\ a \in AdmissionRecord /\ a.at <= now
    /\ a.at > now - WindowTicks => HitOf(a) \in Counter(a.window, a.place)

\* Never more than the limit.
PassedWithinLimit ==
  \A w \in Windows, place \in Places : \A end \in Ends(place) :
    /\ IsFiniteSet(PassedUpTo(w, place, end))
    /\ Cardinality(PassedUpTo(w, place, end)) <= LimitOf[w]

\* Calls that passed are counted as if let through already: a check whose tenant's
\* window had room waits for its user's.
LimitsInv == CountersOK /\ ChecksOK /\ PassedAreCounted /\ PassedWithinLimit

\* A subset is not larger.
LEMMA NotLarger ==
  ASSUME NEW S, NEW T, S \subseteq T, IsFiniteSet(T), NEW limit \in Nat, Cardinality(T) <= limit
  PROVE  IsFiniteSet(S) /\ Cardinality(S) <= limit
<1>1. IsFiniteSet(S) /\ Cardinality(S) <= Cardinality(T)
  BY FS_Subset
<1>2. Cardinality(S) \in Nat /\ Cardinality(T) \in Nat
  BY <1>1, FS_CardinalityType
<1>. QED  BY <1>1, <1>2

\* Calls of one window and one place that are all hits are not more than the hits.
LEMMA NotMoreThanHits ==
  ASSUME NEW w, NEW place, NEW S \in SUBSET AdmissionRecord, NEW H, IsFiniteSet(H),
         \A a \in S : a.window = w /\ a.place = place /\ HitOf(a) \in H,
         NEW limit \in Nat, Cardinality(H) <= limit
  PROVE  IsFiniteSet(S) /\ Cardinality(S) <= limit
<1>. DEFINE f == [a \in S |-> HitOf(a)]
<1>1. ASSUME NEW a \in S, NEW b \in S, HitOf(a) = HitOf(b)
      PROVE  a = b
  <2>1. a.n = b.n /\ a.at = b.at /\ a.window = b.window /\ a.place = b.place
    BY <1>1 DEF HitOf
  <2>. QED  BY <2>1 DEF AdmissionRecord
<1>2. f \in Injection(S, H)
  BY <1>1 DEF Injection, IsInjective
<1>3. IsFiniteSet(S) /\ Cardinality(S) <= Cardinality(H)
  BY <1>2, FS_Injection
<1>4. Cardinality(S) \in Nat /\ Cardinality(H) \in Nat
  BY <1>3, FS_CardinalityType
<1>. QED  BY <1>3, <1>4

\* Adding a hit drops none that is recent.
LEMMA AddedKeeps ==
  ASSUME NEW set \in SUBSET HitRecord, IsFiniteSet(set), NEW n \in Nat, NEW at \in Nat,
         now \in Nat, at <= now
  PROVE  /\ Added(set, n, at) \in SUBSET HitRecord /\ IsFiniteSet(Added(set, n, at))
         /\ [n |-> n, at |-> at] \in Added(set, n, at)
         /\ \A h \in set : h.at > now - WindowTicks => h \in Added(set, n, at)
<1>1. Recent(set, at) \subseteq set
  BY DEF Recent
<1>2. IsFiniteSet(Recent(set, at))
  BY <1>1, FS_Subset
<1>3. IsFiniteSet(Added(set, n, at))
  BY <1>2, FS_AddElement DEF Added
<1>4. [n |-> n, at |-> at] \in HitRecord
  BY DEF HitRecord
<1>5. \A h \in set : h.at > now - WindowTicks => h \in Recent(set, at)
  BY LimitsAssumption DEF Recent, HitRecord
<1>. QED  BY <1>1, <1>3, <1>4, <1>5 DEF Added

\* The hits that are recent stay.
RecentStay ==
  \A w \in Windows, place \in Places : \A h \in Counter(w, place) :
    h.at > now - WindowTicks => h \in Counter(w, place)'

\* No call passes that had not passed.
LEMMA NothingPasses ==
  ASSUME LimitsInv, Passed' \subseteq Passed, now' \in {now, now + 1}, RecentStay
  PROVE  PassedAreCounted' /\ PassedWithinLimit'
<1>0. PassedAreCounted'
  <2>. SUFFICES ASSUME NEW a \in Passed'
                PROVE  /\ a \in AdmissionRecord /\ a.at <= now'
                       /\ a.at > now' - WindowTicks => HitOf(a) \in Counter(a.window, a.place)'
    BY DEF PassedAreCounted, HitOf, AdmissionRecord, Windows, Places, Counter
  <2>1. /\ now \in Nat /\ WindowTicks \in Nat /\ a \in AdmissionRecord /\ a.at <= now
        /\ a.at > now - WindowTicks => HitOf(a) \in Counter(a.window, a.place)
    BY LimitsAssumption DEF LimitsInv, CountersOK, PassedAreCounted
  <2>2. a.window \in Windows /\ a.place \in Places /\ a.at \in Nat /\ HitOf(a).at = a.at
    BY <2>1 DEF AdmissionRecord, HitOf
  <2>3. a.at > now' - WindowTicks => a.at > now - WindowTicks
    BY <2>1, <2>2
  <2>. QED  BY <2>1, <2>2, <2>3 DEF RecentStay
<1>. SUFFICES ASSUME NEW w \in Windows, NEW place \in Places, NEW end \in Ends(place)'
              PROVE  /\ IsFiniteSet(PassedUpTo(w, place, end)')
                     /\ Cardinality(PassedUpTo(w, place, end)') <= LimitOf[w]
  BY <1>0 DEF PassedWithinLimit, PassedUpTo, Ends
<1>1. now \in Nat /\ WindowTicks \in Nat /\ LimitOf[w] \in Nat
      /\ \A a \in Passed : a.at \in Nat /\ a.at <= now
  BY LimitsAssumption DEF LimitsInv, CountersOK, PassedAreCounted, AdmissionRecord
<1>2. PICK e \in Ends(place) : PassedUpTo(w, place, end)' \subseteq PassedUpTo(w, place, e)
  <2>1. CASE end \in Ends(place)
    BY <2>1 DEF PassedUpTo
  <2>2. CASE end \notin Ends(place)
    <3>1. end = now + 1 /\ now \in Ends(place)
      BY <1>1, <2>2 DEF Ends
    <3>2. \A a \in Passed : a.at \in end - WindowTicks + 1..end => a.at \in now - WindowTicks + 1..now
      BY <1>1, <3>1
    <3>. QED  BY <3>1, <3>2 DEF PassedUpTo
  <2>. QED  BY <2>1, <2>2
<1>. QED  BY <1>1, <1>2, NotLarger DEF LimitsInv, PassedWithinLimit

\* One call passes, counted where the count is within the limit.
LEMMA OnePasses ==
  ASSUME LimitsInv, NEW y \in AdmissionRecord, Passed' \subseteq Passed \cup {y}, now' = now,
         y.at <= now, y.place # "redis" => y.at = now, RecentStay,
         y.at > now - WindowTicks => HitOf(y) \in Counter(y.window, y.place)',
         IsFiniteSet(Counter(y.window, y.place)'),
         Cardinality(Counter(y.window, y.place)') <= LimitOf[y.window]
  PROVE  PassedAreCounted' /\ PassedWithinLimit'
<1>0. PassedAreCounted'
  <2>. SUFFICES ASSUME NEW a \in Passed'
                PROVE  /\ a \in AdmissionRecord /\ a.at <= now
                       /\ a.at > now - WindowTicks => HitOf(a) \in Counter(a.window, a.place)'
    BY DEF PassedAreCounted, HitOf, AdmissionRecord, Windows, Places, Counter
  <2>1. CASE a = y
    BY <2>1
  <2>2. CASE a \in Passed
    <3>1. /\ a \in AdmissionRecord /\ a.at <= now /\ HitOf(a).at = a.at
          /\ a.at > now - WindowTicks => HitOf(a) \in Counter(a.window, a.place)
      BY <2>2 DEF LimitsInv, PassedAreCounted, HitOf
    <3>2. a.window \in Windows /\ a.place \in Places
      BY <3>1 DEF AdmissionRecord
    <3>. QED  BY <3>1, <3>2 DEF RecentStay
  <2>. QED  BY <2>1, <2>2
<1>. SUFFICES ASSUME NEW w \in Windows, NEW place \in Places, NEW end \in Ends(place)'
              PROVE  /\ IsFiniteSet(PassedUpTo(w, place, end)')
                     /\ Cardinality(PassedUpTo(w, place, end)') <= LimitOf[w]
  BY <1>0 DEF PassedWithinLimit, PassedUpTo, Ends
<1>1. /\ now \in Nat /\ WindowTicks \in Nat /\ LimitOf[w] \in Nat
      /\ \A a \in Passed : a \in AdmissionRecord /\ a.at \in Nat /\ a.at <= now
      /\ y.at \in Nat /\ y.window \in Windows /\ y.place \in Places
  BY LimitsAssumption DEF LimitsInv, CountersOK, PassedAreCounted, AdmissionRecord
<1>2. end \in Ends(place) /\ (end = now \/ (end < now /\ place # "redis")) /\ end \in Nat
  BY <1>1 DEF Ends
<1>3. CASE w # y.window \/ place # y.place \/ end # now
  <2>1. PassedUpTo(w, place, end)' \subseteq PassedUpTo(w, place, end)
    BY <1>1, <1>2, <1>3 DEF PassedUpTo
  <2>. QED  BY <1>1, <1>2, <2>1, NotLarger DEF LimitsInv, PassedWithinLimit
<1>4. CASE w = y.window /\ place = y.place /\ end = now
  <2>. DEFINE S == PassedUpTo(w, place, end)'
  <2>1. \A a \in S : a \in Passed \cup {y} /\ a.window = w /\ a.place = place /\ a.at > now - WindowTicks
    BY <1>1, <1>4 DEF PassedUpTo
  <2>2. S \in SUBSET AdmissionRecord
    BY <1>1, <2>1
  <2>3. \A a \in S : HitOf(a) \in Counter(w, place)'
    <3>. SUFFICES ASSUME NEW a \in S  PROVE HitOf(a) \in Counter(w, place)'
      OBVIOUS
    <3>1. CASE a = y
      BY <1>4, <2>1, <3>1
    <3>2. CASE a \in Passed
      <4>1. HitOf(a) \in Counter(w, place) /\ HitOf(a).at = a.at
        BY <2>1, <3>2 DEF LimitsInv, PassedAreCounted, HitOf
      <4>. QED  BY <2>1, <4>1 DEF RecentStay
    <3>. QED  BY <2>1, <3>1, <3>2
  <2>. DEFINE H == Counter(w, place)'
              limit == LimitOf[w]
  <2>4. IsFiniteSet(H) /\ Cardinality(H) <= LimitOf[w]
    BY <1>4
  <2>5. \A a \in S : a.window = w /\ a.place = place /\ HitOf(a) \in H
    BY <2>1, <2>3
  <2>6. limit \in Nat
    BY <1>1
  <2>7. IsFiniteSet(H) /\ Cardinality(H) <= limit
    BY <2>4
  <2>. HIDE DEF S, H, limit
  <2>8. IsFiniteSet(S) /\ Cardinality(S) <= limit
    BY <2>2, <2>5, <2>6, <2>7, NotMoreThanHits
  <2>. QED  BY <2>8 DEF S, limit
<1>. QED  BY <1>3, <1>4

\* A check that nobody moves stays what it is, while time may pass.
LEMMA CheckStays ==
  ASSUME LimitsInv, RecentStay, now' \in {now, now + 1}, NEW r \in Servers, check'[r] = check[r]
  PROVE  Dated(check[r])' /\ Ordered(check[r])' /\ Held(check[r])'
<1>. PICK c : c = check[r]
  OBVIOUS
<1>1. /\ c \in CheckRecord \cup {NoCheck} /\ Dated(c) /\ Ordered(c) /\ Held(c) /\ check'[r] = c
      /\ now \in Nat /\ WindowTicks \in Nat
  BY LimitsAssumption DEF LimitsInv, CountersOK, ChecksOK
<1>2. Dated(c)'
  <2>1. c # NoCheck => c.when \in Nat /\ c.when <= now
    BY <1>1 DEF CheckRecord, ApiCheck, SentCheck, Dated
  <2>. QED  BY <1>1, <2>1 DEF Dated
<1>3. Held(c)'
  <2>. SUFFICES ASSUME c.at = "count", c.when > now' - WindowTicks
                PROVE  [n |-> c.n, at |-> c.when] \in hits'[c.left[1]]
    BY DEF Held
  <2>. DEFINE h == [n |-> c.n, at |-> c.when]
  <2>1. c \in ApiCheck
    BY <1>1 DEF CheckRecord, SentCheck, NoCheck
  <2>2. c.when \in Nat /\ c.left[1] \in Windows
    <3>1. c.user \in ApiUsers /\ c.when \in Nat
      BY <2>1 DEF ApiCheck
    <3>2. <<"tenant", c.user>>[1] = "tenant" /\ <<c.user>>[1] = c.user
      OBVIOUS
    <3>3. c.left[1] \in {"tenant", c.user}
      BY <1>1, <3>2 DEF Ordered
    <3>. QED  BY <3>1, <3>3 DEF Windows
  <2>3. c.when > now - WindowTicks
    BY <1>1, <2>2
  <2>4. h \in hits[c.left[1]] /\ h.at = c.when
    BY <1>1, <2>3 DEF Held
  <2>5. "redis" \in Places
    BY DEF Places
  <2>. HIDE DEF h
  <2>6. h \in hits'[c.left[1]]
    BY <2>2, <2>3, <2>4, <2>5 DEF RecentStay, Counter
  <2>. QED  BY <2>6 DEF h
<1>4. Ordered(c)'
  BY <1>1 DEF Ordered
<1>. QED  BY <1>1, <1>2, <1>3, <1>4 DEF Dated, Ordered, Held

\* A check moves: what it gives up had passed, what it takes on it has passed.
LEMMA CheckMoves ==
  ASSUME LimitsInv, RecentStay, now' = now, NEW s \in Servers,
         NEW c \in CheckRecord \cup {NoCheck}, check' = [check EXCEPT ![s] = c],
         Dated(c), Ordered(c), Held(c)'
  PROVE  /\ ChecksOK'
         /\ \A a \in Passed' :
              \/ a \in admitted' \/ a \in Passed
              \/ /\ c.at \in {"add", "count"} /\ c.left = <<c.user>> /\ c.ok
                 /\ a = Admission("tenant", "redis", c.n, c.began)
<1>1. /\ check' \in [Servers -> CheckRecord \cup {NoCheck}] /\ check'[s] = c
      /\ \A r \in Servers : r # s => check'[r] = check[r]
  BY DEF LimitsInv, ChecksOK
<1>2. ASSUME NEW r \in Servers
      PROVE  Dated(check[r])' /\ Ordered(check[r])' /\ Held(check[r])'
  <2>1. CASE r = s
    BY <1>1, <2>1 DEF Dated, Ordered, Held
  <2>2. CASE r # s
    BY <1>1, <2>2, CheckStays
  <2>. QED  BY <2>1, <2>2
<1>3. ChecksOK'
  BY <1>1, <1>2 DEF ChecksOK
<1>4. ASSUME NEW r \in Servers, r # s, TenantPassed(r)'
      PROVE  ForTenant(r)' \in Passed
  <2>1. TenantPassed(r) /\ ForTenant(r)' = ForTenant(r)
    BY <1>1, <1>4 DEF TenantPassed, ForTenant, Admission
  <2>. QED  BY <2>1 DEF Passed
<1>5. TenantPassed(s)' => /\ c.at \in {"add", "count"} /\ c.left = <<c.user>> /\ c.ok
                          /\ ForTenant(s)' = Admission("tenant", "redis", c.n, c.began)
  BY <1>1 DEF TenantPassed, ForTenant
<1>. QED  BY <1>3, <1>4, <1>5 DEF Passed

\* Redis comes or goes, time passes, or nothing happens.
LEMMA NothingMoves ==
  ASSUME LimitsInv, UNCHANGED <<hits, memory, check, admitted>>, now' \in {now, now + 1},
         checks' \in Nat
  PROVE  LimitsInv'
<1>1. RecentStay
  BY DEF RecentStay, Counter
<1>2. CountersOK'
  BY DEF LimitsInv, CountersOK
<1>3. ASSUME NEW r \in Servers  PROVE Dated(check[r])' /\ Ordered(check[r])' /\ Held(check[r])'
  BY <1>1, CheckStays
<1>4. ChecksOK'
  BY <1>3 DEF LimitsInv, ChecksOK
<1>5. Passed' = Passed
  BY DEF Passed, TenantPassed, ForTenant, Admission
<1>6. PassedAreCounted' /\ PassedWithinLimit'
  BY <1>1, <1>5, NothingPasses
<1>. QED  BY <1>2, <1>4, <1>6 DEF LimitsInv

\* A check begins, or is sent: no window has been counted for it.
LEMMA CheckSet ==
  ASSUME LimitsInv, NEW s \in Servers, NEW c \in CheckRecord, Checks(s, c), Dated(c), Ordered(c),
         c.at \in {"add", "send"}, c.at = "add" => c.left # <<c.user>>,
         UNCHANGED <<now, hits, memory, admitted>>, checks' \in Nat
  PROVE  LimitsInv'
<1>1. RecentStay
  BY DEF RecentStay, Counter
<1>2. CountersOK'
  BY DEF LimitsInv, CountersOK
<1>3. ChecksOK' /\ \A a \in Passed' : a \in admitted' \/ a \in Passed
  BY <1>1, CheckMoves DEF Checks, Held
<1>4. Passed' \subseteq Passed
  BY <1>3 DEF Passed
<1>5. PassedAreCounted' /\ PassedWithinLimit'
  BY <1>1, <1>4, NothingPasses
<1>. QED  BY <1>2, <1>3, <1>5 DEF LimitsInv

\* A check of the REST API begins.
LEMMA CheckApiStep ==
  ASSUME LimitsInv, NEW s \in Servers, NEW u \in ApiUsers, CheckApi(s, u)
  PROVE  LimitsInv'
<1>0. /\ now \in Nat /\ checks \in Nat /\ checks' = checks + 1 /\ UNCHANGED <<now, hits, memory, admitted>>
  BY DEF LimitsInv, CountersOK, CheckApi, CheckBegins
<1>1. CASE UNCHANGED check
  BY <1>0, <1>1, NothingMoves
<1>2. CASE Checks(s, [at |-> "add", user |-> u, n |-> checks, began |-> now, when |-> now,
                      left |-> <<"tenant", u>>, ok |-> TRUE])
  <2>. DEFINE c == [at |-> "add", user |-> u, n |-> checks, began |-> now, when |-> now,
                    left |-> <<"tenant", u>>, ok |-> TRUE]
  <2>1. <<"tenant", u>> \in Seq(Windows) /\ <<"tenant", u>> # <<u>>
    BY DEF Windows
  <2>2. c \in CheckRecord
    BY <1>0, <2>1 DEF CheckRecord, ApiCheck
  <2>3. /\ c.at = "add" /\ c.began = now /\ c.when = now /\ c.user = u /\ c.left = <<"tenant", u>>
        /\ Checks(s, c)
    BY <1>2
  <2>. HIDE DEF c
  <2>4. Dated(c) /\ Ordered(c) /\ c.left # <<c.user>> /\ checks' \in Nat
    BY <1>0, <2>1, <2>3 DEF Dated, Ordered
  <2>. QED  BY <1>0, <2>2, <2>3, <2>4, CheckSet
<1>. QED  BY <1>1, <1>2 DEF CheckApi

\* The pipeline of a check is put together.
LEMMA SendsStep ==
  ASSUME LimitsInv, NEW s \in Servers, NEW w \in {"bucket", "login"}, Sends(s, w),
         checks' = checks + 1, UNCHANGED <<now, hits, memory, admitted>>
  PROVE  LimitsInv'
<1>. DEFINE c == [at |-> "send", window |-> w, n |-> checks, when |-> now]
<1>1. now \in Nat /\ checks \in Nat /\ checks' \in Nat
  BY DEF LimitsInv, CountersOK
<1>2. c \in CheckRecord /\ c.at = "send" /\ c.when = now /\ Checks(s, c)
  BY <1>1 DEF CheckRecord, SentCheck, Sends
<1>. HIDE DEF c
<1>3. Dated(c) /\ Ordered(c)
  BY <1>1, <1>2 DEF Dated, Ordered
<1>. QED  BY <1>1, <1>2, <1>3, CheckSet

\* What is known of a check that is under way in commands of its own.
LEMMA CheckUnderWay ==
  ASSUME LimitsInv, NEW s \in Servers, check[s].at \in {"add", "count"}
  PROVE  /\ check[s] \in ApiCheck /\ check[s] \in CheckRecord /\ WindowOf(s) \in Windows
         /\ check[s].user \in ApiUsers /\ check[s].ok \in BOOLEAN
         /\ check[s].n \in Nat /\ check[s].began \in Nat /\ check[s].when \in Nat
         /\ check[s].began <= check[s].when /\ check[s].when <= now
         /\ \/ /\ check[s].left = <<"tenant", check[s].user>> /\ check[s].when = check[s].began
               /\ Len(check[s].left) = 2 /\ WindowOf(s) = "tenant"
            \/ /\ check[s].left = <<check[s].user>> /\ Len(check[s].left) = 1
               /\ WindowOf(s) = check[s].user
<1>1. check[s] # NoCheck
  BY DEF NoCheck
<1>2. check[s] \in ApiCheck
  BY <1>1 DEF LimitsInv, ChecksOK, CheckRecord, SentCheck
<1>3. /\ check[s].user \in ApiUsers /\ check[s].ok \in BOOLEAN
      /\ check[s].n \in Nat /\ check[s].began \in Nat /\ check[s].when \in Nat
  BY <1>2 DEF ApiCheck
<1>4. /\ check[s].began <= check[s].when /\ check[s].when <= now
      /\ \/ check[s].left = <<"tenant", check[s].user>> /\ check[s].when = check[s].began
         \/ check[s].left = <<check[s].user>>
  BY <1>1 DEF LimitsInv, ChecksOK, Dated, Ordered
<1>. DEFINE u == check[s].user
<1>5. \/ check[s].left = <<"tenant", u>> /\ Len(check[s].left) = 2 /\ WindowOf(s) = "tenant"
      \/ check[s].left = <<u>> /\ Len(check[s].left) = 1 /\ WindowOf(s) = u
  <2>. HIDE DEF u
  <2>1. check[s].left = <<"tenant", u>> \/ check[s].left = <<u>>
    BY <1>4 DEF u
  <2>2. Len(<<"tenant", u>>) = 2 /\ <<"tenant", u>>[1] = "tenant" /\ Len(<<u>>) = 1 /\ <<u>>[1] = u
    OBVIOUS
  <2>. QED  BY <2>1, <2>2 DEF WindowOf
<1>6. <<"tenant", u>> # <<u>> /\ u \in ApiUsers
  BY <1>3
<1>7. WindowOf(s) \in Windows
  BY <1>5, <1>6 DEF Windows
<1>. QED  BY <1>2, <1>3, <1>4, <1>5, <1>6, <1>7 DEF CheckRecord

\* A hit is added to a window, to the memory of a process, to both or to none.
LEMMA CountersGrow ==
  ASSUME LimitsInv, NEW w \in Windows, NEW s \in Servers, NEW n \in Nat, NEW when \in Nat,
         when <= now, now' = now, checks' \in Nat,
         hits' = hits \/ hits' = [hits EXCEPT ![w] = Added(hits[w], n, when)],
         memory' = memory \/ memory' = [memory EXCEPT ![s] = Added(memory[s], n, now)]
  PROVE  CountersOK' /\ RecentStay
<1>1. /\ now \in Nat /\ now <= now
      /\ hits \in [Windows -> SUBSET HitRecord] /\ \A v \in Windows : IsFiniteSet(hits[v])
      /\ memory \in [Servers -> SUBSET HitRecord] /\ \A r \in Servers : IsFiniteSet(memory[r])
  BY DEF LimitsInv, CountersOK
<1>. PICK before, stored : before = hits[w] /\ stored = memory[s]
  OBVIOUS
<1>2. /\ before \in SUBSET HitRecord /\ IsFiniteSet(before)
      /\ stored \in SUBSET HitRecord /\ IsFiniteSet(stored)
  BY <1>1
<1>. PICK set, mine : set = Added(before, n, when) /\ mine = Added(stored, n, now)
  OBVIOUS
<1>3. /\ set \in SUBSET HitRecord /\ IsFiniteSet(set)
      /\ \A h \in before : h.at > now - WindowTicks => h \in set
  BY <1>1, <1>2, AddedKeeps
<1>4. /\ mine \in SUBSET HitRecord /\ IsFiniteSet(mine)
      /\ \A h \in stored : h.at > now - WindowTicks => h \in mine
  BY <1>1, <1>2, AddedKeeps
<1>5. /\ hits' \in [Windows -> SUBSET HitRecord]
      /\ \A v \in Windows : hits'[v] = hits[v] \/ (hits[v] = before /\ hits'[v] = set)
  BY <1>1, <1>3
<1>6. /\ memory' \in [Servers -> SUBSET HitRecord]
      /\ \A r \in Servers : memory'[r] = memory[r] \/ (memory[r] = stored /\ memory'[r] = mine)
  BY <1>1, <1>4
<1>7. CountersOK'
  BY <1>1, <1>3, <1>4, <1>5, <1>6 DEF CountersOK
<1>8. RecentStay
  <2>. SUFFICES ASSUME NEW v \in Windows, NEW p \in Places, NEW h \in Counter(v, p),
                       h.at > now - WindowTicks
                PROVE  h \in Counter(v, p)'
    BY DEF RecentStay
  <2>1. CASE p = "redis"
    BY <1>3, <1>5, <2>1 DEF Counter
  <2>2. CASE p # "redis"
    BY <1>4, <1>6, <2>2 DEF Counter, Places
  <2>. QED  BY <2>1, <2>2
<1>. QED  BY <1>7, <1>8

\* RateLimiter.check adds its hit.
LEMMA AddHitStep ==
  ASSUME LimitsInv, NEW s \in Servers, AddHit(s)
  PROVE  LimitsInv'
<1>. PICK c, w : c = [check[s] EXCEPT !.at = "count"] /\ w = WindowOf(s)
  OBVIOUS
<1>1. /\ check[s].at = "add" /\ UNCHANGED <<now, memory, checks, admitted>>
      /\ check' = [check EXCEPT ![s] = c]
      /\ hits' = [hits EXCEPT ![w] = Added(hits[w], check[s].n, check[s].when)]
  BY DEF AddHit, Checks
<1>2. /\ check[s] \in ApiCheck /\ w \in Windows
      /\ check[s].n \in Nat /\ check[s].when \in Nat /\ check[s].when <= now
      /\ check[s].began <= check[s].when
      /\ \/ check[s].left = <<"tenant", check[s].user>> /\ check[s].when = check[s].began
         \/ check[s].left = <<check[s].user>>
  BY <1>1, CheckUnderWay
<1>3. /\ c \in CheckRecord /\ c.at = "count" /\ c.user = check[s].user /\ c.n = check[s].n
      /\ c.began = check[s].began /\ c.when = check[s].when /\ c.left = check[s].left
      /\ c.ok = check[s].ok
  BY <1>2 DEF CheckRecord, ApiCheck
<1>4. /\ hits \in [Windows -> SUBSET HitRecord] /\ checks' \in Nat
  BY <1>1 DEF LimitsInv, CountersOK
<1>5. w = c.left[1]
  BY <1>3 DEF WindowOf
<1>6. CountersOK' /\ RecentStay
  BY <1>1, <1>2, <1>4, CountersGrow
<1>7. [n |-> c.n, at |-> c.when] \in hits'[w]
  BY <1>1, <1>2, <1>3, <1>4 DEF Added
<1>8. Dated(c) /\ Ordered(c) /\ Held(c)'
  BY <1>2, <1>3, <1>5, <1>7 DEF Dated, Ordered, Held
<1>9. /\ ChecksOK'
      /\ \A a \in Passed' :
           \/ a \in admitted' \/ a \in Passed
           \/ /\ c.at \in {"add", "count"} /\ c.left = <<c.user>> /\ c.ok
              /\ a = Admission("tenant", "redis", c.n, c.began)
  <2>1. now' = now /\ c \in CheckRecord \cup {NoCheck} /\ check' = [check EXCEPT ![s] = c]
    BY <1>1, <1>3
  <2>. QED  BY <1>6, <1>8, <2>1, CheckMoves, Zenon
<1>10. (c.left = <<c.user>> /\ c.ok) => Admission("tenant", "redis", c.n, c.began) \in Passed
  BY <1>1, <1>3 DEF Passed, TenantPassed, ForTenant
<1>11. Passed' \subseteq Passed
  BY <1>1, <1>9, <1>10 DEF Passed
<1>12. PassedAreCounted' /\ PassedWithinLimit'
  BY <1>1, <1>6, <1>11, NothingPasses
<1>. QED  BY <1>6, <1>9, <1>12 DEF LimitsInv

\* A check is over, or there was none.
LEMMA CheckLeaves ==
  ASSUME LimitsInv, RecentStay, now' = now, NEW s \in Servers, Checks(s, NoCheck) \/ UNCHANGED check
  PROVE  ChecksOK' /\ \A a \in Passed' : a \in admitted' \/ a \in Passed
<1>1. CASE Checks(s, NoCheck)
  <2>1. Dated(NoCheck) /\ Ordered(NoCheck) /\ Held(NoCheck)' /\ NoCheck.at = "none"
    BY DEF NoCheck, Dated, Ordered, Held
  <2>. QED  BY <1>1, <2>1, CheckMoves DEF Checks
<1>2. CASE UNCHANGED check
  <2>1. ASSUME NEW r \in Servers  PROVE Dated(check[r])' /\ Ordered(check[r])' /\ Held(check[r])'
    BY <1>2, CheckStays
  <2>2. ChecksOK'
    BY <1>2, <2>1 DEF LimitsInv, ChecksOK
  <2>. QED  BY <1>2, <2>2 DEF Passed, TenantPassed, ForTenant, Admission
<1>. QED  BY <1>1, <1>2

\* A check ends without its call being let through.
LEMMA CheckEnds ==
  ASSUME LimitsInv, CountersOK', RecentStay, now' = now, NEW s \in Servers,
         Checks(s, NoCheck) \/ UNCHANGED check, UNCHANGED admitted
  PROVE  LimitsInv'
<1>1. ChecksOK' /\ \A a \in Passed' : a \in admitted' \/ a \in Passed
  BY CheckLeaves
<1>2. Passed' \subseteq Passed
  BY <1>1 DEF Passed
<1>3. PassedAreCounted' /\ PassedWithinLimit'
  BY <1>2, NothingPasses
<1>. QED  BY <1>1, <1>3 DEF LimitsInv

\* A check ends, and its call is let through: the window that counts it has room.
LEMMA CheckAdmits ==
  ASSUME LimitsInv, CountersOK', RecentStay, now' = now, NEW s \in Servers,
         Checks(s, NoCheck) \/ UNCHANGED check,
         NEW y \in AdmissionRecord, admitted' \subseteq Passed \cup {y},
         y.at <= now, y.place # "redis" => y.at = now,
         y.at > now - WindowTicks => HitOf(y) \in Counter(y.window, y.place)',
         Cardinality(Counter(y.window, y.place)') <= LimitOf[y.window]
  PROVE  LimitsInv'
<1>1. ChecksOK' /\ \A a \in Passed' : a \in admitted' \/ a \in Passed
  BY CheckLeaves
<1>2. Passed' \subseteq Passed \cup {y}
  BY <1>1 DEF Passed
<1>3. IsFiniteSet(Counter(y.window, y.place)')
  BY DEF CountersOK, Counter, AdmissionRecord, Places
<1>4. PassedAreCounted' /\ PassedWithinLimit'
  BY <1>2, <1>3, OnePasses
<1>. QED  BY <1>1, <1>4 DEF LimitsInv

\* The tenant's window is counted: the call has passed there, or never will.
LEMMA TenantCounted ==
  ASSUME LimitsInv, NEW s \in Servers, check[s].at = "count",
         check[s].left = <<"tenant", check[s].user>>, WindowOf(s) = "tenant",
         NEW ok \in BOOLEAN, ok => Within(Cardinality(hits["tenant"]), LimitOf["tenant"]),
         Checks(s, [check[s] EXCEPT !.at = "add", !.left = <<check[s].user>>, !.when = now, !.ok = ok]),
         UNCHANGED <<now, hits, memory, checks, admitted>>
  PROVE  LimitsInv'
<1>. PICK c : c = [check[s] EXCEPT !.at = "add", !.left = <<check[s].user>>, !.when = now, !.ok = ok]
  OBVIOUS
<1>. PICK x : x = Admission("tenant", "redis", check[s].n, check[s].began)
  OBVIOUS
<1>1. /\ check[s] \in ApiCheck /\ check[s].user \in ApiUsers
      /\ check[s].n \in Nat /\ check[s].began \in Nat /\ check[s].when \in Nat
      /\ check[s].began <= check[s].when /\ check[s].when <= now
  BY CheckUnderWay
<1>2. now \in Nat /\ "tenant" \in Windows /\ "redis" \in Places /\ IsFiniteSet(hits["tenant"])
  BY DEF LimitsInv, CountersOK, Windows, Places
<1>3. <<check[s].user>> \in Seq(Windows) /\ check[s].began <= now
  BY <1>1, <1>2 DEF Windows
<1>4. /\ c \in CheckRecord /\ c.at = "add" /\ c.user = check[s].user /\ c.n = check[s].n
      /\ c.began = check[s].began /\ c.when = now /\ c.left = <<check[s].user>> /\ c.ok = ok
  BY <1>1, <1>2, <1>3 DEF CheckRecord, ApiCheck
<1>5. check' = [check EXCEPT ![s] = c]
  BY DEF Checks
<1>6. check[s].when = check[s].began /\ check[s].left[1] = "tenant"
  <2>1. <<"tenant", check[s].user>> # <<check[s].user>>
    OBVIOUS
  <2>. QED  BY <2>1, CheckUnderWay DEF WindowOf
<1>7. x.at > now - WindowTicks => HitOf(x) \in hits["tenant"]
  BY <1>6 DEF LimitsInv, ChecksOK, Held, HitOf, Admission
<1>8. /\ x \in AdmissionRecord /\ x.at = check[s].began /\ x.window = "tenant" /\ x.place = "redis"
  BY <1>1, <1>2 DEF Admission, AdmissionRecord
<1>9. RecentStay
  BY DEF RecentStay, Counter
<1>10. Dated(c) /\ Ordered(c) /\ Held(c)'
  BY <1>2, <1>3, <1>4 DEF Dated, Ordered, Held
<1>11. /\ ChecksOK'
       /\ \A a \in Passed' :
            \/ a \in admitted' \/ a \in Passed
            \/ /\ c.at \in {"add", "count"} /\ c.left = <<c.user>> /\ c.ok
               /\ a = Admission("tenant", "redis", c.n, c.began)
  <2>1. now' = now /\ c \in CheckRecord \cup {NoCheck}
    BY <1>4
  <2>. QED  BY <1>5, <1>9, <1>10, <2>1, CheckMoves, Zenon
<1>12. CountersOK'
  BY DEF LimitsInv, CountersOK
<1>13. CASE ~ok
  <2>1. Passed' \subseteq Passed
    BY <1>4, <1>11, <1>13 DEF Passed
  <2>2. PassedAreCounted' /\ PassedWithinLimit'
    BY <1>9, <2>1, NothingPasses
  <2>. QED  BY <1>11, <1>12, <2>2 DEF LimitsInv
<1>14. CASE ok
  <2>1. Passed' \subseteq Passed \cup {x}
    BY <1>4, <1>11 DEF Passed
  <2>2. Counter("tenant", "redis")' = hits["tenant"] /\ Cardinality(hits["tenant"]) <= LimitOf["tenant"]
    BY <1>14 DEF Counter, Within
  <2>3. /\ x.at <= now /\ x.place = "redis"
        /\ x.at > now - WindowTicks => HitOf(x) \in Counter(x.window, x.place)'
        /\ IsFiniteSet(Counter(x.window, x.place)')
        /\ Cardinality(Counter(x.window, x.place)') <= LimitOf[x.window]
    BY <1>2, <1>3, <1>7, <1>8, <2>2 DEF Counter
  <2>4. PassedAreCounted' /\ PassedWithinLimit'
    BY <1>8, <1>9, <2>1, <2>3, OnePasses
  <2>. QED  BY <1>11, <1>12, <2>4 DEF LimitsInv
<1>. QED  BY <1>13, <1>14

\* The user's window is counted, and has room too: the call is let through.
LEMMA UserCounted ==
  ASSUME LimitsInv, NEW s \in Servers, check[s].at = "count", check[s].ok,
         check[s].left = <<check[s].user>>, WindowOf(s) = check[s].user,
         Within(Cardinality(hits[check[s].user]), LimitOf[check[s].user]),
         Checks(s, NoCheck),
         Admits({Admission("tenant", "redis", check[s].n, check[s].began),
                 Admission(check[s].user, "redis", check[s].n, check[s].when)}),
         UNCHANGED <<now, hits, memory, checks>>
  PROVE  LimitsInv'
<1>. PICK x, y, u : /\ x = Admission("tenant", "redis", check[s].n, check[s].began)
                    /\ y = Admission(check[s].user, "redis", check[s].n, check[s].when)
                    /\ u = check[s].user
  OBVIOUS
<1>1. /\ u \in ApiUsers /\ check[s].n \in Nat /\ check[s].when \in Nat /\ check[s].when <= now
  BY CheckUnderWay
<1>2. u \in Windows /\ "redis" \in Places
  BY <1>1 DEF Windows, Places
<1>3. x \in Passed
  BY DEF Passed, TenantPassed, ForTenant
<1>4. y.at > now - WindowTicks => HitOf(y) \in hits[u]
  BY DEF LimitsInv, ChecksOK, Held, HitOf, Admission, WindowOf
<1>5. y \in AdmissionRecord /\ y.at = check[s].when /\ y.window = u /\ y.place = "redis"
  BY <1>1, <1>2 DEF Admission, AdmissionRecord
<1>6. RecentStay
  BY DEF RecentStay, Counter
<1>7. CountersOK'
  BY DEF LimitsInv, CountersOK
<1>8. /\ y.at <= now
      /\ y.at > now - WindowTicks => HitOf(y) \in Counter(y.window, y.place)'
      /\ Cardinality(Counter(y.window, y.place)') <= LimitOf[y.window]
  BY <1>1, <1>4, <1>5 DEF Counter, Within
<1>9. admitted' \subseteq Passed \cup {y}
  BY <1>3 DEF Admits, Passed
<1>. QED  BY <1>3, <1>5, <1>6, <1>7, <1>8, <1>9, CheckAdmits

\* RateLimiter.check counts.
LEMMA CountHitsStep ==
  ASSUME LimitsInv, NEW s \in Servers, CountHits(s)
  PROVE  LimitsInv'
<1>. PICK ok \in BOOLEAN :
       ok = (check[s].ok /\ Within(Cardinality(hits[WindowOf(s)]), LimitOf[WindowOf(s)]))
  OBVIOUS
<1>1. check[s].at = "count" /\ UNCHANGED <<now, hits, memory, checks>>
  BY DEF CountHits
<1>2. \/ /\ check[s].left = <<"tenant", check[s].user>> /\ Len(check[s].left) = 2 /\ WindowOf(s) = "tenant"
      \/ /\ check[s].left = <<check[s].user>> /\ Len(check[s].left) = 1 /\ WindowOf(s) = check[s].user
  BY <1>1, CheckUnderWay
<1>3. ok \in BOOLEAN /\ (ok => Within(Cardinality(hits[WindowOf(s)]), LimitOf[WindowOf(s)]))
      /\ (ok => check[s].ok)
  BY <1>1, CheckUnderWay
<1>4. IF Len(check[s].left) = 2
      THEN /\ Checks(s, [check[s] EXCEPT !.at = "add", !.left = <<check[s].user>>, !.when = now, !.ok = ok])
           /\ UNCHANGED admitted
      ELSE /\ Checks(s, NoCheck)
           /\ IF ok THEN Admits({Admission("tenant", "redis", check[s].n, check[s].began),
                                Admission(check[s].user, "redis", check[s].n, check[s].when)})
              ELSE UNCHANGED admitted
  BY DEF CountHits
<1>5. CASE Len(check[s].left) = 2
  <2>1. Checks(s, [check[s] EXCEPT !.at = "add", !.left = <<check[s].user>>, !.when = now, !.ok = ok])
        /\ UNCHANGED admitted
    BY <1>4, <1>5
  <2>2. /\ check[s].left = <<"tenant", check[s].user>> /\ WindowOf(s) = "tenant"
        /\ ok => Within(Cardinality(hits["tenant"]), LimitOf["tenant"])
    BY <1>2, <1>3, <1>5
  <2>. QED  BY <1>1, <2>1, <2>2, TenantCounted
<1>6. CASE Len(check[s].left) # 2 /\ ok
  BY <1>1, <1>2, <1>3, <1>4, <1>6, UserCounted
<1>7. CASE Len(check[s].left) # 2 /\ ~ok
  <2>1. CountersOK' /\ RecentStay
    BY <1>1 DEF LimitsInv, CountersOK, RecentStay, Counter
  <2>. QED  BY <1>1, <1>4, <1>7, <2>1, CheckEnds
<1>. QED  BY <1>5, <1>6, <1>7

\* A command of RateLimiter.check fails.
LEMMA CheckBreaksStep ==
  ASSUME LimitsInv, NEW s \in Servers, CheckBreaks(s)
  PROVE  LimitsInv'
<1>1. UNCHANGED <<now, hits, memory, checks, admitted>> /\ Checks(s, NoCheck)
  BY DEF CheckBreaks
<1>2. CountersOK' /\ RecentStay
  BY <1>1 DEF LimitsInv, CountersOK, RecentStay, Counter
<1>. QED  BY <1>1, <1>2, CheckEnds

\* A login counted in the memory of the process.
LEMMA LoginInMemory ==
  ASSUME LimitsInv, NEW s \in Servers, NEW n \in Nat, CountersOK', RecentStay, now' = now,
         Checks(s, NoCheck) \/ UNCHANGED check, InMemory(s, n)
  PROVE  LimitsInv'
<1>. PICK set : set = Added(memory[s], n, now)
  OBVIOUS
<1>1. /\ now \in Nat /\ s \in Places /\ s # "redis" /\ "login" \in Windows
      /\ memory \in [Servers -> SUBSET HitRecord]
  BY LimitsAssumption DEF LimitsInv, CountersOK, Places, Windows
<1>2. memory' = [memory EXCEPT ![s] = set]
  BY DEF InMemory
<1>3. Counter("login", s)' = set
  BY <1>1, <1>2 DEF Counter
<1>4. CASE UNCHANGED admitted
  BY <1>4, CheckEnds
<1>5. CASE Within(Cardinality(set), LimitOf["login"]) /\ Admits({Admission("login", s, n, now)})
  <2>. PICK y : y = Admission("login", s, n, now)
    OBVIOUS
  <2>1. /\ y \in AdmissionRecord /\ y.at = now /\ y.window = "login" /\ y.place = s
        /\ HitOf(y) = [n |-> n, at |-> now]
    BY <1>1 DEF Admission, AdmissionRecord, HitOf
  <2>2. HitOf(y) \in set
    BY <2>1 DEF Added
  <2>3. admitted' \subseteq Passed \cup {y}
    BY <1>5 DEF Admits, Passed
  <2>4. /\ y.at <= now /\ HitOf(y) \in Counter(y.window, y.place)'
        /\ Cardinality(Counter(y.window, y.place)') <= LimitOf[y.window]
    BY <1>1, <1>3, <1>5, <2>1, <2>2 DEF Within
  <2>. QED  BY <2>1, <2>3, <2>4, CheckAdmits
<1>6. \/ UNCHANGED admitted
      \/ Within(Cardinality(set), LimitOf["login"]) /\ Admits({Admission("login", s, n, now)})
  BY DEF InMemory
<1>. QED  BY <1>4, <1>5, <1>6

\* check_buckets.
LEMMA CheckBucketsStep ==
  ASSUME LimitsInv, NEW s \in Servers, CheckBuckets(s)
  PROVE  LimitsInv'
<1>1. checks \in Nat /\ checks' = checks + 1 /\ UNCHANGED <<now, hits, memory, admitted>>
  BY DEF LimitsInv, CountersOK, CheckBuckets, CheckBegins
<1>2. CASE Sends(s, "bucket")
  BY <1>1, <1>2, SendsStep
<1>3. CASE UNCHANGED check
  BY <1>1, <1>3, NothingMoves
<1>. QED  BY <1>2, <1>3 DEF CheckBuckets

\* _check_login_rate_limit.
LEMMA CheckLoginStep ==
  ASSUME LimitsInv, NEW s \in Servers, CheckLogin(s)
  PROVE  LimitsInv'
<1>1. now \in Nat /\ checks \in Nat /\ checks' = checks + 1 /\ UNCHANGED <<now, hits>>
  BY DEF LimitsInv, CountersOK, CheckLogin, CheckBegins
<1>2. CASE Sends(s, "login") /\ UNCHANGED <<memory, admitted>>
  BY <1>1, <1>2, SendsStep
<1>3. CASE InMemory(s, checks) /\ UNCHANGED check
  <2>1. /\ memory' = [memory EXCEPT ![s] = Added(memory[s], checks, now)]
        /\ "login" \in Windows /\ checks' \in Nat /\ now <= now
    BY <1>1, <1>3 DEF InMemory, Windows
  <2>2. CountersOK' /\ RecentStay
    BY <1>1, <2>1, CountersGrow
  <2>. QED  BY <1>1, <1>3, <2>2, LoginInMemory
<1>. QED  BY <1>2, <1>3 DEF CheckLogin

\* What is known of a check whose pipeline has been put together.
LEMMA CheckSent ==
  ASSUME LimitsInv, NEW s \in Servers, check[s].at = "send"
  PROVE  /\ check[s] \in SentCheck /\ check[s].window \in {"bucket", "login"}
         /\ check[s].window \in Windows /\ check[s].n \in Nat /\ check[s].when \in Nat
         /\ check[s].when <= now
<1>1. check[s] # NoCheck
  BY DEF NoCheck
<1>2. check[s] \in SentCheck /\ check[s].when <= now
  BY <1>1 DEF LimitsInv, ChecksOK, CheckRecord, ApiCheck, Dated
<1>. QED  BY <1>2 DEF SentCheck, Windows

\* A transaction over a window of Redis: it adds and counts, however late it comes.
LEMMA PipelinedStep ==
  ASSUME LimitsInv, NEW s \in Servers, Pipelined(s)
  PROVE  LimitsInv'
<1>. PICK c, set : c = check[s] /\ set = Added(hits[c.window], c.n, c.when)
  OBVIOUS
<1>1. /\ c.at = "send" /\ UNCHANGED <<now, memory, checks>> /\ Checks(s, NoCheck)
      /\ hits' = [hits EXCEPT ![c.window] = set]
  BY DEF Pipelined
<1>2. c.window \in Windows /\ c.n \in Nat /\ c.when \in Nat /\ c.when <= now
  BY <1>1, CheckSent
<1>3. checks' \in Nat /\ hits \in [Windows -> SUBSET HitRecord] /\ "redis" \in Places
  BY <1>1 DEF LimitsInv, CountersOK, Places
<1>4. CountersOK' /\ RecentStay
  BY <1>1, <1>2, <1>3, CountersGrow
<1>5. CASE UNCHANGED admitted
  BY <1>1, <1>4, <1>5, CheckEnds
<1>6. CASE /\ Within(Cardinality(set), LimitOf[c.window])
           /\ Admits({Admission(c.window, "redis", c.n, c.when)})
  <2>. PICK y : y = Admission(c.window, "redis", c.n, c.when)
    OBVIOUS
  <2>1. /\ y \in AdmissionRecord /\ y.at = c.when /\ y.window = c.window /\ y.place = "redis"
        /\ HitOf(y) = [n |-> c.n, at |-> c.when]
    BY <1>2, <1>3 DEF Admission, AdmissionRecord, HitOf
  <2>2. HitOf(y) \in set
    BY <2>1 DEF Added
  <2>3. Counter(y.window, y.place)' = set
    BY <1>1, <1>2, <1>3, <2>1 DEF Counter
  <2>4. admitted' \subseteq Passed \cup {y} /\ Cardinality(set) <= LimitOf[y.window]
    BY <1>6, <2>1 DEF Admits, Within, Passed
  <2>. QED  BY <1>1, <1>2, <1>4, <2>1, <2>2, <2>3, <2>4, CheckAdmits
<1>7. \/ UNCHANGED admitted
      \/ /\ Within(Cardinality(set), LimitOf[c.window])
         /\ Admits({Admission(c.window, "redis", c.n, c.when)})
  BY DEF Pipelined
<1>. QED  BY <1>5, <1>6, <1>7

\* The pipeline fails, executed or not.
LEMMA PipelineBreaksStep ==
  ASSUME LimitsInv, NEW s \in Servers, PipelineBreaks(s)
  PROVE  LimitsInv'
<1>. PICK c : c = check[s]
  OBVIOUS
<1>1. /\ c.at = "send" /\ UNCHANGED <<now, checks>> /\ Checks(s, NoCheck)
      /\ hits' = hits \/ hits' = [hits EXCEPT ![c.window] = Added(hits[c.window], c.n, c.when)]
  BY DEF PipelineBreaks
<1>2. c.window \in Windows /\ c.n \in Nat /\ c.when \in Nat /\ c.when <= now
  BY <1>1, CheckSent
<1>3. checks' \in Nat
  BY <1>1 DEF LimitsInv, CountersOK
<1>4. memory' = memory \/ memory' = [memory EXCEPT ![s] = Added(memory[s], c.n, now)]
  BY DEF PipelineBreaks, InMemory
<1>5. CountersOK' /\ RecentStay
  BY <1>1, <1>2, <1>3, <1>4, CountersGrow
<1>6. CASE InMemory(s, c.n)
  BY <1>1, <1>2, <1>5, <1>6, LoginInMemory
<1>7. CASE UNCHANGED admitted
  BY <1>1, <1>5, <1>7, CheckEnds
<1>. QED  BY <1>6, <1>7 DEF PipelineBreaks

\* Every step of the limiters keeps the invariant.
LEMMA LimitsStep == LimitsInv /\ [LimitsNext]_limitsVars => LimitsInv'
<1>. SUFFICES ASSUME LimitsInv, [LimitsNext]_limitsVars  PROVE LimitsInv'
  OBVIOUS
<1>0. checks \in Nat
  BY DEF LimitsInv, CountersOK
<1>1. CASE RedisTurns \/ Tick \/ UNCHANGED limitsVars
  BY <1>0, <1>1, NothingMoves DEF RedisTurns, Tick, limitsVars
<1>2. ASSUME NEW s \in Servers, AddHit(s)  PROVE LimitsInv'
  BY <1>2, AddHitStep
<1>3. ASSUME NEW s \in Servers, CountHits(s)  PROVE LimitsInv'
  BY <1>3, CountHitsStep
<1>4. ASSUME NEW s \in Servers, CheckBreaks(s)  PROVE LimitsInv'
  BY <1>4, CheckBreaksStep
<1>5. ASSUME NEW s \in Servers, CheckBuckets(s)  PROVE LimitsInv'
  BY <1>5, CheckBucketsStep
<1>6. ASSUME NEW s \in Servers, CheckLogin(s)  PROVE LimitsInv'
  BY <1>6, CheckLoginStep
<1>7. ASSUME NEW s \in Servers, Pipelined(s)  PROVE LimitsInv'
  BY <1>7, PipelinedStep
<1>8. ASSUME NEW s \in Servers, PipelineBreaks(s)  PROVE LimitsInv'
  BY <1>8, PipelineBreaksStep
<1>9. ASSUME NEW s \in Servers, NEW u \in ApiUsers, CheckApi(s, u)  PROVE LimitsInv'
  BY <1>9, CheckApiStep
<1>. QED  BY <1>1, <1>2, <1>3, <1>4, <1>5, <1>6, <1>7, <1>8, <1>9 DEF LimitsNext

\* No check has begun.
LEMMA LimitsInvInit == LimitsInit => LimitsInv
<1>. SUFFICES ASSUME LimitsInit  PROVE LimitsInv
  OBVIOUS
<1>1. CountersOK
  BY FS_EmptySet DEF LimitsInit, CountersOK
<1>2. ChecksOK
  BY DEF LimitsInit, ChecksOK, Dated, Ordered, Held, NoCheck
<1>3. Passed = {}
  BY DEF LimitsInit, Passed, TenantPassed, NoCheck
<1>4. PassedAreCounted
  BY <1>3 DEF PassedAreCounted
<1>5. \A w, place, end : PassedUpTo(w, place, end) = {}
  BY <1>3 DEF PassedUpTo
<1>6. PassedWithinLimit
  BY <1>5, FS_EmptySet, LimitsAssumption DEF PassedWithinLimit
<1>. QED  BY <1>1, <1>2, <1>4, <1>6 DEF LimitsInv

\* However many servers check at once, at any pace, with Redis or without, and however
\* late a check reaches Redis: the calls let through that carry a time of the last
\* window's length are no more than its limit.
THEOREM AdmissionsHold == LimitsSpec => []AdmittedWithinLimit
<1>1. LimitsInv => AdmittedWithinLimit
  <2>. SUFFICES ASSUME LimitsInv, NEW w \in Windows, NEW place \in Servers \cup {"redis"},
                       NEW end \in IF place = "redis" THEN {now} ELSE 0..now
                PROVE  Cardinality(AdmittedUpTo(w, place, end)) <= LimitOf[w]
    BY DEF AdmittedWithinLimit
  <2>1. LimitOf[w] \in Nat /\ end \in Ends(place) /\ place \in Places
    BY LimitsAssumption DEF Ends, Places
  <2>2. AdmittedUpTo(w, place, end) \subseteq PassedUpTo(w, place, end)
    BY DEF AdmittedUpTo, PassedUpTo, Passed
  <2>3. IsFiniteSet(PassedUpTo(w, place, end)) /\ Cardinality(PassedUpTo(w, place, end)) <= LimitOf[w]
    BY <2>1 DEF LimitsInv, PassedWithinLimit
  <2>. QED  BY <2>1, <2>2, <2>3, NotLarger
<1>. QED  BY <1>1, LimitsInvInit, LimitsStep, PTL DEF LimitsSpec

--------------------------------------------------------------------------------
(***************************************************************************)
(* Types: what each part keeps, and the seven of them together.            *)
(***************************************************************************)

\* The pages the browsers show.
PagesOK ==
  /\ DOMAIN page = People
  /\ \A u \in People : /\ page[u].asks \in Asks \cup {NoAsk} /\ page[u].view \in Views
                       /\ page[u].ident \in 0..MaxIdentity

\* The codes people were given.
GrantsOK ==
  /\ DOMAIN granted = People
  /\ \A u \in People : granted[u].edition \in 0..MaxDocument /\ granted[u].asks \in Asks \cup {NoAsk}

\* The client, the people and their browsers.
ClientsTyped ==
  /\ ClientsInv /\ PagesOK /\ GrantsOK
  /\ source \in Sources /\ blocked \subseteq Tenants
  /\ person \in [People -> [ident : 1..MaxIdentity, active : BOOLEAN]]
  /\ cookie \in [People -> 0..MaxIdentity]

\* A browser shows a page that says how the request ended, ...
LEMMA PageShown ==
  ASSUME PagesOK, NEW u \in People, NEW view \in Views, Show(u, view)
  PROVE  PagesOK'
<1>. DEFINE p == Page(view)
<1>1. p.view \in Views /\ p.ident \in 0..MaxIdentity /\ p.asks \in Asks \cup {NoAsk}
  BY OAuthClientsAssumption DEF Page
<1>2. page' = [page EXCEPT ![u] = p]
  BY DEF Show
<1>. HIDE DEF p
<1>. QED  BY <1>1, <1>2 DEF PagesOK

\* ... or a form of the request.
LEMMA FormShown ==
  ASSUME PagesOK, NEW u \in People, NEW view \in Views, NEW ident \in 0..MaxIdentity,
         NEW asks \in Asks \cup {NoAsk}, NEW says, Form(u, view, ident, asks, says)
  PROVE  PagesOK'
<1>. DEFINE p == [view |-> view, ident |-> ident, asks |-> asks, shown |-> says]
<1>1. p.view \in Views /\ p.ident \in 0..MaxIdentity /\ p.asks \in Asks \cup {NoAsk}
  OBVIOUS
<1>2. page' = [page EXCEPT ![u] = p]
  BY DEF Form
<1>. HIDE DEF p
<1>. QED  BY <1>1, <1>2 DEF PagesOK

\* The steps of a browser.
LEMMA BrowserTypes ==
  ASSUME ClientsTyped, NEW u \in People,
         \/ Login(u) \/ LoginClaims(u) \/ Consent(u) \/ Logout(u)
         \/ \E asks \in Asks : Authorize(u, asks)
  PROVE  /\ PagesOK' /\ GrantsOK' /\ cookie' \in [People -> 0..MaxIdentity]
         /\ UNCHANGED <<source, blocked, person>>
<1>0. /\ PagesOK /\ GrantsOK /\ cookie \in [People -> 0..MaxIdentity] /\ 0 \in 0..MaxIdentity
      /\ page[u].asks \in Asks \cup {NoAsk} /\ page[u].ident \in 0..MaxIdentity
      /\ {"none", "login", "signing", "consent", "expired", "conflict", "refused", "code"} \subseteq Views
  BY OAuthClientsAssumption DEF ClientsTyped, PagesOK, Views
<1>1. person[u].ident \in 0..MaxIdentity
  <2>1. person[u].ident \in 1..MaxIdentity
    BY DEF ClientsTyped
  <2>. QED  BY <2>1, OAuthClientsAssumption
<1>2. [cookie EXCEPT ![u] = person[u].ident] \in [People -> 0..MaxIdentity]
      /\ [cookie EXCEPT ![u] = page[u].ident] \in [People -> 0..MaxIdentity]
      /\ [cookie EXCEPT ![u] = 0] \in [People -> 0..MaxIdentity]
  BY <1>0, <1>1
<1>3. ASSUME UNCHANGED granted  PROVE GrantsOK'
  BY <1>0, <1>3 DEF GrantsOK
<1>4. ASSUME NEW asks \in Asks, Authorize(u, asks)
      PROVE  PagesOK' /\ GrantsOK' /\ cookie' = cookie
  <2>1. PICK says : Show(u, "refused") \/ Form(u, "consent", 0, asks, says)
                    \/ Form(u, "login", 0, asks, says)
    BY <1>4 DEF Authorize
  <2>. QED  BY <1>0, <1>3, <1>4, <2>1, PageShown, FormShown DEF Authorize
<1>5. CASE Login(u)
  <2>1. PICK says : \/ Show(u, "refused") \/ Form(u, "login", 0, page[u].asks, says)
                    \/ Form(u, "signing", person[u].ident, page[u].asks, says)
                    \/ Form(u, "consent", 0, page[u].asks, says)
    BY <1>5 DEF Login
  <2>2. PagesOK'
    BY <1>0, <1>1, <2>1, PageShown, FormShown
  <2>3. cookie' = cookie \/ cookie' = [cookie EXCEPT ![u] = person[u].ident]
    BY <1>5 DEF Login
  <2>. QED  BY <1>0, <1>2, <1>3, <1>5, <2>2, <2>3 DEF Login
<1>6. CASE LoginClaims(u)
  <2>1. \/ Form(u, "consent", 0, page[u].asks, page[u].shown)
           /\ cookie' = [cookie EXCEPT ![u] = page[u].ident]
        \/ Show(u, "conflict") /\ cookie' = cookie
    BY <1>6 DEF LoginClaims
  <2>2. PagesOK'
    BY <1>0, <2>1, PageShown, FormShown
  <2>. QED  BY <1>0, <1>2, <1>3, <1>6, <2>1, <2>2 DEF LoginClaims
<1>7. CASE Consent(u)
  <2>1. PICK r \in Resolved : \/ Show(u, "refused") /\ UNCHANGED granted
                              \/ Form(u, "expired", 0, page[u].asks, {}) /\ UNCHANGED granted
                              \/ Show(u, "none") /\ UNCHANGED granted
                              \/ /\ Show(u, "code")
                                 /\ granted' = [granted EXCEPT ![u] =
                                      [edition |-> r.row.edition, asks |-> page[u].asks,
                                       shown |-> page[u].shown,
                                       scope |-> GrantedScope(r.tenant, r.row.edition, page[u].asks)]]
    BY <1>7 DEF Consent
  <2>2. PagesOK'
    BY <1>0, <2>1, PageShown, FormShown
  <2>3. r.row.edition \in 0..MaxDocument
    BY ResolvedRows DEF ClientsTyped, ClientsInv, RowAfter, ClientRow
  <2>4. GrantsOK'
    <3>1. CASE UNCHANGED granted
      BY <1>3, <3>1
    <3>2. CASE granted' # granted
      <4>. DEFINE code == [edition |-> r.row.edition, asks |-> page[u].asks, shown |-> page[u].shown,
                           scope |-> GrantedScope(r.tenant, r.row.edition, page[u].asks)]
      <4>1. code.edition \in 0..MaxDocument /\ code.asks \in Asks \cup {NoAsk}
        BY <1>0, <2>3
      <4>2. granted' = [granted EXCEPT ![u] = code]
        BY <2>1, <3>2
      <4>. HIDE DEF code
      <4>. QED  BY <1>0, <4>1, <4>2 DEF GrantsOK
    <3>. QED  BY <3>1, <3>2
  <2>. QED  BY <1>0, <1>7, <2>2, <2>4 DEF Consent
<1>8. CASE Logout(u)
  <2>1. \/ Show(u, "refused") /\ cookie' = cookie
        \/ Form(u, "login", 0, page[u].asks, {}) /\ cookie' = [cookie EXCEPT ![u] = 0]
    BY <1>8 DEF Logout
  <2>2. PagesOK'
    BY <1>0, <2>1, PageShown, FormShown
  <2>. QED  BY <1>0, <1>2, <1>3, <1>8, <2>1, <2>2 DEF Logout
<1>. QED
  BY <1>0, <1>4, <1>5, <1>6, <1>7, <1>8 DEF Login, LoginClaims, Consent, Logout, Authorize

\* Every step keeps the types.
LEMMA ClientsTypesStep == ClientsTyped /\ [ClientsNext]_clientsVars => ClientsTyped'
<1>. SUFFICES ASSUME ClientsTyped, [ClientsNext]_clientsVars PROVE ClientsTyped'
  OBVIOUS
<1>1. ClientsInv'
  BY ClientsStep DEF ClientsTyped
<1>2. ASSUME NEW u \in People,
             \/ Login(u) \/ LoginClaims(u) \/ Consent(u) \/ Logout(u)
             \/ \E asks \in Asks : Authorize(u, asks)
      PROVE  ClientsTyped'
  BY <1>1, <1>2, BrowserTypes DEF ClientsTyped
<1>3. ASSUME NEW u \in People, PersonChanges(u)
      PROVE  ClientsTyped'
  <2>1. PICK active \in BOOLEAN :
          person' = [person EXCEPT ![u] = [ident |-> person[u].ident + 1, active |-> active]]
    BY <1>3 DEF PersonChanges
  <2>2. person[u].ident + 1 \in 1..MaxIdentity
    <3>1. person[u].ident \in 1..MaxIdentity /\ person[u].ident < MaxIdentity
      BY <1>3 DEF ClientsTyped, PersonChanges
    <3>. QED  BY <3>1, OAuthClientsAssumption
  <2>3. person' \in [People -> [ident : 1..MaxIdentity, active : BOOLEAN]]
    BY <2>1, <2>2 DEF ClientsTyped
  <2>. QED  BY <1>1, <1>3, <2>3 DEF PersonChanges, ClientsTyped, PagesOK, GrantsOK
<1>4. ASSUME \/ RegisterDynamic \/ SyncPreconfigured \/ DocumentChanges \/ CacheLapses
             \/ UNCHANGED clientsVars
             \/ \E tenant \in Tenants : BlockClient(tenant) \/ EnableClient(tenant)
      PROVE  ClientsTyped'
  <2>1. UNCHANGED <<source, person, cookie, page, granted>> /\ blocked' \subseteq Tenants
    BY <1>4 DEF RegisterDynamic, SyncPreconfigured, DocumentChanges, CacheLapses, BlockClient,
                EnableClient, clientsVars, ClientsTyped
  <2>. QED  BY <1>1, <2>1 DEF ClientsTyped, PagesOK, GrantsOK
<1>. QED  BY <1>2, <1>3, <1>4 DEF ClientsNext

\* Nobody is signed in, and no client is registered.
LEMMA ClientsTypesInit == ClientsInit => ClientsTyped
<1>. SUFFICES ASSUME ClientsInit PROVE ClientsTyped
  OBVIOUS
<1>1. 0 \in 0..MaxIdentity /\ 1 \in 1..MaxIdentity /\ 0 \in 0..MaxDocument /\ 1 \in 1..MaxDocument
  BY OAuthClientsAssumption
<1>2. PagesOK /\ GrantsOK
  BY <1>1 DEF ClientsInit, PagesOK, GrantsOK, Page, Views, NoCode
<1>3. ClientsInv
  BY <1>1 DEF ClientsInit, ClientsInv, ClientRow, NoClient
<1>. QED  BY <1>1, <1>2, <1>3 DEF ClientsInit, ClientsTyped

\* They are the types of the model.
LEMMA ClientsTypes == ClientsTyped => ClientsTypeOK
BY DEF ClientsTyped, ClientsInv, PagesOK, GrantsOK, ClientsTypeOK, ClientRow

\* The row, the round trips, and what each request read.
RequestPlaces == ReadWrites \cup {"free", "tell", "consume", "exchange", "connect", "sync"}
SourceTyped ==
  /\ ExchangeInv /\ row \in SourceRow /\ Len(states) <= MaxStates
  /\ \A p \in Admins : admin[p].at \in RequestPlaces
  /\ \A p \in Admins : admin[p].at \in ReadWrites => admin[p].read \in SourceRow

\* A handler changes some columns of what it read, and its session writes those
\* over the row that is there.
LEMMA RowsTyped ==
  ASSUME NEW r \in SourceRow
  PROVE  /\ \A op \in ReadWrites : Wanted(op, r) \in SourceRow
         /\ row \in SourceRow => \A w \in SourceRow : ModifiedIn(r, w) \in SourceRow
<1>1. ASSUME NEW op \in ReadWrites
      PROVE  Wanted(op, r) \in SourceRow
  <2>1. /\ [r EXCEPT !.paused = TRUE, !.sync = "paused"] \in SourceRow
        /\ [r EXCEPT !.paused = TRUE, !.sync = "paused", !.revoked = TRUE, !.credential = FALSE,
                     !.callback = FALSE, !.tokens = FALSE, !.oauth = "revoked"] \in SourceRow
        /\ [r EXCEPT !.oauth = "pending"] \in SourceRow
    BY DEF SourceRow, SyncStatus, OAuthState
  <2>2. [r EXCEPT !.paused = FALSE, !.sync = IF @ = "paused" THEN "never_run" ELSE @] \in SourceRow
    BY DEF SourceRow, SyncStatus
  <2>. QED  BY <2>1, <2>2 DEF Wanted, ReadWrites
<1>2. ASSUME row \in SourceRow, NEW w \in SourceRow
      PROVE  ModifiedIn(r, w) \in SourceRow
  BY <1>2 DEF ModifiedIn, SourceRow
<1>. QED  BY <1>1, <1>2

\* One request goes on.
LEMMA RequestGoes ==
  ASSUME SourceTyped, NEW p \in Admins, NEW where, AdminGoes(p, where),
         where.at \in RequestPlaces, where.at \in ReadWrites => where.read \in SourceRow
  PROVE  /\ \A q \in Admins : admin'[q].at \in RequestPlaces
         /\ \A q \in Admins : admin'[q].at \in ReadWrites => admin'[q].read \in SourceRow
<1>1. DOMAIN admin = Admins
  BY DEF SourceTyped, ExchangeInv, StatesOK
<1>2. \A q \in Admins : admin'[q] = IF q = p THEN where ELSE admin[q]
  BY <1>1 DEF AdminGoes
<1>. QED  BY <1>2 DEF SourceTyped

\* Every step keeps the types.
LEMMA SourceTypesStep == SourceTyped /\ [SourceNext]_sourceVars => SourceTyped'
<1>. SUFFICES ASSUME SourceTyped, [SourceNext]_sourceVars PROVE SourceTyped'
  OBVIOUS
<1>0. /\ ExchangeInv' /\ row \in SourceRow /\ states \in Seq(State) /\ Len(states) \in Nat
      /\ MaxStates \in Nat /\ Len(states) <= MaxStates
      /\ {"free", "tell", "consume", "exchange", "connect", "sync"} \cap ReadWrites = {}
      /\ ReadWrites \subseteq RequestPlaces
      /\ {"free", "tell", "consume", "exchange", "connect", "sync"} \subseteq RequestPlaces
  BY SourceStep, DataSourcesAssumption DEF SourceTyped, ExchangeInv, StatesOK, ReadWrites, RequestPlaces
<1>1. ASSUME UNCHANGED admin, row' \in SourceRow, Len(states') <= MaxStates
      PROVE  SourceTyped'
  BY <1>0, <1>1 DEF SourceTyped
<1>2. ASSUME NEW p \in Admins, NEW where, AdminGoes(p, where),
             where.at \in {"free", "tell", "consume", "exchange", "connect", "sync"},
             row' \in SourceRow, Len(states') <= MaxStates
      PROVE  SourceTyped'
  BY <1>0, <1>2, RequestGoes DEF SourceTyped
<1>3. ASSUME NEW n \in DOMAIN states, NEW s, states' = [states EXCEPT ![n].status = s]
      PROVE  Len(states') <= MaxStates
  BY <1>0, <1>3
<1>4. CASE Create
  <2>1. \A credential \in BOOLEAN :
          [NoRow EXCEPT !.exists = TRUE, !.credential = credential] \in SourceRow
    BY DEF NoRow, SourceRow, OAuthState, SyncStatus
  <2>. QED  BY <1>0, <1>1, <1>4, <2>1 DEF Create
<1>5. CASE ConfigureCallback
  <2>1. [row EXCEPT !.callback = TRUE] \in SourceRow
    BY <1>0 DEF SourceRow
  <2>. QED  BY <1>0, <1>1, <1>5, <2>1 DEF ConfigureCallback
<1>6. CASE UNCHANGED sourceVars
  BY <1>0, <1>1, <1>6 DEF sourceVars
<1>7. ASSUME NEW n \in DOMAIN states, StateLapses(n)
      PROVE  SourceTyped'
  BY <1>0, <1>1, <1>3, <1>7 DEF StateLapses
<1>8. ASSUME NEW p \in Admins, Commits(p)
      PROVE  SourceTyped'
  <2>. DEFINE op == admin[p].at
              read == admin[p].read
  <2>1. op \in ReadWrites /\ read \in SourceRow /\ row' = ModifiedIn(read, Wanted(op, read))
    BY <1>8 DEF Commits, SourceTyped
  <2>2. row' \in SourceRow
    BY <1>0, <2>1, RowsTyped
  <2>3. Len(states') <= MaxStates
    <3>1. CASE Len(states) < MaxStates /\ states' = Append(states, [status |-> "fresh", exchanged |-> 0])
      <4>1. Len(states') = Len(states) + 1
        BY <1>0, <3>1
      <4>. QED  BY <1>0, <3>1, <4>1
    <3>2. CASE states' = [n \in DOMAIN states |-> [states[n] EXCEPT !.status = "deleted"]]
      <4>1. DOMAIN states' = 1..Len(states)
        BY <1>0, <3>2
      <4>2. states' \in Seq(State)
        BY <1>0 DEF ExchangeInv, StatesOK
      <4>3. Len(states') = Len(states)
        BY <1>0, <4>1, <4>2
      <4>. QED  BY <1>0, <4>3
    <3>. QED  BY <1>0, <1>8, <3>1, <3>2 DEF Commits
  <2>4. AdminGoes(p, Free) /\ Free.at = "free"
    BY <1>8 DEF Commits, Free
  <2>. QED  BY <1>2, <2>2, <2>3, <2>4
<1>9. ASSUME NEW p \in Admins, ConsumeState(p)
      PROVE  SourceTyped'
  <2>1. PICK where : /\ AdminGoes(p, where) /\ where.at \in {"exchange", "free"}
                     /\ row' = row
                     /\ states' = states \/ states' = [states EXCEPT ![admin[p].of].status = "consumed"]
    BY <1>9 DEF ConsumeState, Free
  <2>2. admin[p].of \in DOMAIN states
    BY <1>9 DEF ConsumeState, SourceTyped, ExchangeInv, StatesOK, HoldsState
  <2>3. Len(states') <= MaxStates
    BY <1>0, <1>3, <2>1, <2>2
  <2>. QED  BY <1>0, <1>2, <2>1, <2>3
<1>10. ASSUME NEW p \in Admins, Exchange(p)
       PROVE  SourceTyped'
  <2>1. PICK where : AdminGoes(p, where) /\ where.at \in {"connect", "free"}
    BY <1>10 DEF Exchange, Free
  <2>2. row' = row /\ states' = [states EXCEPT ![admin[p].of].exchanged = @ + 1]
    BY <1>10 DEF Exchange
  <2>3. Len(states') <= MaxStates
    BY <1>0, <2>2
  <2>. QED  BY <1>0, <1>2, <2>1, <2>2, <2>3
<1>11. ASSUME NEW p \in Admins, Connect(p) \/ TellPlatform(p) \/ TriggerSync(p) \/ SyncEnds(p)
       PROVE  SourceTyped'
  <2>1. PICK where : AdminGoes(p, where) /\ where.at \in {"free", "tell", "sync"}
    BY <1>11 DEF Connect, TellPlatform, TriggerSync, SyncEnds, Free
  <2>2. /\ [row EXCEPT !.oauth = "connected", !.tokens = TRUE] \in SourceRow
        /\ [row EXCEPT !.sync = "ok"] \in SourceRow /\ [row EXCEPT !.sync = "failed"] \in SourceRow
    BY <1>0 DEF SourceRow, OAuthState, SyncStatus
  <2>3. row' \in SourceRow /\ states' = states
    BY <1>0, <1>11, <2>2 DEF Connect, TellPlatform, TriggerSync, SyncEnds
  <2>. QED  BY <1>0, <1>2, <2>1, <2>3
<1>12. ASSUME NEW p \in Admins, NEW op \in ReadWrites, AdminBegins(p, op)
       PROVE  SourceTyped'
  <2>. DEFINE where == [at |-> op, read |-> row]
  <2>1. where.at \in RequestPlaces /\ where.read \in SourceRow
    BY <1>0
  <2>2. AdminGoes(p, where) /\ UNCHANGED <<row, states>>
    BY <1>12 DEF AdminBegins
  <2>. HIDE DEF where
  <2>. QED  BY <1>0, <2>1, <2>2, RequestGoes DEF SourceTyped
<1>13. ASSUME NEW p \in Admins, NEW n \in DOMAIN states, PresentState(p, n)
       PROVE  SourceTyped'
  <2>1. CASE states' = [states EXCEPT ![n].status = "consumed"] /\ UNCHANGED admin
    BY <1>0, <1>1, <1>3, <1>13, <2>1 DEF PresentState
  <2>2. CASE UNCHANGED states /\ AdminGoes(p, [at |-> "consume", of |-> n, credential |-> row.credential])
    <3>. DEFINE where == [at |-> "consume", of |-> n, credential |-> row.credential]
    <3>1. AdminGoes(p, where) /\ where.at = "consume" /\ UNCHANGED <<row, states>>
      BY <1>13, <2>2 DEF PresentState
    <3>. HIDE DEF where
    <3>. QED  BY <1>0, <1>2, <3>1
  <2>. QED  BY <1>13, <2>1, <2>2 DEF PresentState
<1>. QED
  BY <1>4, <1>5, <1>6, <1>7, <1>8, <1>9, <1>10, <1>11, <1>12, <1>13 DEF SourceNext

\* No source is registered.
LEMMA SourceTypesInit == SourceInit => SourceTyped
<1>. SUFFICES ASSUME SourceInit PROVE SourceTyped
  OBVIOUS
<1>1. ExchangeInv
  BY DEF SourceInit, ExchangeInv, StatesOK, OneExchangePerState, HoldsState, Exchanges, Free
<1>2. row \in SourceRow /\ Len(states) <= MaxStates
  BY DataSourcesAssumption DEF SourceInit, NoRow, SourceRow, OAuthState, SyncStatus
<1>3. \A p \in Admins : admin[p].at = "free"
  BY DEF SourceInit, Free
<1>. QED  BY <1>1, <1>2, <1>3 DEF SourceTyped, RequestPlaces, ReadWrites

\* They are the types of the model.
LEMMA SourceTypes == SourceTyped => SourceTypeOK
BY DEF SourceTyped, ExchangeInv, StatesOK, SourceTypeOK, RequestPlaces

\* The transaction an administrator has open.
Rows == ScopedManagers \X OrgUnits
Transaction ==
  [at : {"none"}] \cup
  [at : {"delete"}, manager : ScopedManagers, units : SUBSET OrgUnits, sees : SUBSET Rows] \cup
  [at : {"insert"}, manager : ScopedManagers, units : SUBSET OrgUnits, deletes : SUBSET Rows,
   inserts : {{}}] \cup
  [at : {"commit"}, manager : ScopedManagers, units : SUBSET OrgUnits, deletes : SUBSET Rows,
   inserts : SUBSET Rows] \cup
  [at : {"claim"}, work : LegacyWork, for : ScopedManagers]

\* Roles, sessions, scopes and work without an owner.
PeopleTyped ==
  /\ clock \in 0..MaxClock /\ changes \in 0..MaxChanges
  /\ role \in [Users -> Roles \cup {"inactive"}] /\ heldUntil \in [Users -> [Roles -> -1..MaxClock]]
  /\ DOMAIN session = Users /\ \A u \in Users : session[u].role \in Roles \cup {"none"}
WorkTyped ==
  /\ orgScopes \subseteq Rows /\ scopeTx \in [Users -> Transaction]
  /\ owner \in [LegacyWork -> ScopedManagers \cup {NoUser}]
  /\ claims \subseteq LegacyWork \X ScopedManagers
AccessTyped == PeopleTyped /\ WorkTyped

\* The transaction goes on, or ends.
LEMMA TransactionGoes ==
  ASSUME WorkTyped, NEW u \in Users, NEW next \in Transaction, Continues(u, next)
  PROVE  scopeTx' \in [Users -> Transaction]
BY DEF WorkTyped, Continues

\* The administration keeps the types.
LEMMA WorkTypes ==
  ASSUME WorkTyped, NEW u \in Users,
         \/ ScopesDeleted(u) \/ ScopesInsert(u) \/ ScopesCommit(u) \/ ClaimLegacy(u)
         \/ \E m \in ScopedManagers : \/ \E units \in SUBSET OrgUnits : ScopesDelete(u, m, units)
                                      \/ \E w \in LegacyWork : ReadLegacy(u, w, m)
  PROVE  WorkTyped'
<1>0. /\ NoTransaction \in Transaction /\ scopeTx[u] \in Transaction /\ orgScopes \subseteq Rows
  BY DEF WorkTyped, NoTransaction, Transaction
<1>1. /\ scopeTx[u].at = "delete" =>
           scopeTx[u].manager \in ScopedManagers /\ scopeTx[u].units \in SUBSET OrgUnits
      /\ scopeTx[u].at = "insert" =>
           scopeTx[u] \in [at : {"insert"}, manager : ScopedManagers, units : SUBSET OrgUnits,
                           deletes : SUBSET Rows, inserts : {{}}]
      /\ scopeTx[u].at = "commit" => scopeTx[u].inserts \in SUBSET Rows
      /\ scopeTx[u].at = "claim" => scopeTx[u].work \in LegacyWork /\ scopeTx[u].for \in ScopedManagers
  BY <1>0 DEF Transaction
<1>2. ASSUME NEW m \in ScopedManagers, NEW units \in SUBSET OrgUnits, ScopesDelete(u, m, units)
      PROVE  WorkTyped'
  <2>. DEFINE next == [at |-> "delete", manager |-> m, units |-> units,
                       sees |-> {s \in orgScopes : s[1] = m}]
  <2>1. next \in Transaction
    BY <1>0 DEF Transaction
  <2>2. Continues(u, next) /\ UNCHANGED <<orgScopes, owner, claims>>
    BY <1>2 DEF ScopesDelete
  <2>. HIDE DEF next
  <2>. QED  BY <2>1, <2>2, TransactionGoes DEF WorkTyped
<1>3. ASSUME NEW m \in ScopedManagers, NEW w \in LegacyWork, ReadLegacy(u, w, m)
      PROVE  WorkTyped'
  <2>. DEFINE next == [at |-> "claim", work |-> w, for |-> m]
  <2>1. next \in Transaction
    BY DEF Transaction
  <2>2. Continues(u, next) /\ UNCHANGED <<orgScopes, owner, claims>>
    BY <1>3 DEF ReadLegacy
  <2>. HIDE DEF next
  <2>. QED  BY <2>1, <2>2, TransactionGoes DEF WorkTyped
<1>4. CASE ScopesDeleted(u)
  <2>. DEFINE next == [at |-> "insert", manager |-> scopeTx[u].manager, units |-> scopeTx[u].units,
                       deletes |-> scopeTx[u].sees \cap orgScopes, inserts |-> {}]
  <2>1. scopeTx[u].manager \in ScopedManagers /\ scopeTx[u].units \in SUBSET OrgUnits
    BY <1>1, <1>4 DEF ScopesDeleted, ScopesHeld
  <2>2. next \in Transaction
    BY <1>0, <2>1 DEF Transaction
  <2>3. Continues(u, next) /\ UNCHANGED <<orgScopes, owner, claims>>
    BY <1>4 DEF ScopesDeleted
  <2>. HIDE DEF next
  <2>. QED  BY <2>2, <2>3, TransactionGoes DEF WorkTyped
<1>5. CASE ScopesInsert(u)
  <2>. DEFINE rows == {scopeTx[u].manager} \X scopeTx[u].units
              next == [scopeTx[u] EXCEPT !.at = "commit", !.inserts = rows]
  <2>1. scopeTx[u] \in [at : {"insert"}, manager : ScopedManagers, units : SUBSET OrgUnits,
                        deletes : SUBSET Rows, inserts : {{}}]
    BY <1>1, <1>5 DEF ScopesInsert, ScopesHeld
  <2>2. rows \subseteq Rows
    <3>1. scopeTx[u].manager \in ScopedManagers /\ scopeTx[u].units \subseteq OrgUnits
      BY <2>1
    <3>. QED  BY <3>1 DEF Rows
  <2>3. Continues(u, NoTransaction) \/ Continues(u, next)
    BY <1>5 DEF ScopesInsert
  <2>. HIDE DEF rows
  <2>4. next \in Transaction
    BY <2>1, <2>2 DEF Transaction
  <2>5. UNCHANGED <<orgScopes, owner, claims>>
    BY <1>5 DEF ScopesInsert
  <2>. HIDE DEF next
  <2>. QED  BY <1>0, <2>3, <2>4, <2>5, TransactionGoes DEF WorkTyped
<1>6. CASE ScopesCommit(u)
  <2>1. orgScopes' \subseteq Rows
    BY <1>0, <1>1, <1>6 DEF ScopesCommit, ScopesHeld
  <2>. QED  BY <1>0, <1>6, <2>1, TransactionGoes DEF ScopesCommit, WorkTyped
<1>7. CASE ClaimLegacy(u)
  <2>1. scopeTx[u].work \in LegacyWork /\ scopeTx[u].for \in ScopedManagers
    BY <1>1, <1>7 DEF ClaimLegacy, ScopesHeld
  <2>2. /\ owner' \in [LegacyWork -> ScopedManagers \cup {NoUser}]
        /\ claims' \subseteq LegacyWork \X ScopedManagers
    BY <1>7, <2>1 DEF ClaimLegacy, WorkTyped
  <2>. QED  BY <1>0, <1>7, <2>2, TransactionGoes DEF ClaimLegacy, WorkTyped
<1>. QED  BY <1>2, <1>3, <1>4, <1>5, <1>6, <1>7

\* Every step keeps the types.
LEMMA AccessTypesStep == AccessTyped /\ [AccessNext]_accessVars => AccessTyped'
<1>. SUFFICES ASSUME AccessTyped, [AccessNext]_accessVars PROVE AccessTyped'
  OBVIOUS
<1>0. /\ clock \in 0..MaxClock /\ changes \in 0..MaxChanges /\ clock \in -1..MaxClock
      /\ MaxClock \in Nat /\ MaxChanges \in Nat /\ NewRoles \subseteq Roles \cup {"inactive"}
      /\ role \in [Users -> Roles \cup {"inactive"}] /\ heldUntil \in [Users -> [Roles -> -1..MaxClock]]
  BY AccessAssumption DEF AccessTyped, PeopleTyped
<1>1. ASSUME UNCHANGED workVars  PROVE WorkTyped'
  BY <1>1 DEF workVars, AccessTyped, WorkTyped
<1>2. ASSUME UNCHANGED <<clock, session>>, UNCHANGED peopleVars  PROVE PeopleTyped'
  BY <1>2 DEF peopleVars, AccessTyped, PeopleTyped
<1>3. CASE ClockTick
  <2>1. clock' \in 0..MaxClock
    BY <1>0, <1>3 DEF ClockTick
  <2>. QED  BY <1>1, <1>3, <2>1 DEF ClockTick, peopleVars, AccessTyped, PeopleTyped
<1>4. ASSUME NEW u \in Users, SignIn(u) \/ Refresh(u)
      PROVE  AccessTyped'
  <2>1. /\ session' = [session EXCEPT ![u] = TokensFor(role[u])] /\ role[u] \in Roles
        /\ UNCHANGED clock /\ UNCHANGED peopleVars /\ UNCHANGED workVars
    BY <1>0, <1>4 DEF SignIn, Refresh, RefreshRole
  <2>2. TokensFor(role[u]).role \in Roles
    BY <2>1 DEF TokensFor
  <2>3. DOMAIN session' = Users /\ \A v \in Users : session'[v].role \in Roles \cup {"none"}
    BY <2>1, <2>2 DEF AccessTyped, PeopleTyped
  <2>. QED  BY <1>0, <1>1, <2>1, <2>3 DEF peopleVars, AccessTyped, PeopleTyped
<1>5. ASSUME NEW u \in Users, Request(u)
      PROVE  AccessTyped'
  BY <1>1, <1>2, <1>5 DEF Request, AccessTyped
<1>6. ASSUME NEW u \in Users,
             \/ ScopesDeleted(u) \/ ScopesInsert(u) \/ ScopesCommit(u) \/ ClaimLegacy(u)
             \/ \E m \in ScopedManagers : \/ \E units \in SUBSET OrgUnits : ScopesDelete(u, m, units)
                                          \/ \E w \in LegacyWork : ReadLegacy(u, w, m)
      PROVE  AccessTyped'
  <2>1. UNCHANGED <<clock, session>> /\ UNCHANGED peopleVars
    BY <1>6 DEF ScopesDeleted, ScopesInsert, ScopesCommit, ClaimLegacy, ScopesDelete, ReadLegacy
  <2>2. WorkTyped'
    BY <1>6, WorkTypes DEF AccessTyped
  <2>. QED  BY <1>2, <2>1, <2>2 DEF AccessTyped
<1>7. ASSUME NEW u \in Users, NEW r \in NewRoles, ChangeRole(u, r)
      PROVE  AccessTyped'
  <2>. DEFINE held == [s \in Roles |-> IF s \in {r, role[u]} THEN clock ELSE heldUntil[u][s]]
  <2>1. held \in [Roles -> -1..MaxClock]
    BY <1>0
  <2>2. heldUntil' = [heldUntil EXCEPT ![u] = held] /\ role' = [role EXCEPT ![u] = r]
    BY <1>7 DEF ChangeRole
  <2>. HIDE DEF held
  <2>3. /\ heldUntil' \in [Users -> [Roles -> -1..MaxClock]]
        /\ role' \in [Users -> Roles \cup {"inactive"}]
    BY <1>0, <2>1, <2>2
  <2>4. changes' \in 0..MaxChanges
    BY <1>0, <1>7 DEF ChangeRole
  <2>5. UNCHANGED <<clock, session>> /\ UNCHANGED workVars
    BY <1>7 DEF ChangeRole
  <2>. QED  BY <1>1, <2>3, <2>4, <2>5 DEF AccessTyped, PeopleTyped
<1>8. CASE UNCHANGED accessVars
  BY <1>1, <1>2, <1>8 DEF accessVars, peopleVars, workVars, AccessTyped
<1>. QED  BY <1>3, <1>4, <1>5, <1>6, <1>7, <1>8 DEF AccessNext

\* Everybody is an administrator who has not signed in yet.
LEMMA AccessTypesInit == AccessInit => AccessTyped
<1>. SUFFICES ASSUME AccessInit PROVE AccessTyped
  OBVIOUS
<1>1. 0 \in 0..MaxClock /\ 0 \in 0..MaxChanges /\ {0, -1} \subseteq -1..MaxClock /\ "admin" \in Roles
  BY AccessAssumption DEF Roles
<1>2. heldUntil \in [Users -> [Roles -> -1..MaxClock]]
  <2>1. [r \in Roles |-> IF r = "admin" THEN 0 ELSE -1] \in [Roles -> -1..MaxClock]
    BY <1>1
  <2>. QED  BY <2>1 DEF AccessInit
<1>3. PeopleTyped
  BY <1>1, <1>2 DEF AccessInit, PeopleTyped, NoSession
<1>4. WorkTyped
  BY DEF AccessInit, WorkTyped, NoTransaction, Transaction
<1>. QED  BY <1>3, <1>4 DEF AccessTyped

\* They are the types of the model.
LEMMA AccessTypes == AccessTyped => AccessTypeOK
<1>. SUFFICES ASSUME AccessTyped PROVE AccessTypeOK
  OBVIOUS
<1>1. \A u \in Users : scopeTx[u].at \in {"none", "delete", "insert", "commit", "claim"}
  BY DEF AccessTyped, WorkTyped, Transaction
<1>. QED  BY <1>1 DEF AccessTyped, PeopleTyped, WorkTyped, AccessTypeOK, Rows

\* Hits within the bounds, and checks that add such.
BoundedHit == [n : 0..MaxChecks, at : 0..MaxNow]
LimitsTyped ==
  /\ LimitsInv
  /\ now \in 0..MaxNow /\ redisUp \in BOOLEAN /\ checks \in 0..MaxChecks
  /\ redisClient \in [Servers -> {"ready", "cooling"}]
  /\ hits \in [Windows -> SUBSET BoundedHit] /\ memory \in [Servers -> SUBSET BoundedHit]
  /\ \A s \in Servers : check[s] # NoCheck => check[s].n \in 0..MaxChecks /\ check[s].when \in 0..MaxNow

\* A hit is added to a window.
LEMMA AddedBounded ==
  ASSUME NEW set \in SUBSET BoundedHit, NEW n \in 0..MaxChecks, NEW at \in 0..MaxNow
  PROVE  Added(set, n, at) \in SUBSET BoundedHit
BY DEF Added, Recent, BoundedHit

\* A check goes on, or ends.
LEMMA ChecksBounded ==
  ASSUME LimitsTyped, NEW s \in Servers, NEW next, Checks(s, next),
         next # NoCheck => next.n \in 0..MaxChecks /\ next.when \in 0..MaxNow
  PROVE  \A r \in Servers : check'[r] # NoCheck => check'[r].n \in 0..MaxChecks /\ check'[r].when \in 0..MaxNow
<1>1. check \in [Servers -> CheckRecord \cup {NoCheck}]
  BY DEF LimitsTyped, LimitsInv, ChecksOK
<1>2. \A r \in Servers : check'[r] = IF r = s THEN next ELSE check[r]
  BY <1>1 DEF Checks
<1>. QED  BY <1>2 DEF LimitsTyped

\* A check that begins, whatever Redis answers.
LEMMA ChecksBegin ==
  ASSUME LimitsTyped, NEW s \in Servers, CheckBegins(s), Connected(s) \/ NotConnected(s)
  PROVE  /\ checks \in 0..MaxChecks /\ checks' \in 0..MaxChecks
         /\ redisClient' \in [Servers -> {"ready", "cooling"}]
<1>1. checks' = checks + 1 /\ checks < MaxChecks /\ MaxChecks \in Nat /\ checks \in 0..MaxChecks
  BY LimitsAssumption DEF CheckBegins, LimitsTyped
<1>2. checks' \in 0..MaxChecks
  BY <1>1
<1>. QED  BY <1>1, <1>2 DEF Connected, NotConnected, LimitsTyped

\* Every step keeps the types.
LEMMA LimitsTypesStep == LimitsTyped /\ [LimitsNext]_limitsVars => LimitsTyped'
<1>. SUFFICES ASSUME LimitsTyped, [LimitsNext]_limitsVars PROVE LimitsTyped'
  OBVIOUS
<1>0. /\ LimitsInv' /\ now \in 0..MaxNow /\ checks \in 0..MaxChecks /\ MaxNow \in Nat /\ MaxChecks \in Nat
      /\ hits \in [Windows -> SUBSET BoundedHit] /\ memory \in [Servers -> SUBSET BoundedHit]
      /\ {"bucket", "login"} \subseteq Windows /\ NoCheck.at = "none"
  BY LimitsStep, LimitsAssumption DEF LimitsTyped, Windows, NoCheck
<1>1. CASE RedisTurns \/ UNCHANGED limitsVars
  BY <1>0, <1>1 DEF RedisTurns, limitsVars, LimitsTyped
<1>2. CASE Tick
  <2>1. now' \in 0..MaxNow
    BY <1>0, <1>2 DEF Tick
  <2>. QED  BY <1>0, <1>2, <2>1 DEF Tick, LimitsTyped
<1>3. ASSUME NEW s \in Servers, AddHit(s)
      PROVE  LimitsTyped'
  <2>. DEFINE w == WindowOf(s)
              next == [check[s] EXCEPT !.at = "count"]
  <2>1. /\ check[s] \in ApiCheck /\ w \in Windows /\ check[s] # NoCheck
    BY <1>3, CheckUnderWay DEF AddHit, LimitsTyped, NoCheck
  <2>2. check[s].n \in 0..MaxChecks /\ check[s].when \in 0..MaxNow
    BY <2>1 DEF LimitsTyped
  <2>3. next.n = check[s].n /\ next.when = check[s].when
    BY <2>1 DEF ApiCheck
  <2>. HIDE DEF w, next
  <2>4. Added(hits[w], check[s].n, check[s].when) \in SUBSET BoundedHit
    <3>. DEFINE before == hits[w]
    <3>1. before \in SUBSET BoundedHit
      BY <1>0, <2>1
    <3>. HIDE DEF before
    <3>2. Added(before, check[s].n, check[s].when) \in SUBSET BoundedHit
      BY <2>2, <3>1, AddedBounded
    <3>. QED  BY <3>2 DEF before
  <2>5. hits' \in [Windows -> SUBSET BoundedHit]
    BY <1>0, <1>3, <2>1, <2>4 DEF AddHit, w
  <2>6. Checks(s, next)
    BY <1>3 DEF AddHit, next
  <2>. QED  BY <1>0, <1>3, <2>2, <2>3, <2>5, <2>6, ChecksBounded DEF AddHit, LimitsTyped
<1>4. ASSUME NEW s \in Servers, CountHits(s)
      PROVE  LimitsTyped'
  <2>1. check[s] \in ApiCheck /\ check[s] # NoCheck
    BY <1>4, CheckUnderWay DEF CountHits, LimitsTyped, NoCheck
  <2>2. check[s].n \in 0..MaxChecks
    BY <2>1 DEF LimitsTyped
  <2>3. PICK next : Checks(s, next) /\ (next # NoCheck => next.n = check[s].n /\ next.when = now)
    <3>1. \A ok : /\ [check[s] EXCEPT !.at = "add", !.left = <<check[s].user>>, !.when = now, !.ok = ok].n = check[s].n
                  /\ [check[s] EXCEPT !.at = "add", !.left = <<check[s].user>>, !.when = now, !.ok = ok].when = now
      BY <2>1 DEF ApiCheck
    <3>. QED  BY <1>4, <3>1 DEF CountHits
  <2>. QED  BY <1>0, <1>4, <2>2, <2>3, ChecksBounded DEF CountHits, LimitsTyped
<1>5. ASSUME NEW s \in Servers, CheckBreaks(s)
      PROVE  LimitsTyped'
  BY <1>0, <1>5, ChecksBounded DEF CheckBreaks, LimitsTyped
<1>6. ASSUME NEW w \in Windows, NEW n \in 0..MaxChecks, NEW when \in 0..MaxNow,
             hits' = hits \/ hits' = [hits EXCEPT ![w] = Added(hits[w], n, when)]
      PROVE  hits' \in [Windows -> SUBSET BoundedHit]
  <2>. PICK set : set = Added(hits[w], n, when)
    OBVIOUS
  <2>1. set \in SUBSET BoundedHit
    BY <1>0, AddedBounded
  <2>. QED  BY <1>0, <1>6, <2>1
<1>7. ASSUME NEW s \in Servers, NEW n \in 0..MaxChecks,
             memory' = memory \/ memory' = [memory EXCEPT ![s] = Added(memory[s], n, now)]
      PROVE  memory' \in [Servers -> SUBSET BoundedHit]
  <2>. PICK set : set = Added(memory[s], n, now)
    OBVIOUS
  <2>1. set \in SUBSET BoundedHit
    BY <1>0, AddedBounded
  <2>. QED  BY <1>0, <1>7, <2>1
<1>8. ASSUME NEW s \in Servers, CheckBuckets(s) \/ CheckLogin(s)
      PROVE  LimitsTyped'
  <2>1. checks' \in 0..MaxChecks /\ redisClient' \in [Servers -> {"ready", "cooling"}]
    BY <1>8, ChecksBegin DEF CheckBuckets, CheckLogin
  <2>2. PICK next : \/ Checks(s, next) /\ next.n = checks /\ next.when = now
                    \/ UNCHANGED check
    BY <1>8 DEF CheckBuckets, CheckLogin, Sends
  <2>3. \A r \in Servers : check'[r] # NoCheck =>
          check'[r].n \in 0..MaxChecks /\ check'[r].when \in 0..MaxNow
    <3>1. CASE Checks(s, next) /\ next.n = checks /\ next.when = now
      BY <1>0, <3>1, ChecksBounded
    <3>2. CASE UNCHANGED check
      BY <3>2 DEF LimitsTyped
    <3>. QED  BY <2>2, <3>1, <3>2
  <2>4. memory' \in [Servers -> SUBSET BoundedHit]
    <3>1. memory' = memory \/ memory' = [memory EXCEPT ![s] = Added(memory[s], checks, now)]
      BY <1>8 DEF CheckBuckets, CheckLogin, InMemory
    <3>. QED  BY <1>0, <1>7, <3>1
  <2>5. UNCHANGED <<now, redisUp, hits>>
    BY <1>8 DEF CheckBuckets, CheckLogin
  <2>. QED  BY <1>0, <2>1, <2>3, <2>4, <2>5 DEF LimitsTyped
<1>9. ASSUME NEW s \in Servers, NEW u \in ApiUsers, CheckApi(s, u)
      PROVE  LimitsTyped'
  <2>1. checks \in 0..MaxChecks /\ checks' \in 0..MaxChecks
        /\ redisClient' \in [Servers -> {"ready", "cooling"}]
    BY <1>9, ChecksBegin DEF CheckApi
  <2>2. \A r \in Servers : check'[r] # NoCheck => check'[r].n \in 0..MaxChecks /\ check'[r].when \in 0..MaxNow
    <3>1. CASE UNCHANGED check
      BY <3>1 DEF LimitsTyped
    <3>2. ASSUME NEW next, Checks(s, next), next.n = checks, next.when = now
          PROVE  \A r \in Servers : check'[r] # NoCheck => check'[r].n \in 0..MaxChecks /\ check'[r].when \in 0..MaxNow
      BY <1>0, <3>2, ChecksBounded
    <3>. QED  BY <1>9, <3>1, <3>2 DEF CheckApi
  <2>. QED  BY <1>0, <1>9, <2>1, <2>2 DEF CheckApi, LimitsTyped
<1>10. ASSUME NEW s \in Servers, Pipelined(s) \/ PipelineBreaks(s)
       PROVE  LimitsTyped'
  <2>. PICK c : c = check[s]
    OBVIOUS
  <2>1. c.at = "send" /\ Checks(s, NoCheck) /\ UNCHANGED <<now, redisUp, redisClient, checks>>
    BY <1>10 DEF Pipelined, PipelineBreaks
  <2>2. c.window \in Windows
    BY <2>1, CheckSent DEF LimitsTyped
  <2>3. c.n \in 0..MaxChecks /\ c.when \in 0..MaxNow
    BY <1>0, <2>1 DEF LimitsTyped
  <2>4. hits' = hits \/ hits' = [hits EXCEPT ![c.window] = Added(hits[c.window], c.n, c.when)]
    BY <1>10 DEF Pipelined, PipelineBreaks
  <2>5. memory' = memory \/ memory' = [memory EXCEPT ![s] = Added(memory[s], c.n, now)]
    BY <1>10 DEF Pipelined, PipelineBreaks, InMemory
  <2>6. hits' \in [Windows -> SUBSET BoundedHit] /\ memory' \in [Servers -> SUBSET BoundedHit]
    BY <1>6, <1>7, <2>2, <2>3, <2>4, <2>5
  <2>7. \A r \in Servers : check'[r] # NoCheck =>
          check'[r].n \in 0..MaxChecks /\ check'[r].when \in 0..MaxNow
    BY <2>1, ChecksBounded
  <2>. QED  BY <1>0, <2>1, <2>6, <2>7 DEF LimitsTyped
<1>. QED  BY <1>1, <1>2, <1>3, <1>4, <1>5, <1>8, <1>9, <1>10 DEF LimitsNext

\* No check has begun.
LEMMA LimitsTypesInit == LimitsInit => LimitsTyped
<1>. SUFFICES ASSUME LimitsInit PROVE LimitsTyped
  OBVIOUS
<1>1. 0 \in 0..MaxNow /\ 0 \in 0..MaxChecks
  BY LimitsAssumption
<1>. QED  BY <1>1, LimitsInvInit DEF LimitsInit, LimitsTyped

\* They are the types of the model.
LEMMA LimitsTypes == LimitsTyped => LimitsTypeOK
<1>. SUFFICES ASSUME LimitsTyped PROVE LimitsTypeOK
  OBVIOUS
<1>1. \A s \in Servers : check[s].at \in {"none", "add", "count", "send"}
  BY DEF LimitsTyped, LimitsInv, ChecksOK, CheckRecord, ApiCheck, SentCheck, NoCheck
<1>. QED  BY <1>1 DEF LimitsTyped, LimitsTypeOK, BoundedHit

\* The credential, the calls and the rows, and the approvals that wait.
McpTyped ==
  /\ McpInv /\ installed \in BOOLEAN /\ tokenScopes \subseteq Kinds /\ ceiling \subseteq Kinds
  /\ awaiting \subseteq DOMAIN proposals
  /\ shown \in {"no_calls_yet", "all_inactive", "recent_failure", "healthy"}

\* Every step keeps the types.
LEMMA McpTypesStep == McpTyped /\ [McpNext]_mcpVars => McpTyped'
<1>. SUFFICES ASSUME McpTyped, [McpNext]_mcpVars PROVE McpTyped'
  OBVIOUS
<1>0. McpInv' /\ proposals \in Seq(Surfaces)
  BY McpStep DEF McpTyped, McpInv, CallsTyped
<1>1. ASSUME NEW surface \in Surfaces, NEW approval, AsksApproval(surface, approval)
      PROVE  awaiting' \subseteq DOMAIN proposals'
  <2>1. CASE /\ approval = Len(proposals) + 1 /\ proposals' = Append(proposals, surface)
             /\ awaiting' = awaiting \cup {approval}
    <3>1. DOMAIN proposals' = DOMAIN proposals \cup {Len(proposals) + 1}
      BY <1>0, <2>1
    <3>. QED  BY <2>1, <3>1 DEF McpTyped
  <2>. QED  BY <1>1, <2>1 DEF AsksApproval, McpTyped
<1>2. ASSUME UNCHANGED <<installed, tokenScopes, ceiling, shown>>, awaiting' \subseteq DOMAIN proposals'
      PROVE  McpTyped'
  BY <1>0, <1>2 DEF McpTyped
<1>3. ASSUME NEW c \in Calls,
             \/ Arrive(c) \/ GuardStops(c) \/ GuardPasses(c) \/ ToolDenies(c) \/ ToolAllows(c)
             \/ RunRead(c) \/ CallFails(c) \/ RecordTask(c)
      PROVE  McpTyped'
  <2>1. UNCHANGED <<installed, tokenScopes, ceiling, shown, proposals, awaiting>>
    BY <1>3 DEF Arrive, GuardStops, GuardPasses, ToolDenies, ToolAllows, RunRead, CallFails, RecordTask
  <2>. QED  BY <1>2, <2>1 DEF McpTyped
<1>4. ASSUME NEW c \in Calls, Propose(c) \/ TaskWrite(c)
      PROVE  McpTyped'
  <2>1. \/ UNCHANGED <<proposals, awaiting>>
        \/ \E surface \in Surfaces, approval \in 1..(Len(proposals) + 1) : AsksApproval(surface, approval)
    BY <1>4 DEF Propose, TaskWrite, Surfaces
  <2>2. awaiting' \subseteq DOMAIN proposals'
    BY <1>1, <2>1 DEF McpTyped
  <2>3. UNCHANGED <<installed, tokenScopes, ceiling, shown>>
    BY <1>4 DEF Propose, TaskWrite
  <2>. QED  BY <1>2, <2>2, <2>3
<1>5. CASE BridgeCall
  <2>1. \E approval : AsksApproval("bridge", approval)
    BY <1>5 DEF BridgeCall
  <2>. QED  BY <1>1, <1>2, <1>5, <2>1 DEF BridgeCall, Surfaces
<1>6. CASE LowerCeiling \/ RevokeConnection \/ DecideProposal \/ UNCHANGED mcpVars
  BY <1>0, <1>6 DEF LowerCeiling, RevokeConnection, DecideProposal, mcpVars, McpTyped, Kinds
<1>7. CASE LookAtConnections
  <2>1. Summary \in {"no_calls_yet", "all_inactive", "recent_failure", "healthy"}
    BY DEF Summary
  <2>. QED  BY <1>0, <1>7, <2>1 DEF LookAtConnections, McpTyped
<1>. QED  BY <1>3, <1>4, <1>5, <1>6, <1>7 DEF McpNext

\* The assistant is installed, and no call has come.
LEMMA McpTypesInit == McpInit => McpTyped
BY DEF McpInit, McpTyped, McpInv, CallsTyped, ApprovalsAreAudited, Kinds

\* They are the types of the model.
LEMMA McpTypes == McpTyped => McpTypeOK
<1>. SUFFICES ASSUME McpTyped PROVE McpTypeOK
  OBVIOUS
<1>1. \A c \in Calls : mcpCall[c].at \in {"none", "guard", "tool", "run", "record"}
  BY DEF McpTyped, McpInv, CallsTyped, CallRecord, NoCall
<1>2. \A n \in DOMAIN auditRows : auditRows[n].outcome \in Outcomes
  <2>1. \A n \in DOMAIN auditRows : auditRows[n] \in RowRecord
    BY DEF McpTyped, McpInv, CallsTyped
  <2>. QED  BY <2>1 DEF RowRecord
<1>3. \A a \in DOMAIN proposals : proposals[a] \in Surfaces
  BY DEF McpTyped, McpInv, CallsTyped
<1>. QED  BY <1>1, <1>2, <1>3 DEF McpTyped, McpTypeOK, Outcomes

\* The types of the seven parts.
IdentityTyped == /\ part \in Parts
                 /\ ClientsTyped /\ TypeInv /\ KeysInv /\ SourceTyped /\ AccessTyped
                 /\ LimitsTyped /\ McpTyped

\* One part runs, and the others stand still: each takes a step of its own, or none.
LEMMA PartsStep ==
  ASSUME [IdentityNext]_identityVars
  PROVE  /\ [ClientsNext]_clientsVars /\ [TokensNext]_tokensVars /\ [KeysNext]_keysVars
         /\ [SourceNext]_sourceVars /\ [AccessNext]_accessVars /\ [LimitsNext]_limitsVars
         /\ [McpNext]_mcpVars /\ part' = part
<1>1. CASE UNCHANGED identityVars
  BY <1>1 DEF identityVars
<1>2. CASE UNCHANGED part /\ OAuthNext
  BY <1>2 DEF OAuthNext
<1>3. CASE UNCHANGED part /\ DoorNext
  BY <1>3 DEF DoorNext
<1>. QED  BY <1>1, <1>2, <1>3 DEF IdentityNext

\* Whichever part runs, every variable of it keeps its type, for every number of
\* people, clients, keys, platforms, servers and calls.
THEOREM PartsAreTyped == IdentitySpec => []IdentityTypeOK
<1>1. IdentityInit => IdentityTyped
  BY ClientsTypesInit, TypeInit, KeysInvInit, SourceTypesInit, AccessTypesInit, LimitsTypesInit,
     McpTypesInit DEF IdentityInit, IdentityTyped
<1>2. IdentityTyped /\ [IdentityNext]_identityVars => IdentityTyped'
  BY PartsStep, ClientsTypesStep, TypeStep, KeysStep, SourceTypesStep, AccessTypesStep,
     LimitsTypesStep, McpTypesStep DEF IdentityTyped
<1>3. IdentityTyped => IdentityTypeOK
  BY ClientsTypes, SourceTypes, AccessTypes, LimitsTypes, McpTypes
     DEF IdentityTyped, TypeInv, KeysInv, IdentityTypeOK, Parts
<1>. QED  BY <1>1, <1>2, <1>3, PTL DEF IdentitySpec
================================================================================
