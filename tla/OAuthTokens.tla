----------------------------- MODULE OAuthTokens ------------------------------
(***************************************************************************)
(* The tokens one person gave one client of the authorization server:      *)
(* codes, the refresh chains ("families") that start from them, and the    *)
(* two places that say whether an access token is still good.              *)
(*                                                                         *)
(*   authorization, tokens    redeem, issue, rotate, revoke, introspect    *)
(*   as_tokens                what the resource server looks up            *)
(*   admin_mcp, routes/mcp    disconnecting installations and clients      *)
(*                                                                         *)
(* Requests run concurrently.  A step is a transaction; rotation and       *)
(* redemption take two or three, and a restart of the server forgets the   *)
(* requests between theirs.  Token n stands for row n of oauth_tokens and  *)
(* for the access token issued with it; a family has its first row's name. *)
(***************************************************************************)
EXTENDS Integers, Sequences, FiniteSets

CONSTANTS
  Requests,    \* concurrent requests at the token endpoint
  MaxCodes,    \* BOUND: times the person consents
  MaxTokens,   \* BOUND: rows of oauth_tokens
  MaxVersion,  \* BOUND: values of users.auth_version
  MaxLapses    \* BOUND: lifetimes that end

ASSUME OAuthTokensAssumption ==
  /\ MaxCodes \in Nat \ {0} /\ MaxTokens \in Nat \ {0}
  /\ MaxVersion \in Nat \ {0} /\ MaxLapses \in Nat

VARIABLES
  version, enabled,  \* users.auth_version and is_active
  barred,            \* oauth_client_blocks
  codes,             \* oauth_authorization_codes
  tokens,            \* oauth_tokens
  recorded,          \* oauth_revoked_tokens, by family
  request,           \* where each request stands
  disconnected       \* history: families somebody was told are revoked

tokensVars == <<version, enabled, barred, codes, tokens, recorded, request, disconnected>>

Code == [version : 1..MaxVersion, consumed : BOOLEAN, expired : BOOLEAN]
Token == [family : 1..MaxTokens, code : 1..MaxCodes, version : 1..MaxVersion,
          used : BOOLEAN, revoked : BOOLEAN, expired : BOOLEAN, accessExpired : BOOLEAN]
Families == {tokens[n].family : n \in DOMAIN tokens}

Idle == [at |-> "idle"]
Step(at, n) == [at |-> at, of |-> n]
Go(p, where) == request' = [request EXCEPT ![p] = where]

TokensInit ==
  /\ version = 1 /\ enabled = TRUE /\ barred = FALSE
  /\ codes = <<>> /\ tokens = <<>>
  /\ recorded = {} /\ disconnected = {}
  /\ request = [p \in Requests |-> Idle]

\* resolve_client for a client that is registered and bound.
ClientResolves == ~barred
\* current_identity against the copy a code or a row carries.
IsCurrent(copy) == enabled /\ copy.version = version

(***************************************************************************)
(* Revocation.                                                             *)
(***************************************************************************)

RevokedRows(families) ==
  [n \in DOMAIN tokens |->
     IF tokens[n].family \in families THEN [tokens[n] EXCEPT !.revoked = TRUE] ELSE tokens[n]]

RevokeFamilies_RowsOnly(families) ==
  /\ tokens' = RevokedRows(families)
  /\ UNCHANGED recorded

\* revoke_family: the rows that exist now, and the record the resource server reads.
RevokeFamilies(families) ==
  /\ tokens' = RevokedRows(families)
  /\ recorded' = recorded \cup families

Disconnect(families) ==
  /\ RevokeFamilies(families)
  /\ disconnected' = disconnected \cup families

LiveFamilies == {tokens[n].family : n \in {m \in DOMAIN tokens : ~tokens[m].revoked}}

(***************************************************************************)
(* The authorization code grant.                                           *)
(***************************************************************************)

\* A consent; OAuthClients says when there is one.
IssueCode ==
  /\ Len(codes) < MaxCodes /\ enabled /\ ClientResolves
  /\ codes' = Append(codes, [version |-> version, consumed |-> FALSE, expired |-> FALSE])
  /\ UNCHANGED <<version, enabled, barred, tokens, recorded, request, disconnected>>

\* The client presents its code, verifier and redirect URI; the row is read.
PresentCode(p, c) ==
  /\ request[p] = Idle /\ ClientResolves
  /\ ~codes[c].consumed /\ ~codes[c].expired
  /\ Go(p, Step("redeem", c))
  /\ UNCHANGED <<version, enabled, barred, codes, tokens, recorded, disconnected>>

\* UPDATE ... WHERE consumed_at IS NULL
Redeemable(c) == ~codes[c].consumed

\* The code is spent whatever the resource and the identity then say.
Redeem(p) ==
  /\ request[p].at = "redeem"
  /\ LET c == request[p].of IN
       IF ~Redeemable(c) THEN Go(p, Idle) /\ UNCHANGED codes
       ELSE /\ codes' = [codes EXCEPT ![c].consumed = TRUE]
            /\ \/ Go(p, Idle)                                 \* another resource
               \/ IsCurrent(codes[c]) /\ Go(p, Step("issue", c))
               \/ ~IsCurrent(codes[c]) /\ Go(p, Idle)
  /\ UNCHANGED <<version, enabled, barred, tokens, recorded, disconnected>>

\* issue_tokens_for_authorization: one transaction that first selects the
\* families to supersede, without a lock, ...
SelectPrior(p) ==
  /\ request[p].at = "issue"
  /\ Go(p, [at |-> "insert", of |-> request[p].of, prior |-> LiveFamilies])
  /\ UNCHANGED <<version, enabled, barred, codes, tokens, recorded, disconnected>>

NewToken(family, c) ==
  [family |-> family, code |-> c, version |-> codes[c].version,
   used |-> FALSE, revoked |-> FALSE, expired |-> FALSE, accessExpired |-> FALSE]

\* ... and then revokes them and inserts the new one.
IssueTokens(p) ==
  /\ request[p].at = "insert" /\ Len(tokens) < MaxTokens
  /\ tokens' = Append(RevokedRows(request[p].prior), NewToken(Len(tokens) + 1, request[p].of))
  /\ recorded' = recorded \cup request[p].prior
  /\ disconnected' = disconnected \cup request[p].prior
  /\ Go(p, Idle)
  /\ UNCHANGED <<version, enabled, barred, codes>>

(***************************************************************************)
(* The refresh grant.                                                      *)
(***************************************************************************)

\* rotate_refresh_token's read: refusals write nothing, a changed identity and
\* a token seen before both go on to revoke the family.
PresentRefresh(p, n) ==
  /\ request[p] = Idle /\ ClientResolves
  /\ ~tokens[n].revoked /\ ~tokens[n].expired
  /\ Go(p, IF ~IsCurrent(tokens[n]) \/ tokens[n].used THEN Step("revoke", tokens[n].family)
           ELSE Step("claim", n))
  /\ UNCHANGED <<version, enabled, barred, codes, tokens, recorded, disconnected>>

Claimable_AsRead(n) == TRUE
\* UPDATE ... WHERE used_at IS NULL
Claimable(n) == ~tokens[n].used

Claim(p) ==
  /\ request[p].at = "claim"
  /\ LET n == request[p].of IN
       \/ /\ Claimable(n) /\ Len(tokens) < MaxTokens
          /\ tokens' = Append([tokens EXCEPT ![n].used = TRUE],
                              NewToken(tokens[n].family, tokens[n].code))
          /\ Go(p, Idle)
       \/ /\ ~Claimable(n)
          /\ Go(p, Step("revoke", tokens[n].family))
          /\ UNCHANGED tokens
  /\ UNCHANGED <<version, enabled, barred, codes, recorded, disconnected>>

RevokeReused_RolledBack(p) ==
  /\ request[p].at = "revoke"
  /\ disconnected' = disconnected \cup {request[p].of}
  /\ Go(p, Idle)
  /\ UNCHANGED <<version, enabled, barred, codes, tokens, recorded>>

\* revoke_family_in_own_session, then the error to the client.
RevokeReused(p) ==
  /\ request[p].at = "revoke"
  /\ Disconnect({request[p].of})
  /\ Go(p, Idle)
  /\ UNCHANGED <<version, enabled, barred, codes>>

\* The server restarts.
Restart ==
  /\ request # [p \in Requests |-> Idle]
  /\ request' = [p \in Requests |-> Idle]
  /\ UNCHANGED <<version, enabled, barred, codes, tokens, recorded, disconnected>>

(***************************************************************************)
(* Revocation endpoint and administrators.                                 *)
(***************************************************************************)

\* verify_access_token: signature, issuer and exp; no look at the database.
Verifies(n) == ~tokens[n].accessExpired

\* revoke_token, given a refresh token: whatever its state.
RevokeByRefresh(n) ==
  /\ ClientResolves
  /\ Disconnect({tokens[n].family})
  /\ UNCHANGED <<version, enabled, barred, codes, request>>

\* revoke_token, given an access token that still verifies: its own record goes
\* with the family's, so the family's stands for both.
RevokeByAccess(n) ==
  /\ ClientResolves /\ Verifies(n)
  /\ Disconnect({tokens[n].family})
  /\ UNCHANGED <<version, enabled, barred, codes, request>>

\* revoke_own_installation and revoke_installation.
RevokeInstallation(f) ==
  /\ Disconnect({f})
  /\ UNCHANGED <<version, enabled, barred, codes, request>>

\* revoke_all; revoke_client also blocks the client.
RevokeLive(block) ==
  /\ block \/ LiveFamilies # {}
  /\ Disconnect(LiveFamilies)
  /\ barred' = (barred \/ block)
  /\ UNCHANGED <<version, enabled, codes, request>>

Enable ==
  /\ barred /\ barred' = FALSE
  /\ UNCHANGED <<version, enabled, codes, tokens, recorded, request, disconnected>>

\* The trigger on users: password, role or status.
IdentityChanges ==
  /\ version < MaxVersion
  /\ version' = version + 1 /\ enabled' \in BOOLEAN
  /\ UNCHANGED <<barred, codes, tokens, recorded, request, disconnected>>

Lapses ==
  Cardinality({c \in DOMAIN codes : codes[c].expired})
  + Cardinality({n \in DOMAIN tokens : tokens[n].accessExpired})

\* Lifetimes end: of a code, of an access token, perhaps of its refresh token too.
CodeExpires(c) ==
  /\ Lapses < MaxLapses /\ ~codes[c].expired
  /\ codes' = [codes EXCEPT ![c].expired = TRUE]
  /\ UNCHANGED <<version, enabled, barred, tokens, recorded, request, disconnected>>
TokenExpires(n) ==
  /\ Lapses < MaxLapses
  /\ ~tokens[n].accessExpired
  /\ \E refresh \in BOOLEAN :
       tokens' = [tokens EXCEPT ![n].accessExpired = TRUE, ![n].expired = refresh]
  /\ UNCHANGED <<version, enabled, barred, codes, recorded, request, disconnected>>

TokensNext ==
  \/ IssueCode \/ Restart \/ RevokeLive(TRUE) \/ RevokeLive(FALSE) \/ Enable \/ IdentityChanges
  \/ \E p \in Requests : \/ Redeem(p) \/ SelectPrior(p) \/ IssueTokens(p)
                         \/ Claim(p) \/ RevokeReused(p)
                         \/ \E c \in DOMAIN codes : PresentCode(p, c)
                         \/ \E n \in DOMAIN tokens : PresentRefresh(p, n)
  \/ \E c \in DOMAIN codes : CodeExpires(c)
  \/ \E n \in DOMAIN tokens : RevokeByRefresh(n) \/ RevokeByAccess(n) \/ TokenExpires(n)
  \/ \E f \in Families : RevokeInstallation(f)

TokensSpec == TokensInit /\ [][TokensNext]_tokensVars
--------------------------------------------------------------------------------
(***************************************************************************)
(* Is this access token good?  Asked in two places.                        *)
(***************************************************************************)

\* is_revoked
IsRevoked(n) == tokens[n].family \in recorded

\* _load_registry_state: the revocation list, the client and its owner, read at once.
RegistryRevokes(n) == IsRevoked(n) \/ barred \/ ~IsCurrent(tokens[n])

\* verify_as_access_token: the signature and exp first, then the registry.
ResourceServerAccepts(n) == ~tokens[n].accessExpired /\ ~RegistryRevokes(n)

\* introspect_token, for the access token.
IntrospectActive(n) ==
  /\ Verifies(n)
  /\ ~IsRevoked(n)
  /\ IsCurrent(tokens[n])

TokensTypeOK ==
  /\ version \in 1..MaxVersion /\ enabled \in BOOLEAN /\ barred \in BOOLEAN
  /\ codes \in Seq(Code) /\ Len(codes) <= MaxCodes
  /\ tokens \in Seq(Token) /\ Len(tokens) <= MaxTokens
  /\ recorded \subseteq Families /\ disconnected \subseteq Families

\* One code, one chain: however many requests present a code or a refresh token
\* at once, a code starts one family, and of the tokens that descend from it at
\* most one is left to go on with.
OneChainPerCode ==
  \A m, n \in DOMAIN tokens :
    tokens[m].code = tokens[n].code =>
      /\ tokens[m].family = tokens[n].family
      /\ ~tokens[m].used /\ ~tokens[n].used => m = n

\* Once somebody was told that a connection is revoked (the user, the
\* administrator, the client, or a client whose token was seen before), none of
\* its access tokens is accepted or reported active again: not one issued by a
\* rotation that was under way, and not after the client is allowed again.
DisconnectedIsRefused ==
  \A n \in DOMAIN tokens :
    tokens[n].family \in disconnected => ~ResourceServerAccepts(n) /\ ~IntrospectActive(n)
================================================================================
