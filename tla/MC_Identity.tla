------------------------------ MODULE MC_Identity ------------------------------
(***************************************************************************)
(* Who may come in, and how often: the authorization server, sign-in and   *)
(* roles, the connected platforms, the rate limits, and the calls of       *)
(* assistants.  The parts share no state, so a behaviour picks one of them *)
(* and the others stand still where they began.                            *)
(***************************************************************************)
EXTENDS OAuthClients, OAuthTokens, SigningKeys, DataSources, Access, Limits, McpCalls, TLC

CONSTANTS p1, p2, p3, ann, bob, t1, t2, u1, d1

\* Concurrent requests are interchangeable; p3 stands alone.
RequestSymmetry == Permutations({p1, p2})

TheTenantOf == [u \in People |-> IF u = ann THEN t1 ELSE t2]
TheDocuments ==
  <<[uris |-> {"https", "loopback"}, scope |-> {}, itself |-> TRUE],
    [uris |-> {"https"}, scope |-> {"read"}, itself |-> TRUE],
    [uris |-> {"https"}, scope |-> {"read", "propose"}, itself |-> FALSE]>>
FirstDocument == <<TheDocuments[1]>>
TheAsks == {[uri |-> "https", scope |-> {}], [uri |-> "other port", scope |-> {"propose"}]}
TheLimits == [w \in Windows |-> IF w \in {"tenant", ann} THEN 2 ELSE 1]

VARIABLE part

identityVars ==
  <<part, clientsVars, tokensVars, keysVars, sourceVars, accessVars, limitsVars, mcpVars>>

Parts == {"clients", "tokens", "keys", "sources", "access", "limits", "mcp"}

\* What a part may start from in several ways is fixed while another part runs.
IdentityInit ==
  /\ part \in Parts
  /\ ClientsInit /\ (part # "clients" => source = "dcr")
  /\ TokensInit /\ KeysInit /\ SourceInit /\ AccessInit /\ LimitsInit
  /\ McpInit /\ (part # "mcp" => tokenScopes = Kinds)

OAuthNext ==
  /\ UNCHANGED <<sourceVars, accessVars, limitsVars, mcpVars>>
  /\ \/ part = "clients" /\ ClientsNext /\ UNCHANGED <<tokensVars, keysVars>>
     \/ part = "tokens" /\ TokensNext /\ UNCHANGED <<clientsVars, keysVars>>
     \/ part = "keys" /\ KeysNext /\ UNCHANGED <<clientsVars, tokensVars>>

DoorNext ==
  /\ UNCHANGED <<clientsVars, tokensVars, keysVars>>
  /\ \/ part = "sources" /\ SourceNext /\ UNCHANGED <<accessVars, limitsVars, mcpVars>>
     \/ part = "access" /\ AccessNext /\ UNCHANGED <<sourceVars, limitsVars, mcpVars>>
     \/ part = "limits" /\ LimitsNext /\ UNCHANGED <<sourceVars, accessVars, mcpVars>>
     \/ part = "mcp" /\ McpNext /\ UNCHANGED <<sourceVars, accessVars, limitsVars>>

IdentityNext == UNCHANGED part /\ (OAuthNext \/ DoorNext)

IdentitySpec == IdentityInit /\ [][IdentityNext]_identityVars

\* The authorization of clients alone.
ClientsOnly == IdentityInit /\ part = "clients" /\ [][IdentityNext]_identityVars

\* Every variable of the part that runs has its type.
IdentityTypeOK ==
  CASE part = "clients" -> ClientsTypeOK [] part = "tokens" -> TokensTypeOK
    [] part = "keys" -> KeysTypeOK [] part = "sources" -> SourceTypeOK
    [] part = "access" -> AccessTypeOK [] part = "limits" -> LimitsTypeOK
    [] part = "mcp" -> McpTypeOK
================================================================================
