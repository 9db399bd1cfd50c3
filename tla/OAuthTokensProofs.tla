--------------------------- MODULE OAuthTokensProofs ---------------------------
(***************************************************************************)
(* What holds of OAuthTokens for every number of requests, codes, tokens,  *)
(* identity changes and lapses.                                            *)
(***************************************************************************)
EXTENDS OAuthTokens, TLAPS

--------------------------------------------------------------------------------
(* Rows.                                                                   *)

\* A row that is inserted is the last of the table; the others stay.
LEMMA Inserted ==
  ASSUME NEW S, NEW rows \in Seq(S), NEW row \in S
  PROVE  /\ Append(rows, row) \in Seq(S)
         /\ Len(Append(rows, row)) = Len(rows) + 1
         /\ DOMAIN Append(rows, row) = DOMAIN rows \cup {Len(rows) + 1}
         /\ Len(rows) + 1 \notin DOMAIN rows
         /\ Append(rows, row)[Len(rows) + 1] = row
         /\ \A n \in DOMAIN rows : Append(rows, row)[n] = rows[n]
OBVIOUS

\* A row that is updated stays in its place.
LEMMA Updated ==
  ASSUME NEW S, NEW rows \in Seq(S), NEW new \in [DOMAIN rows -> S]
  PROVE  /\ new \in Seq(S)
         /\ Len(new) = Len(rows)
         /\ DOMAIN new = DOMAIN rows
OBVIOUS

\* Only what ends a token was written: its rows still say whose they are.
SameChains(old, new) ==
  /\ DOMAIN new = DOMAIN old
  /\ \A n \in DOMAIN old : /\ new[n].family = old[n].family
                           /\ new[n].code = old[n].code
                           /\ new[n].used = old[n].used

\* Revocation of any families is such a write.
LEMMA RevocationKeeps ==
  ASSUME tokens \in Seq(Token), NEW families
  PROVE  /\ RevokedRows(families) \in Seq(Token)
         /\ Len(RevokedRows(families)) = Len(tokens)
         /\ SameChains(tokens, RevokedRows(families))
<1> DEFINE row(n) == IF tokens[n].family \in families
                     THEN [tokens[n] EXCEPT !.revoked = TRUE] ELSE tokens[n]
<1>1. ASSUME NEW n \in DOMAIN tokens
      PROVE  /\ row(n) \in Token
             /\ row(n).family = tokens[n].family
             /\ row(n).code = tokens[n].code
             /\ row(n).used = tokens[n].used
  <2>1. tokens[n] \in Token
    OBVIOUS
  <2> QED  BY <2>1 DEF Token
<1>2. RevokedRows(families) = [n \in DOMAIN tokens |-> row(n)]
  BY DEF RevokedRows
<1>3. RevokedRows(families) \in [DOMAIN tokens -> Token]
  BY <1>1, <1>2
<1>4. /\ RevokedRows(families) \in Seq(Token)
      /\ Len(RevokedRows(families)) = Len(tokens)
      /\ DOMAIN RevokedRows(families) = DOMAIN tokens
  BY <1>3, Updated
<1> HIDE DEF row
<1>5. \A n \in DOMAIN tokens : RevokedRows(families)[n] = row(n)
  BY <1>2
<1> QED
  BY <1>1, <1>4, <1>5 DEF SameChains

\* A lifetime that ends is such a write.
LEMMA ExpiryKeeps ==
  ASSUME tokens \in Seq(Token), NEW n \in DOMAIN tokens, NEW refresh \in BOOLEAN
  PROVE  LET ended == [tokens EXCEPT ![n].accessExpired = TRUE, ![n].expired = refresh] IN
         /\ ended \in Seq(Token)
         /\ Len(ended) = Len(tokens)
         /\ SameChains(tokens, ended)
<1>1. tokens[n] \in Token
  OBVIOUS
<1> DEFINE row == [tokens[n] EXCEPT !.accessExpired = TRUE, !.expired = refresh]
           ended == [tokens EXCEPT ![n] = row]
<1>2. /\ row \in Token
      /\ row.family = tokens[n].family
      /\ row.code = tokens[n].code
      /\ row.used = tokens[n].used
  BY <1>1 DEF Token
<1>3. [tokens EXCEPT ![n].accessExpired = TRUE, ![n].expired = refresh] = ended
  BY <1>1 DEF Token
<1> HIDE DEF row
<1>4. ended \in [DOMAIN tokens -> Token]
  BY <1>2
<1>5. /\ ended \in Seq(Token)
      /\ Len(ended) = Len(tokens)
      /\ DOMAIN ended = DOMAIN tokens
  BY <1>4, Updated
<1> QED
  BY <1>2, <1>3, <1>5 DEF SameChains

\* A rotation spends one row.
LEMMA ClaimSpends ==
  ASSUME tokens \in Seq(Token), NEW n \in DOMAIN tokens
  PROVE  LET spent == [tokens EXCEPT ![n].used = TRUE] IN
         /\ spent \in Seq(Token)
         /\ Len(spent) = Len(tokens)
         /\ DOMAIN spent = DOMAIN tokens
         /\ spent[n].used
         /\ \A m \in DOMAIN tokens : /\ spent[m].family = tokens[m].family
                                     /\ spent[m].code = tokens[m].code
                                     /\ m # n => spent[m].used = tokens[m].used
<1>1. tokens[n] \in Token
  OBVIOUS
<1> DEFINE row == [tokens[n] EXCEPT !.used = TRUE]
           spent == [tokens EXCEPT ![n] = row]
<1>2. /\ row \in Token
      /\ row.family = tokens[n].family
      /\ row.code = tokens[n].code
      /\ row.used
  BY <1>1 DEF Token
<1>3. [tokens EXCEPT ![n].used = TRUE] = spent
  OBVIOUS
<1> HIDE DEF row
<1>4. spent \in [DOMAIN tokens -> Token]
  BY <1>2
<1>5. /\ spent \in Seq(Token)
      /\ Len(spent) = Len(tokens)
      /\ DOMAIN spent = DOMAIN tokens
  BY <1>4, Updated
<1> QED
  BY <1>2, <1>3, <1>5

--------------------------------------------------------------------------------
(* Types.                                                                  *)

\* What a request holds exists: a code to redeem or to issue for, a refresh
\* token to rotate, families to revoke.
RequestOK ==
  /\ DOMAIN request = Requests
  /\ \A p \in Requests :
       /\ request[p].at \in {"redeem", "issue", "insert"} => request[p].of \in DOMAIN codes
       /\ request[p].at = "claim" => request[p].of \in DOMAIN tokens
       /\ request[p].at = "revoke" => request[p].of \in Families
       /\ request[p].at = "insert" => request[p].prior \subseteq Families

\* Every row descends from a code.
TokenOK == \A n \in DOMAIN tokens : tokens[n].code \in DOMAIN codes

TypeInv == TokensTypeOK /\ RequestOK /\ TokenOK

\* A family does not lose its name to what ends it.
LEMMA FamiliesStay ==
  ASSUME SameChains(tokens, tokens')
  PROVE  Families' = Families
BY DEF SameChains, Families

\* Rows that end, and records of families that exist, leave the types as they are.
LEMMA EndingTypes ==
  ASSUME TypeInv, tokens' \in Seq(Token), Len(tokens') = Len(tokens), SameChains(tokens, tokens'),
         recorded' \subseteq Families, disconnected' \subseteq Families,
         codes' = codes, version' = version, enabled' = enabled, barred' \in BOOLEAN
  PROVE  /\ TokensTypeOK' /\ TokenOK'
         /\ request' = request => RequestOK'
         /\ \A p \in Requests : Go(p, Idle) => RequestOK'
<1>1. Families' = Families
  BY FamiliesStay
<1>2. TokensTypeOK'
  BY <1>1 DEF TypeInv, TokensTypeOK
<1>3. TokenOK'
  BY DEF TypeInv, TokenOK, SameChains
<1>4. request' = request => RequestOK'
  BY <1>1 DEF TypeInv, RequestOK, SameChains
<1>5. ASSUME NEW p \in Requests, Go(p, Idle)
      PROVE  RequestOK'
  BY <1>1, <1>5 DEF TypeInv, RequestOK, SameChains, Go, Idle
<1> QED
  BY <1>2, <1>3, <1>4, <1>5

\* A request that goes on with what exists leaves the types as they are.
LEMMA GoingTypes ==
  ASSUME TypeInv, UNCHANGED <<version, enabled, barred, codes, tokens, recorded, disconnected>>,
         RequestOK'
  PROVE  TypeInv'
BY DEF TypeInv, TokensTypeOK, TokenOK, Families

\* A new code.
LEMMA IssueCodeTypes ==
  ASSUME TypeInv, IssueCode
  PROVE  TypeInv'
<1> DEFINE code == [version |-> version, consumed |-> FALSE, expired |-> FALSE]
<1>1. /\ codes \in Seq(Code) /\ code \in Code /\ codes' = Append(codes, code)
  BY DEF TypeInv, TokensTypeOK, IssueCode, Code
<1>2. /\ codes' \in Seq(Code) /\ Len(codes') = Len(codes) + 1
      /\ DOMAIN codes \subseteq DOMAIN codes'
  BY <1>1, Inserted
<1>3. Families' = Families
  BY DEF Families, IssueCode
<1>4. TokensTypeOK'
  BY <1>2, <1>3, OAuthTokensAssumption DEF TypeInv, TokensTypeOK, IssueCode
<1>5. RequestOK'
  BY <1>2, <1>3 DEF TypeInv, RequestOK, IssueCode
<1>6. TokenOK'
  BY <1>2 DEF TypeInv, TokenOK, IssueCode
<1> QED
  BY <1>4, <1>5, <1>6 DEF TypeInv

\* A new row: the first of a family, or the next of one there is.
LEMMA InsertTypes ==
  ASSUME TypeInv, NEW rows \in Seq(Token), Len(rows) = Len(tokens), Len(tokens) < MaxTokens,
         \A n \in DOMAIN tokens : rows[n].family = tokens[n].family /\ rows[n].code = tokens[n].code,
         NEW c \in DOMAIN codes, NEW family \in Families \cup {Len(tokens) + 1},
         tokens' = Append(rows, NewToken(family, c)),
         recorded' \subseteq Families, disconnected' \subseteq Families,
         NEW p \in Requests, Go(p, Idle),
         UNCHANGED <<version, enabled, barred, codes>>
  PROVE  TypeInv'
<1> DEFINE row == NewToken(family, c)
<1>1. tokens \in Seq(Token)
  BY DEF TypeInv, TokensTypeOK
<1>2. Len(tokens) + 1 \in 1..MaxTokens
  BY <1>1, OAuthTokensAssumption
<1>3. \A n \in DOMAIN tokens : tokens[n] \in Token
  BY <1>1
<1>4. family \in 1..MaxTokens
  BY <1>2, <1>3 DEF Families, Token
<1>5. codes \in Seq(Code) /\ Len(codes) <= MaxCodes
  BY DEF TypeInv, TokensTypeOK
<1>6. c \in 1..MaxCodes /\ codes[c] \in Code
  BY <1>5, OAuthTokensAssumption
<1>7. row \in Token
  BY <1>4, <1>6 DEF NewToken, Token, Code
<1>8. DOMAIN rows = DOMAIN tokens
  BY <1>1
<1>9. /\ tokens' \in Seq(Token) /\ Len(tokens') = Len(tokens) + 1
      /\ DOMAIN tokens' = DOMAIN tokens \cup {Len(tokens) + 1}
      /\ tokens'[Len(tokens) + 1] = row
      /\ \A n \in DOMAIN tokens : tokens'[n] = rows[n]
  <2> HIDE DEF row
  <2>1. tokens' = Append(rows, row)
    BY DEF row
  <2> QED
    BY <1>7, <1>8, <2>1, Inserted
<1>10. Families \subseteq Families'
  BY <1>9 DEF Families
<1>11. TokensTypeOK'
  BY <1>1, <1>2, <1>9, <1>10, OAuthTokensAssumption DEF TypeInv, TokensTypeOK
<1>12. RequestOK'
  BY <1>9, <1>10 DEF TypeInv, RequestOK, Go, Idle
<1>13. TokenOK'
  BY <1>9 DEF TypeInv, TokenOK, NewToken
<1> QED
  BY <1>11, <1>12, <1>13 DEF TypeInv

\* Every step keeps the types.
LEMMA TypeStep ==
  ASSUME TypeInv, [TokensNext]_tokensVars
  PROVE  TypeInv'
<1> DEFINE Revokes(families) == /\ Disconnect(families)
                                /\ UNCHANGED <<version, enabled, codes>>
                                /\ barred' \in BOOLEAN
<1>0. /\ tokens \in Seq(Token) /\ Len(tokens) <= MaxTokens
      /\ codes \in Seq(Code) /\ Len(codes) <= MaxCodes
      /\ version \in 1..MaxVersion /\ enabled \in BOOLEAN /\ barred \in BOOLEAN
      /\ recorded \subseteq Families /\ disconnected \subseteq Families
      /\ DOMAIN request = Requests
  BY DEF TypeInv, TokensTypeOK, RequestOK
<1>1. ASSUME NEW families \in SUBSET Families, Revokes(families),
             request' = request \/ \E p \in Requests : Go(p, Idle)
      PROVE  TypeInv'
  <2>1. tokens' = RevokedRows(families)
    BY <1>1 DEF Disconnect, RevokeFamilies
  <2>2. tokens' \in Seq(Token) /\ Len(tokens') = Len(tokens) /\ SameChains(tokens, tokens')
    BY <1>0, <2>1, RevocationKeeps
  <2>3. recorded' \subseteq Families /\ disconnected' \subseteq Families
    BY <1>0, <1>1 DEF Disconnect, RevokeFamilies
  <2> QED
    BY <1>1, <2>2, <2>3, EndingTypes DEF TypeInv
<1>2. \A n \in DOMAIN tokens : {tokens[n].family} \in SUBSET Families
  BY DEF Families
<1>3. LiveFamilies \in SUBSET Families
  BY DEF LiveFamilies, Families
<1>4. CASE IssueCode
  BY <1>4, IssueCodeTypes
<1>5. CASE Restart
  <2>1. RequestOK'
    BY <1>5 DEF Restart, RequestOK, Idle
  <2> QED  BY <1>5, <2>1, GoingTypes DEF Restart
<1>6. ASSUME NEW block \in BOOLEAN, RevokeLive(block)
      PROVE  TypeInv'
  BY <1>0, <1>1, <1>3, <1>6 DEF RevokeLive
<1>7. CASE Enable
  BY <1>7 DEF Enable, TypeInv, TokensTypeOK, RequestOK, TokenOK, Families
<1>8. CASE IdentityChanges
  <2>1. version' \in 1..MaxVersion
    BY <1>0, <1>8, OAuthTokensAssumption DEF IdentityChanges
  <2> QED
    BY <1>8, <2>1 DEF IdentityChanges, TypeInv, TokensTypeOK, RequestOK, TokenOK, Families
<1>9. ASSUME NEW p \in Requests, NEW c \in DOMAIN codes, PresentCode(p, c)
      PROVE  TypeInv'
  <2>1. RequestOK'
    BY <1>9 DEF PresentCode, TypeInv, RequestOK, Go, Step, Families
  <2> QED  BY <1>9, <2>1, GoingTypes DEF PresentCode
<1>10. ASSUME NEW p \in Requests, Redeem(p)
       PROVE  TypeInv'
  <2>1. request[p].of \in DOMAIN codes
    BY <1>10 DEF Redeem, TypeInv, RequestOK
  <2>2. codes' \in Seq(Code) /\ Len(codes') = Len(codes) /\ DOMAIN codes' = DOMAIN codes
    <3> DEFINE c == request[p].of
    <3>1. CASE UNCHANGED codes
      BY <1>0, <3>1
    <3>2. CASE codes' = [codes EXCEPT ![c].consumed = TRUE]
      <4> DEFINE row == [codes[c] EXCEPT !.consumed = TRUE]
      <4>1. codes[c] \in Code
        BY <1>0, <2>1
      <4>2. row \in Code
        BY <4>1 DEF Code
      <4>3. codes' = [codes EXCEPT ![c] = row]
        BY <3>2
      <4> HIDE DEF row, c
      <4>4. \A i \in DOMAIN codes : codes[i] \in Code
        BY <1>0
      <4>5. codes' \in [DOMAIN codes -> Code]
        BY <4>2, <4>3, <4>4
      <4> QED  BY <1>0, <4>5
    <3> QED  BY <1>10, <3>1, <3>2 DEF Redeem
  <2>3. Families' = Families
    BY <1>10 DEF Redeem, Families
  <2>4. RequestOK'
    BY <1>10, <2>1, <2>2, <2>3 DEF Redeem, TypeInv, RequestOK, Go, Step, Idle
  <2> QED
    BY <1>10, <2>2, <2>3, <2>4 DEF Redeem, TypeInv, TokensTypeOK, TokenOK
<1>11. ASSUME NEW p \in Requests, SelectPrior(p)
       PROVE  TypeInv'
  <2>1. RequestOK'
    BY <1>3, <1>11 DEF SelectPrior, TypeInv, RequestOK, Go, Families
  <2> QED  BY <1>11, <2>1, GoingTypes DEF SelectPrior
<1>12. ASSUME NEW p \in Requests, IssueTokens(p)
       PROVE  TypeInv'
  <2>1. request[p].of \in DOMAIN codes /\ request[p].prior \subseteq Families
    BY <1>12 DEF IssueTokens, TypeInv, RequestOK
  <2> DEFINE rows == RevokedRows(request[p].prior)
  <2>2. rows \in Seq(Token) /\ Len(rows) = Len(tokens) /\ SameChains(tokens, rows)
    BY <1>0, RevocationKeeps
  <2>3. recorded' \subseteq Families /\ disconnected' \subseteq Families
    BY <1>0, <1>12, <2>1 DEF IssueTokens
  <2>4. tokens' = Append(rows, NewToken(Len(tokens) + 1, request[p].of))
    BY <1>12 DEF IssueTokens
  <2> HIDE DEF rows
  <2> QED
    BY <1>12, <2>1, <2>2, <2>3, <2>4, InsertTypes DEF IssueTokens, SameChains
<1>13. ASSUME NEW p \in Requests, NEW n \in DOMAIN tokens, PresentRefresh(p, n)
       PROVE  TypeInv'
  <2>1. RequestOK'
    BY <1>2, <1>13 DEF PresentRefresh, TypeInv, RequestOK, Go, Step, Families
  <2> QED  BY <1>13, <2>1, GoingTypes DEF PresentRefresh
<1>14. ASSUME NEW p \in Requests, Claim(p)
       PROVE  TypeInv'
  <2> DEFINE n == request[p].of
             spent == [tokens EXCEPT ![n].used = TRUE]
  <2>1. n \in DOMAIN tokens
    BY <1>14 DEF Claim, TypeInv, RequestOK
  <2>2. CASE ~Claimable(n)
    <3>1. UNCHANGED <<version, enabled, barred, codes, tokens, recorded, disconnected>>
      BY <1>14, <2>2 DEF Claim
    <3>2. RequestOK'
      BY <1>2, <1>14, <2>1, <2>2 DEF Claim, TypeInv, RequestOK, Go, Step, Families
    <3> QED  BY <3>1, <3>2, GoingTypes
  <2>3. CASE Claimable(n)
    <3>1. /\ spent \in Seq(Token) /\ Len(spent) = Len(tokens)
          /\ \A m \in DOMAIN tokens : /\ spent[m].family = tokens[m].family
                                      /\ spent[m].code = tokens[m].code
      BY <1>0, <2>1, ClaimSpends
    <3>2. /\ tokens[n].family \in Families \cup {Len(tokens) + 1}
          /\ tokens[n].code \in DOMAIN codes
      BY <2>1 DEF Families, TypeInv, TokenOK
    <3>3. /\ tokens' = Append(spent, NewToken(tokens[n].family, tokens[n].code))
          /\ Len(tokens) < MaxTokens /\ Go(p, Idle)
          /\ UNCHANGED <<version, enabled, barred, codes, recorded, disconnected>>
      BY <1>14, <2>3 DEF Claim
    <3> HIDE DEF spent, n
    <3> QED
      BY <1>0, <3>1, <3>2, <3>3, InsertTypes
  <2> QED  BY <2>2, <2>3
<1>15. ASSUME NEW p \in Requests, RevokeReused(p)
       PROVE  TypeInv'
  <2>1. {request[p].of} \in SUBSET Families
    BY <1>15 DEF RevokeReused, TypeInv, RequestOK
  <2> QED  BY <1>0, <1>1, <1>15, <2>1 DEF RevokeReused
<1>16. ASSUME NEW c \in DOMAIN codes, CodeExpires(c)
       PROVE  TypeInv'
  <2>1. codes[c] \in Code
    BY <1>0
  <2>2. [codes[c] EXCEPT !.expired = TRUE] \in Code
    BY <2>1 DEF Code
  <2>3. codes' \in [DOMAIN codes -> Code]
    BY <1>0, <1>16, <2>2 DEF CodeExpires
  <2>4. codes' \in Seq(Code) /\ Len(codes') = Len(codes) /\ DOMAIN codes' = DOMAIN codes
    BY <1>0, <2>3
  <2> QED
    BY <1>16, <2>4 DEF CodeExpires, TypeInv, TokensTypeOK, RequestOK, TokenOK, Families
<1>17. ASSUME NEW n \in DOMAIN tokens, RevokeByRefresh(n) \/ RevokeByAccess(n)
       PROVE  TypeInv'
  BY <1>0, <1>1, <1>2, <1>17 DEF RevokeByRefresh, RevokeByAccess
<1>18. ASSUME NEW n \in DOMAIN tokens, TokenExpires(n)
       PROVE  TypeInv'
  <2>1. PICK refresh \in BOOLEAN :
          tokens' = [tokens EXCEPT ![n].accessExpired = TRUE, ![n].expired = refresh]
    BY <1>18 DEF TokenExpires
  <2>2. tokens' \in Seq(Token) /\ Len(tokens') = Len(tokens) /\ SameChains(tokens, tokens')
    BY <1>0, <2>1, ExpiryKeeps
  <2> QED
    BY <1>0, <1>18, <2>2, EndingTypes DEF TokenExpires, TypeInv
<1>19. ASSUME NEW f \in Families, RevokeInstallation(f)
       PROVE  TypeInv'
  BY <1>0, <1>1, <1>19 DEF RevokeInstallation
<1>20. CASE UNCHANGED tokensVars
  BY <1>20 DEF tokensVars, TypeInv, TokensTypeOK, RequestOK, TokenOK, Families
<1> QED
  BY <1>4, <1>5, <1>6, <1>7, <1>8, <1>9, <1>10, <1>11, <1>12, <1>13, <1>14, <1>15, <1>16,
     <1>17, <1>18, <1>19, <1>20 DEF TokensNext

\* The first state has the types.
LEMMA TypeInit == TokensInit => TypeInv
<1> SUFFICES ASSUME TokensInit  PROVE TypeInv
  OBVIOUS
<1>1. Families = {}
  BY DEF TokensInit, Families
<1>2. /\ <<>> \in Seq(Code) /\ <<>> \in Seq(Token)
      /\ Len(<<>>) = 0 /\ 0 <= MaxCodes /\ 0 <= MaxTokens
  BY OAuthTokensAssumption
<1>3. codes = <<>> /\ tokens = <<>>
  BY DEF TokensInit
<1>4. codes \in Seq(Code) /\ Len(codes) <= MaxCodes /\ tokens \in Seq(Token) /\ Len(tokens) <= MaxTokens
  BY <1>2, <1>3
<1>5. version \in 1..MaxVersion
  BY OAuthTokensAssumption DEF TokensInit
<1>6. enabled \in BOOLEAN /\ barred \in BOOLEAN /\ recorded = {} /\ disconnected = {}
  BY DEF TokensInit
<1>7. TokensTypeOK
  BY <1>4, <1>5, <1>6 DEF TokensTypeOK
<1>8. RequestOK /\ TokenOK
  BY <1>1 DEF TokensInit, RequestOK, TokenOK, Idle
<1> QED  BY <1>7, <1>8 DEF TypeInv

\* Type correctness, whatever the requests and revocations in between.
THEOREM TokensTypesHold == TokensSpec => []TokensTypeOK
<1>1. TypeInv /\ [TokensNext]_tokensVars => TypeInv'
  BY TypeStep
<1>2. TypeInv => TokensTypeOK
  BY DEF TypeInv
<1> QED
  BY TypeInit, <1>1, <1>2, PTL DEF TokensSpec

--------------------------------------------------------------------------------
(* Chains.                                                                 *)

\* The request is between spending a code and inserting the row for it.
Holds(p) == request[p].at \in {"issue", "insert"}

\* Why a code starts one chain: it is spent before anything is issued for it,
\* and only the request that spent it may issue, once.
CodesSpent ==
  /\ \A n \in DOMAIN tokens : codes[tokens[n].code].consumed
  /\ \A p \in Requests : Holds(p) =>
       /\ codes[request[p].of].consumed
       /\ \A n \in DOMAIN tokens : tokens[n].code # request[p].of
  /\ \A p, q \in Requests : Holds(p) /\ Holds(q) /\ request[p].of = request[q].of => p = q

ChainInv == TypeInv /\ OneChainPerCode /\ CodesSpent

\* Nothing is issued, nothing spent, and nobody comes to hold a code.
Quiet ==
  /\ SameChains(tokens, tokens')
  /\ \A c \in DOMAIN codes : codes'[c].consumed = codes[c].consumed
  /\ \A p \in Requests : Holds(p)' => Holds(p) /\ request'[p].of = request[p].of

\* A quiet step keeps every chain, and every code spent.
LEMMA QuietChains ==
  ASSUME ChainInv, Quiet
  PROVE  OneChainPerCode' /\ CodesSpent'
<1>1. OneChainPerCode'
  BY DEF ChainInv, Quiet, OneChainPerCode, SameChains
<1>2. \A n \in DOMAIN tokens' : codes'[tokens'[n].code].consumed
  BY DEF ChainInv, TypeInv, TokenOK, Quiet, CodesSpent, SameChains
<1>3. ASSUME NEW p \in Requests, Holds(p)'
      PROVE  /\ codes'[request'[p].of].consumed
             /\ \A n \in DOMAIN tokens' : tokens'[n].code # request'[p].of
  <2>1. Holds(p) /\ request'[p].of = request[p].of
    BY <1>3 DEF Quiet
  <2>2. request[p].of \in DOMAIN codes
    BY <2>1 DEF Holds, ChainInv, TypeInv, RequestOK
  <2> QED
    BY <2>1, <2>2 DEF ChainInv, Quiet, CodesSpent, SameChains
<1>4. \A p, q \in Requests : Holds(p)' /\ Holds(q)' /\ request'[p].of = request'[q].of => p = q
  BY DEF ChainInv, Quiet, CodesSpent
<1> QED
  BY <1>1, <1>2, <1>3, <1>4 DEF CodesSpent

\* Spending a code: nothing was issued for it, and nobody else may.
LEMMA RedeemChains ==
  ASSUME ChainInv, NEW p \in Requests, Redeem(p)
  PROVE  OneChainPerCode' /\ CodesSpent'
<1> DEFINE c == request[p].of
<1>1. c \in DOMAIN codes /\ p \in DOMAIN request
  BY DEF Redeem, ChainInv, TypeInv, RequestOK
<1>2. tokens' = tokens
  BY DEF Redeem
<1>3. \A q \in Requests \ {p} : request'[q] = request[q]
  BY DEF Redeem, Go, ChainInv, TypeInv, RequestOK
<1>4. CASE UNCHANGED codes /\ Go(p, Idle)
  BY <1>1, <1>2, <1>3, <1>4, QuietChains DEF Quiet, SameChains, Go, Idle, Holds
<1>5. CASE /\ ~codes[c].consumed /\ codes' = [codes EXCEPT ![c].consumed = TRUE]
           /\ request'[p].at = "issue" => request'[p].of = c
           /\ request'[p].at # "insert"
  <2>1. \A i \in DOMAIN codes : codes'[i].consumed = IF i = c THEN TRUE ELSE codes[i].consumed
    <3>1. codes[c] \in Code
      BY <1>1 DEF ChainInv, TypeInv, TokensTypeOK
    <3> HIDE DEF c
    <3> QED  BY <1>1, <1>5, <3>1 DEF Code
  <2>2. \A n \in DOMAIN tokens : tokens[n].code # c
    BY <1>5 DEF ChainInv, CodesSpent
  <2>3. \A q \in Requests : Holds(q) => request[q].of # c
    BY <1>5 DEF ChainInv, CodesSpent
  <2>4. \A q \in Requests : Holds(q)' => IF q = p THEN request'[q].of = c
                                         ELSE Holds(q) /\ request'[q].of = request[q].of
    BY <1>3, <1>5 DEF Holds
  <2>5. OneChainPerCode'
    BY <1>2 DEF ChainInv, OneChainPerCode
  <2>6. \A n \in DOMAIN tokens' : codes'[tokens'[n].code].consumed
    BY <1>2, <2>1 DEF ChainInv, TypeInv, TokenOK, CodesSpent
  <2>7. \A q \in Requests : Holds(q) => request[q].of \in DOMAIN codes
    BY DEF Holds, ChainInv, TypeInv, RequestOK
  <2> HIDE DEF c
  <2>8. \A q \in Requests : Holds(q)' =>
          /\ codes'[request'[q].of].consumed
          /\ \A n \in DOMAIN tokens' : tokens'[n].code # request'[q].of
    BY <1>1, <1>2, <2>1, <2>2, <2>4, <2>7 DEF ChainInv, CodesSpent
  <2>9. \A q, r \in Requests : Holds(q)' /\ Holds(r)' /\ request'[q].of = request'[r].of => q = r
    BY <2>3, <2>4 DEF ChainInv, CodesSpent
  <2> QED
    BY <2>5, <2>6, <2>8, <2>9 DEF CodesSpent
<1>6. \/ UNCHANGED codes /\ Go(p, Idle)
      \/ /\ ~codes[c].consumed /\ codes' = [codes EXCEPT ![c].consumed = TRUE]
         /\ Go(p, Idle) \/ Go(p, Step("issue", c))
  BY DEF Redeem, Redeemable
<1>7. Go(p, Idle) => request'[p].at = "idle"
  BY <1>1 DEF Go, Idle
<1>8. Go(p, Step("issue", c)) => request'[p].at = "issue" /\ request'[p].of = c
  BY <1>1 DEF Go, Step
<1> QED
  BY <1>4, <1>5, <1>6, <1>7, <1>8

\* A row is inserted after others that were kept, or of which one was spent.
Inserts(family, c) ==
  LET new == Len(tokens) + 1 IN
  /\ DOMAIN tokens' = DOMAIN tokens \cup {new} /\ new \notin DOMAIN tokens
  /\ tokens'[new].family = family /\ tokens'[new].code = c /\ ~tokens'[new].used
  /\ \A n \in DOMAIN tokens : /\ tokens'[n].family = tokens[n].family
                              /\ tokens'[n].code = tokens[n].code

\* The first row of a chain: the code has none, and its request holds it no longer.
LEMMA IssueChains ==
  ASSUME ChainInv, NEW p \in Requests, IssueTokens(p)
  PROVE  OneChainPerCode' /\ CodesSpent'
<1> DEFINE c == request[p].of
           rows == RevokedRows(request[p].prior)
           row == NewToken(Len(tokens) + 1, c)
<1>1. tokens \in Seq(Token) /\ codes \in Seq(Code) /\ DOMAIN request = Requests
  BY DEF ChainInv, TypeInv, TokensTypeOK, RequestOK
<1>2. rows \in Seq(Token) /\ Len(rows) = Len(tokens) /\ SameChains(tokens, rows)
  BY <1>1, RevocationKeeps
<1>3. tokens' = Append(rows, row)
  BY DEF IssueTokens
<1>4. row.family = Len(tokens) + 1 /\ row.code = c /\ ~row.used
  BY DEF NewToken
<1>5. /\ Inserts(Len(tokens) + 1, c)
      /\ \A n \in DOMAIN tokens : tokens'[n].used = tokens[n].used
  <2> HIDE DEF rows, row, c
  <2> QED  BY <1>1, <1>2, <1>3, <1>4 DEF Inserts, SameChains
<1>6. Holds(p)
  BY DEF IssueTokens, Holds
<1>7. codes[c].consumed /\ \A n \in DOMAIN tokens : tokens[n].code # c
  BY <1>6 DEF ChainInv, CodesSpent
<1>8. OneChainPerCode'
  <2> HIDE DEF c
  <2> QED  BY <1>5, <1>7 DEF Inserts, ChainInv, OneChainPerCode
<1>9. \A n \in DOMAIN tokens' : codes'[tokens'[n].code].consumed
  <2>1. codes' = codes
    BY DEF IssueTokens
  <2> HIDE DEF c
  <2> QED  BY <1>5, <1>7, <2>1 DEF Inserts, ChainInv, CodesSpent
<1>10. \A q \in Requests : Holds(q)' => q # p /\ Holds(q) /\ request'[q].of = request[q].of
  BY <1>1 DEF IssueTokens, Go, Idle, Holds
<1>11. \A q \in Requests : Holds(q)' =>
         /\ codes'[request'[q].of].consumed
         /\ \A n \in DOMAIN tokens' : tokens'[n].code # request'[q].of
  <2>1. codes' = codes
    BY DEF IssueTokens
  <2>2. \A q \in Requests : Holds(q) /\ q # p => request[q].of # c
    BY <1>6 DEF ChainInv, CodesSpent
  <2> HIDE DEF c
  <2> QED  BY <1>5, <1>10, <2>1, <2>2 DEF Inserts, ChainInv, CodesSpent
<1>12. \A q, r \in Requests : Holds(q)' /\ Holds(r)' /\ request'[q].of = request'[r].of => q = r
  BY <1>10 DEF ChainInv, CodesSpent
<1> QED
  BY <1>8, <1>9, <1>11, <1>12 DEF CodesSpent

\* The next row of a chain: the one that was left is spent by the same statement.
LEMMA ClaimChains ==
  ASSUME ChainInv, NEW p \in Requests, Claim(p)
  PROVE  OneChainPerCode' /\ CodesSpent'
<1> DEFINE n == request[p].of
           spent == [tokens EXCEPT ![n].used = TRUE]
           row == NewToken(tokens[n].family, tokens[n].code)
<1>1. tokens \in Seq(Token) /\ codes \in Seq(Code) /\ DOMAIN request = Requests
  BY DEF ChainInv, TypeInv, TokensTypeOK, RequestOK
<1>2. n \in DOMAIN tokens
  BY DEF Claim, ChainInv, TypeInv, RequestOK
<1>3. codes' = codes
  BY DEF Claim
<1>4. \A q \in Requests : Holds(q)' => Holds(q) /\ request'[q].of = request[q].of
  BY <1>1 DEF Claim, Go, Step, Idle, Holds
<1>5. CASE UNCHANGED tokens
  BY <1>3, <1>4, <1>5, QuietChains DEF Quiet, SameChains
<1>6. CASE ~tokens[n].used /\ tokens' = Append(spent, row)
  <2>1. /\ spent \in Seq(Token) /\ Len(spent) = Len(tokens) /\ DOMAIN spent = DOMAIN tokens
        /\ spent[n].used
        /\ \A m \in DOMAIN tokens : /\ spent[m].family = tokens[m].family
                                    /\ spent[m].code = tokens[m].code
                                    /\ m # n => spent[m].used = tokens[m].used
    BY <1>1, <1>2, ClaimSpends
  <2>2. row.family = tokens[n].family /\ row.code = tokens[n].code /\ ~row.used
    BY DEF NewToken
  <2>3. /\ Inserts(tokens[n].family, tokens[n].code)
        /\ tokens'[n].used
        /\ \A m \in DOMAIN tokens : m # n => tokens'[m].used = tokens[m].used
    <3> HIDE DEF spent, row, n
    <3> QED  BY <1>1, <1>2, <1>6, <2>1, <2>2 DEF Inserts
  <2> HIDE DEF spent, row, n
  <2>4. OneChainPerCode'
    BY <1>2, <1>6, <2>3 DEF Inserts, ChainInv, OneChainPerCode
  <2>5. \A m \in DOMAIN tokens' : codes'[tokens'[m].code].consumed
    BY <1>2, <1>3, <2>3 DEF Inserts, ChainInv, CodesSpent
  <2>6. \A q \in Requests : Holds(q)' =>
          /\ codes'[request'[q].of].consumed
          /\ \A m \in DOMAIN tokens' : tokens'[m].code # request'[q].of
    BY <1>2, <1>3, <1>4, <2>3 DEF Inserts, ChainInv, CodesSpent
  <2>7. \A q, r \in Requests : Holds(q)' /\ Holds(r)' /\ request'[q].of = request'[r].of => q = r
    BY <1>4 DEF ChainInv, CodesSpent
  <2> QED
    BY <2>4, <2>5, <2>6, <2>7 DEF CodesSpent
<1> QED
  BY <1>5, <1>6 DEF Claim, Claimable

\* Every step keeps the chains.
LEMMA ChainStep ==
  ASSUME ChainInv, [TokensNext]_tokensVars
  PROVE  ChainInv'
<1>0. /\ TypeInv /\ TypeInv'
      /\ tokens \in Seq(Token) /\ codes \in Seq(Code) /\ DOMAIN request = Requests
  BY TypeStep DEF ChainInv, TypeInv, TokensTypeOK, RequestOK
<1>1. Quiet => ChainInv'
  BY <1>0, QuietChains DEF ChainInv
<1>2. ASSUME NEW families, Disconnect(families), UNCHANGED codes,
             request' = request \/ \E p \in Requests : Go(p, Idle)
      PROVE  ChainInv'
  <2>1. SameChains(tokens, tokens')
    BY <1>0, <1>2, RevocationKeeps DEF Disconnect, RevokeFamilies
  <2>2. \A p \in Requests : Holds(p)' => Holds(p) /\ request'[p].of = request[p].of
    BY <1>0, <1>2 DEF Go, Idle, Holds
  <2> QED  BY <1>1, <1>2, <2>1, <2>2 DEF Quiet
<1>3. CASE IssueCode
  <2> DEFINE code == [version |-> version, consumed |-> FALSE, expired |-> FALSE]
  <2>1. code \in Code
    BY <1>0 DEF TypeInv, TokensTypeOK, Code
  <2>2. codes' = Append(codes, code)
    BY <1>3 DEF IssueCode
  <2> HIDE DEF code
  <2>3. \A c \in DOMAIN codes : codes'[c] = codes[c]
    BY <1>0, <2>1, <2>2, Inserted
  <2> QED  BY <1>1, <1>3, <2>3 DEF IssueCode, Quiet, SameChains, Holds
<1>4. CASE Restart \/ Enable \/ IdentityChanges \/ UNCHANGED tokensVars
  BY <1>0, <1>1, <1>4
     DEF Restart, Enable, IdentityChanges, tokensVars, Idle, Quiet, SameChains, Holds
<1>5. ASSUME NEW block \in BOOLEAN, RevokeLive(block)
      PROVE  ChainInv'
  BY <1>2, <1>5 DEF RevokeLive
<1>6. ASSUME NEW p \in Requests, NEW c \in DOMAIN codes, PresentCode(p, c)
      PROVE  ChainInv'
  BY <1>0, <1>1, <1>6 DEF PresentCode, Go, Step, Quiet, SameChains, Holds
<1>7. ASSUME NEW p \in Requests, Redeem(p) \/ IssueTokens(p) \/ Claim(p)
      PROVE  ChainInv'
  BY <1>0, <1>7, RedeemChains, IssueChains, ClaimChains DEF ChainInv
<1>8. ASSUME NEW p \in Requests, SelectPrior(p)
      PROVE  ChainInv'
  BY <1>0, <1>1, <1>8 DEF SelectPrior, Go, Quiet, SameChains, Holds
<1>9. ASSUME NEW p \in Requests, NEW n \in DOMAIN tokens, PresentRefresh(p, n)
      PROVE  ChainInv'
  BY <1>0, <1>1, <1>9 DEF PresentRefresh, Go, Step, Quiet, SameChains, Holds
<1>10. ASSUME NEW p \in Requests, RevokeReused(p)
       PROVE  ChainInv'
  BY <1>2, <1>10 DEF RevokeReused
<1>11. ASSUME NEW c \in DOMAIN codes, CodeExpires(c)
       PROVE  ChainInv'
  <2>1. \A i \in DOMAIN codes : codes'[i].consumed = codes[i].consumed
    <3>1. codes[c] \in Code
      BY <1>0
    <3> QED  BY <1>11, <3>1 DEF CodeExpires, Code
  <2> QED  BY <1>1, <1>11, <2>1 DEF CodeExpires, Quiet, SameChains, Holds
<1>12. ASSUME NEW n \in DOMAIN tokens, TokenExpires(n)
       PROVE  ChainInv'
  <2>1. SameChains(tokens, tokens')
    BY <1>0, <1>12, ExpiryKeeps DEF TokenExpires
  <2> QED  BY <1>1, <1>12, <2>1 DEF TokenExpires, Quiet, Holds
<1>13. ASSUME NEW n \in DOMAIN tokens, RevokeByRefresh(n) \/ RevokeByAccess(n)
       PROVE  ChainInv'
  BY <1>2, <1>13 DEF RevokeByRefresh, RevokeByAccess
<1>14. ASSUME NEW f \in Families, RevokeInstallation(f)
       PROVE  ChainInv'
  BY <1>2, <1>14 DEF RevokeInstallation
<1> QED
  BY <1>3, <1>4, <1>5, <1>6, <1>7, <1>8, <1>9, <1>10, <1>11, <1>12, <1>13, <1>14 DEF TokensNext

\* One code, one chain: requests that present a code or a refresh token at once,
\* and a server that restarts among them, never leave two tokens to go on with.
THEOREM OneChainHolds == TokensSpec => []OneChainPerCode
<1>1. TokensInit => OneChainPerCode /\ CodesSpent
  BY DEF TokensInit, OneChainPerCode, CodesSpent, Holds, Idle
<1>2. TokensInit => ChainInv
  BY <1>1, TypeInit DEF ChainInv
<1>3. ChainInv /\ [TokensNext]_tokensVars => ChainInv'
  BY ChainStep
<1>4. ChainInv => OneChainPerCode
  BY DEF ChainInv
<1> QED
  BY <1>2, <1>3, <1>4, PTL DEF TokensSpec

--------------------------------------------------------------------------------
(* Revocation.                                                             *)

\* Whoever is told of a revocation is told after it was recorded, or with it.
TellsWhatIsRecorded == disconnected \subseteq recorded

\* Every step that tells somebody of a revocation records it in the same commit.
LEMMA TellingStep ==
  ASSUME TellsWhatIsRecorded, [TokensNext]_tokensVars
  PROVE  TellsWhatIsRecorded'
<1>1. ASSUME NEW families, Disconnect(families)
      PROVE  TellsWhatIsRecorded'
  BY <1>1 DEF TellsWhatIsRecorded, Disconnect, RevokeFamilies
<1>2. ASSUME NEW p \in Requests, IssueTokens(p)
      PROVE  TellsWhatIsRecorded'
  BY <1>2 DEF TellsWhatIsRecorded, IssueTokens
<1>3. ASSUME UNCHANGED <<recorded, disconnected>>
      PROVE  TellsWhatIsRecorded'
  BY <1>3 DEF TellsWhatIsRecorded
<1> QED
  BY <1>1, <1>2, <1>3
     DEF TokensNext, tokensVars, IssueCode, Restart, RevokeLive, Enable, IdentityChanges, Redeem,
         SelectPrior, Claim, RevokeReused, PresentCode, PresentRefresh, CodeExpires,
         RevokeByRefresh, RevokeByAccess, TokenExpires, RevokeInstallation

\* A connection that somebody was told is revoked is refused from then on, by the
\* resource server and by introspection, whichever of its tokens is shown.
THEOREM RevocationHolds == TokensSpec => []DisconnectedIsRefused
<1>1. TokensInit => TellsWhatIsRecorded
  BY DEF TokensInit, TellsWhatIsRecorded
<1>2. TellsWhatIsRecorded /\ [TokensNext]_tokensVars => TellsWhatIsRecorded'
  BY TellingStep
<1>3. TellsWhatIsRecorded => DisconnectedIsRefused
  BY DEF TellsWhatIsRecorded, DisconnectedIsRefused, ResourceServerAccepts, RegistryRevokes,
         IntrospectActive, IsRevoked
<1> QED
  BY <1>1, <1>2, <1>3, PTL DEF TokensSpec
================================================================================
