----------------------------- MODULE SigningKeys ------------------------------
(***************************************************************************)
(* How the resource server comes to know the keys access tokens are signed *)
(* with: the key set the authorization server publishes, and the cache of  *)
(* it that concurrent requests share behind a lock.                        *)
(*                                                                         *)
(*   oauth/keys          active_signing_key, verification_keys             *)
(*   access/as_tokens    _signing_keys_for, _decode_signed_claims          *)
(***************************************************************************)
EXTENDS Integers

CONSTANTS
  Verifiers,  \* concurrent requests at the resource server
  MaxKid      \* BOUND: signing keys ever configured

ASSUME SigningKeysAssumption == MaxKid \in Nat \ {0} /\ "nobody" \notin Verifiers

VARIABLES
  activeKey,  \* the key that signs
  retained,   \* earlier keys still published
  cache,      \* the keys of the cached document
  old,        \* the cache is past _DOCUMENT_CACHE_SECONDS
  holder,     \* the request that holds the lock of the issuer, or "nobody"
  answer,     \* the document the holder was served, on its way; {} before that
  verifier    \* where each request stands

keysVars == <<activeKey, retained, cache, old, holder, answer, verifier>>

Published == retained \cup {activeKey}
KeyWaits == {"lock", "fetch"}
Verifier == [at : {"idle", "ok", "malformed"} \cup KeyWaits, kid : 0..MaxKid,
             refresh : BOOLEAN,    \* the second attempt, forced
             fresh : BOOLEAN,      \* somebody fetched since the attempt began
             unlucky : BOOLEAN,    \* history: a fetch of this request failed
             retired : BOOLEAN,    \* history: its key was withdrawn meanwhile
             overtaken : BOOLEAN]  \* history: its refresh began while an answer
                                   \* without its key was on its way
KeyRests == {"idle", "ok", "malformed"}
NotStarted ==
  [at |-> "idle", kid |-> 0, refresh |-> FALSE, fresh |-> FALSE, unlucky |-> FALSE, retired |-> FALSE,
   overtaken |-> FALSE]

KeysInit ==
  /\ activeKey = 1 /\ retained = {}
  /\ cache = {} /\ old = FALSE   \* no document cached
  /\ holder = "nobody" /\ answer = {}
  /\ verifier = [v \in Verifiers |-> NotStarted]

Use_OneAttempt(r, keys, coming) == [r EXCEPT !.at = IF r.kid \in keys THEN "ok" ELSE "malformed"]

\* _decode_signed_claims with the keys it got: an unknown kid gets one forced
\* refresh; no keys at all end it.
Use(r, keys, coming) ==
  IF r.kid \in keys THEN [r EXCEPT !.at = "ok"]
  ELSE IF r.refresh \/ keys = {} THEN [r EXCEPT !.at = "malformed"]
  ELSE [r EXCEPT !.at = "lock", !.refresh = TRUE, !.fresh = FALSE,
                 !.overtaken = coming # {} /\ r.kid \notin coming]

\* A token signed with any key that has been activeKey and was not withdrawn.
Present(v, kid) ==
  /\ verifier[v].at \in KeyRests /\ kid \in Published
  /\ LET r == [NotStarted EXCEPT !.kid = kid, !.at = "lock"] IN
       verifier' = [verifier EXCEPT ![v] = IF cache # {} /\ ~old THEN Use(r, cache, answer) ELSE r]
  /\ UNCHANGED <<activeKey, retained, cache, old, holder, answer>>

Reusable_AnyCache(r) == cache # {} /\ ~old
\* The second look, with the lock: somebody fetched while this one waited, or
\* the cache is good after all.
Reusable(r) == cache # {} /\ (r.fresh \/ (~r.refresh /\ ~old))

\* The lock is not kept while the keys are fetched (a deliberate error).
Acquire_LetsGo(v) ==
  /\ verifier[v].at = "lock" /\ holder = "nobody"
  /\ verifier' = [verifier EXCEPT ![v] = IF Reusable(@) THEN Use(@, cache, {}) ELSE [@ EXCEPT !.at = "fetch"]]
  /\ UNCHANGED <<activeKey, retained, cache, old, holder, answer>>

Acquire(v) ==
  /\ verifier[v].at = "lock" /\ holder = "nobody"
  /\ IF Reusable(verifier[v])
     THEN verifier' = [verifier EXCEPT ![v] = Use(@, cache, {})] /\ UNCHANGED holder
     ELSE verifier' = [verifier EXCEPT ![v].at = "fetch"] /\ holder' = v
  /\ UNCHANGED <<activeKey, retained, cache, old, answer>>

\* The authorization server answers with what it publishes at that moment.
Serve(v) ==
  /\ verifier[v].at = "fetch" /\ answer = {}
  /\ answer' = Published
  /\ UNCHANGED <<activeKey, retained, cache, old, holder, verifier>>

\* _fetch_signing_keys succeeds: the answer has come, and fetched_at is the time
\* it came at.  Whoever began to wait before that takes it for fresh.
FetchSucceeds(v) ==
  /\ verifier[v].at = "fetch" /\ answer # {}
  /\ cache' = answer /\ old' = FALSE /\ holder' = "nobody" /\ answer' = {}
  /\ verifier' = [w \in Verifiers |->
       IF w = v THEN Use(verifier[v], answer, {})
       ELSE IF verifier[w].at = "lock" THEN [verifier[w] EXCEPT !.fresh = TRUE]
       ELSE verifier[w]]
  /\ UNCHANGED <<activeKey, retained>>

\* The fetch fails, whether or not the server has answered: the old keys stay.
FetchFails(v) ==
  /\ verifier[v].at = "fetch"
  /\ holder' = "nobody" /\ answer' = {}
  /\ verifier' = [verifier EXCEPT ![v] = Use([@ EXCEPT !.unlucky = TRUE], cache, {})]
  /\ UNCHANGED <<activeKey, retained, cache, old>>

DocumentLapses ==
  /\ cache # {} /\ ~old /\ old' = TRUE
  /\ UNCHANGED <<activeKey, retained, cache, holder, answer, verifier>>

\* Operations configure a new key and keep the public half of the old one.
Rotate ==
  /\ activeKey < MaxKid
  /\ activeKey' = activeKey + 1 /\ retained' = retained \cup {activeKey}
  /\ UNCHANGED <<cache, old, holder, answer, verifier>>

Withdraw(kid) ==
  /\ kid \in retained
  /\ retained' = retained \ {kid}
  /\ verifier' = [v \in Verifiers |->
       IF verifier[v].kid = kid THEN [verifier[v] EXCEPT !.retired = TRUE] ELSE verifier[v]]
  /\ UNCHANGED <<activeKey, cache, old, holder, answer>>

KeysNext ==
  \/ Rotate \/ DocumentLapses
  \/ \E kid \in 1..MaxKid : Withdraw(kid)
  \/ \E v \in Verifiers : Acquire(v) \/ Serve(v) \/ FetchSucceeds(v) \/ FetchFails(v)
                          \/ \E kid \in 1..MaxKid : Present(v, kid)

KeysSpec == KeysInit /\ [][KeysNext]_keysVars
--------------------------------------------------------------------------------

KeysTypeOK ==
  /\ activeKey \in 1..MaxKid /\ retained \subseteq 1..MaxKid /\ cache \subseteq 1..MaxKid
  /\ answer \subseteq 1..MaxKid /\ (holder = "nobody" => answer = {})
  /\ old \in BOOLEAN /\ holder \in Verifiers \cup {"nobody"}
  /\ verifier \in [Verifiers -> Verifier]
  /\ \A v \in Verifiers : verifier[v].at = "fetch" <=> holder = v

\* What a rotation costs: a token signed with a published key is verified,
\* whatever the cache held and whoever refreshed it meanwhile, but for a request
\* that could not reach the server itself, and one whose refresh began while an
\* answer that the server gave before the rotation was still on its way: that
\* one takes the answer for newer than itself.
PublishedKeyVerifies ==
  \A v \in Verifiers :
    verifier[v].at = "malformed" =>
      verifier[v].unlucky \/ verifier[v].retired \/ verifier[v].overtaken
================================================================================
