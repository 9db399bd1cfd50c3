--------------------------------- MODULE Limits ---------------------------------
(***************************************************************************)
(* The rate limiters: sliding windows kept in Redis by several servers,    *)
(* and what each of them does when Redis does not answer.                  *)
(*                                                                         *)
(*   guardrails/rate_limiter       RateLimiter: check, check_buckets       *)
(*   access/middleware/rate_limit  every call of the REST API              *)
(*   mcp/transport_guard           the buckets of a call over MCP          *)
(*   oauth/rate_limit              the bucket of an address                *)
(*   routes/auth                   the login limiter and its memory        *)
(*   shared/redis_client           get_redis and its cool-down             *)
(*                                                                         *)
(* A server handles one check at a time here. Production: no fail-open.    *)
(* A hit carries the time its check read before it was sent, and may reach *)
(* Redis after hits that carry later times.                                *)
(* ASSUMED: the clocks agree, and no server restarts within a window.      *)
(***************************************************************************)
EXTENDS Integers, Sequences, FiniteSets

CONSTANTS
  Servers,      \* processes
  ApiUsers,     \* users of one tenant
  LimitOf,      \* [Windows -> Nat]: the settings
  WindowTicks,  \* length of a window
  MaxNow,       \* BOUND: ticks
  MaxChecks     \* BOUND: checks

Windows == ApiUsers \cup {"tenant", "bucket", "login"}

ASSUME LimitsAssumption ==
  /\ LimitOf \in [Windows -> Nat] /\ WindowTicks \in Nat \ {0, 1} /\ {MaxNow, MaxChecks} \subseteq Nat
  /\ ApiUsers \cap {"tenant", "bucket", "login"} = {} /\ "redis" \notin Servers

VARIABLES
  now, redisUp,
  redisClient,  \* redis_client of each server: left alone for a while, or not
  hits,         \* the sorted sets: [n, at] members of each window
  memory,       \* _LOGIN_ATTEMPTS of each server
  check,        \* where the check of each server stands
  checks,       \* checks begun
  admitted      \* history: [window, place, n, at]

limitsVars == <<now, redisUp, redisClient, hits, memory, check, checks, admitted>>

NoCheck == [at |-> "none"]

LimitsInit ==
  /\ now = 0 /\ redisUp = TRUE /\ redisClient = [s \in Servers |-> "ready"]
  /\ hits = [w \in Windows |-> {}] /\ memory = [s \in Servers |-> {}]
  /\ check = [s \in Servers |-> NoCheck] /\ checks = 0 /\ admitted = {}

Checks(s, next) == check' = [check EXCEPT ![s] = next]

(***************************************************************************)
(* Redis.                                                                  *)
(***************************************************************************)

\* get_redis: a redisClient that is open is pinged; one that failed is left alone for a
\* while; otherwise a connection is tried.
Connected(s) == redisUp /\ redisClient' = [redisClient EXCEPT ![s] = "ready"]
NotConnected(s) ==
  /\ ~redisUp \/ redisClient[s] = "cooling"
  /\ redisClient' = [redisClient EXCEPT ![s] = "cooling"]

RedisTurns ==
  /\ redisUp' = ~redisUp
  /\ UNCHANGED <<now, redisClient, hits, memory, check, checks, admitted>>

(***************************************************************************)
(* Windows.                                                                *)
(***************************************************************************)

Recent(set, at) == {h \in set : h.at > at - WindowTicks}

\* zremrangebyscore and zadd.
Added(set, n, at) == Recent(set, at) \cup {[n |-> n, at |-> at]}

\* zcard after the member was added.
Within_BeforeAdded(count, limit) == count - 1 <= limit
Within(count, limit) == count <= limit

Admission(w, place, n, at) == [window |-> w, place |-> place, n |-> n, at |-> at]
Admits(admissions) == admitted' = admitted \cup admissions

CheckBegins(s) == check[s] = NoCheck /\ checks < MaxChecks /\ checks' = checks + 1

(***************************************************************************)
(* RateLimiter.check: the tenant's window, then the user's, in commands    *)
(* of their own and each at its own time; a refused call has been counted  *)
(* in both.                                                                *)
(***************************************************************************)

CheckApi(s, u) ==
  /\ CheckBegins(s)
  /\ \/ Connected(s) /\ Checks(s, [at |-> "add", user |-> u, n |-> checks, began |-> now,
                                   when |-> now, left |-> <<"tenant", u>>, ok |-> TRUE])
     \/ NotConnected(s) /\ UNCHANGED check
  /\ UNCHANGED <<now, redisUp, hits, memory, admitted>>

WindowOf(s) == check[s].left[1]

AddHit(s) ==
  /\ check[s].at = "add" /\ redisUp
  /\ hits' = [hits EXCEPT ![WindowOf(s)] = Added(@, check[s].n, check[s].when)]
  /\ Checks(s, [check[s] EXCEPT !.at = "count"])
  /\ UNCHANGED <<now, redisUp, redisClient, memory, checks, admitted>>

CountHits(s) ==
  /\ check[s].at = "count" /\ redisUp
  /\ LET c == check[s]
         ok == c.ok /\ Within(Cardinality(hits[WindowOf(s)]), LimitOf[WindowOf(s)])
     IN IF Len(c.left) = 2
        THEN /\ Checks(s, [c EXCEPT !.at = "add", !.left = <<c.user>>, !.when = now, !.ok = ok])
             /\ UNCHANGED admitted
        ELSE /\ Checks(s, NoCheck)
             /\ IF ok THEN Admits({Admission("tenant", "redis", c.n, c.began),
                                  Admission(c.user, "redis", c.n, c.when)})
                ELSE UNCHANGED admitted
  /\ UNCHANGED <<now, redisUp, redisClient, hits, memory, checks>>

\* A command fails: the call ends in an error, and is not let through.
CheckBreaks(s) ==
  /\ check[s].at \in {"add", "count"} /\ ~redisUp
  /\ Checks(s, NoCheck)
  /\ UNCHANGED <<now, redisUp, redisClient, hits, memory, checks, admitted>>

(***************************************************************************)
(* Windows that one transaction adds to and counts, at a time read before  *)
(* it was sent.                                                            *)
(***************************************************************************)

\* check_buckets (over MCP, and for the addresses that use the OAuth routes) and
\* _check_login_rate_limit_redis: the pipeline is put together.
Sends(s, w) == Checks(s, [at |-> "send", window |-> w, n |-> checks, when |-> now])

\* _check_login_rate_limit_memory, in one go.
InMemory(s, n) ==
  LET set == Added(memory[s], n, now) IN
    /\ memory' = [memory EXCEPT ![s] = set]
    /\ IF Within(Cardinality(set), LimitOf["login"]) THEN Admits({Admission("login", s, n, now)})
       ELSE UNCHANGED admitted

CheckBuckets(s) ==
  /\ CheckBegins(s)
  /\ \/ Connected(s) /\ Sends(s, "bucket")
     \/ NotConnected(s) /\ UNCHANGED check
  /\ UNCHANGED <<now, redisUp, hits, memory, admitted>>

\* _check_login_rate_limit: Redis, or the memory of this process.
CheckLogin(s) ==
  /\ CheckBegins(s)
  /\ \/ Connected(s) /\ Sends(s, "login") /\ UNCHANGED <<memory, admitted>>
     \/ NotConnected(s) /\ InMemory(s, checks) /\ UNCHANGED check
  /\ UNCHANGED <<now, redisUp, hits>>

\* The pipeline of a check is executed, and counts.
Pipelined(s) ==
  LET c == check[s]
      set == Added(hits[c.window], c.n, c.when)
  IN /\ c.at = "send" /\ redisUp
     /\ hits' = [hits EXCEPT ![c.window] = set]
     /\ IF Within(Cardinality(set), LimitOf[c.window])
        THEN Admits({Admission(c.window, "redis", c.n, c.when)}) ELSE UNCHANGED admitted
     /\ Checks(s, NoCheck)
     /\ UNCHANGED <<now, redisUp, redisClient, memory, checks>>

\* Redis goes before it answers, with or without having executed the pipeline: a
\* bucket lets nobody through, a login is counted here.
PipelineBreaks(s) ==
  LET c == check[s] IN
    /\ c.at = "send" /\ ~redisUp
    /\ \/ UNCHANGED hits
       \/ hits' = [hits EXCEPT ![c.window] = Added(@, c.n, c.when)]
    /\ IF c.window = "login" THEN InMemory(s, c.n) ELSE UNCHANGED <<memory, admitted>>
    /\ Checks(s, NoCheck)
    /\ UNCHANGED <<now, redisUp, redisClient, checks>>

Tick ==
  /\ now < MaxNow /\ now' = now + 1
  /\ UNCHANGED <<redisUp, redisClient, hits, memory, check, checks, admitted>>

LimitsNext ==
  \/ Tick \/ RedisTurns
  \/ \E s \in Servers : \/ AddHit(s) \/ CountHits(s) \/ CheckBreaks(s)
                        \/ CheckBuckets(s) \/ CheckLogin(s)
                        \/ Pipelined(s) \/ PipelineBreaks(s)
                        \/ \E u \in ApiUsers : CheckApi(s, u)

LimitsSpec == LimitsInit /\ [][LimitsNext]_limitsVars
--------------------------------------------------------------------------------

LimitsTypeOK ==
  /\ now \in 0..MaxNow /\ redisUp \in BOOLEAN /\ checks \in 0..MaxChecks
  /\ redisClient \in [Servers -> {"ready", "cooling"}]
  /\ hits \in [Windows -> SUBSET [n : 0..MaxChecks, at : 0..MaxNow]]
  /\ memory \in [Servers -> SUBSET [n : 0..MaxChecks, at : 0..MaxNow]]
  /\ \A s \in Servers : check[s].at \in {"none", "add", "count", "send"}

\* The calls let through that came in the stretch of a window's length that ends then.
AdmittedUpTo(w, place, end) ==
  {a \in admitted : a.window = w /\ a.place = place /\ a.at \in end - WindowTicks + 1..end}

\* However the checks of several servers interleave and however late they reach
\* Redis, and whether or not Redis is there: the calls let through of the last
\* window's length are never more than its limit.  For logins, in each place that
\* counts them; in the memory of a process, in every stretch of that length.
AdmittedWithinLimit ==
  \A w \in Windows, place \in Servers \cup {"redis"} :
    \A end \in IF place = "redis" THEN {now} ELSE 0..now :
      Cardinality(AdmittedUpTo(w, place, end)) <= LimitOf[w]
================================================================================
