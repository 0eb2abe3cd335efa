----------------------------- MODULE ApiGateway -----------------------------
(***************************************************************************)
(* The way of a client's request through services/api-gateway/main.py: the *)
(* key and role checks (shared/rbac.py), the rate limiter, the proxied     *)
(* call with its timeout, the audit record, and the client that tries      *)
(* again with the same idempotency key.                                    *)
(*                                                                         *)
(* The gateway is one event loop.  require_api_key and what follows the    *)
(* upstream's answer contain no await, so each is one action; between them *)
(* requests interleave, clients give nothing up, and the upstream goes on  *)
(* with a call the gateway no longer waits for.  The upstream's handler is *)
(* the endpoint that initiates an FX settlement, whose lookup by           *)
(* idempotency key and whose insert are separate steps.                    *)
(***************************************************************************)
EXTENDS Integers, FiniteSets

CONSTANTS
  Keys,            \* raw API keys
  GatewayKey,      \* GATEWAY_API_KEY
  DbRole,          \* api_keys: the role of each key stored there
  Operations,      \* what clients want done, one idempotency key each
  PathOf,          \* the path of each operation
  Holders,         \* the keys each operation may be sent with
  CarriedRole,     \* the x-actor-role header its requests arrive with (NoRole: none)
  MaxAttempts,     \* bound on how often a client sends each operation
  Window,          \* window_secs
  MaxRequests,     \* max_requests
  MaxConnections,  \* httpx.Limits(max_connections)
  MaxTime,         \* bound on the clock
  MaxRestarts,     \* bound on restarts of the gateway
  MaxKafkaFaults   \* bound on flushes that time out

Fragments ==
  {"/approve", "/sign", "/tokens/issue", "/tokens/redeem", "/tokens/balance", "/accounts",
   "/settlements/submit", "/payments/conditional", "/payments/escrow", "/fx/settle",
   "/fx/quote", "/fx/rates"}

UserRole == {"admin", "approver", "signer", "trader", "auditor"}

NoRole == "none"

ASSUME GatewayAssumption ==
  /\ GatewayKey \in Keys /\ DOMAIN DbRole \subseteq Keys
  /\ \A k \in DOMAIN DbRole : DbRole[k] \in UserRole
  /\ Holders \in [Operations -> SUBSET Keys]
  /\ CarriedRole \in [Operations -> UserRole \cup {NoRole}]
  /\ PathOf \in [Operations -> SUBSET Fragments]
  /\ \A o \in Operations : \A f, g \in PathOf[o] \ {"/approve", "/sign"} : f = g
  /\ MaxAttempts \in [Operations -> Nat]
  /\ {Window, MaxRequests, MaxConnections} \subseteq Nat \ {0}
  /\ {MaxTime, MaxRestarts, MaxKafkaFaults} \subseteq Nat

(* A request is one attempt at an operation. *)
Requests == UNION {{o} \X (1..MaxAttempts[o]) : o \in Operations}

VARIABLES
  clock,       \* time.monotonic
  bucket,      \* limiter._buckets: the timestamps of each key, each with its request
  phase,       \* per request: new, admitted, sent or over
  key,         \* the key the request came with
  actorRole,   \* request.state.actor_role
  admittedAt,  \* when the limiter let the request pass (0: not)
  status,      \* the answer the client has (0: none, 1: connection lost)
  upstream,    \* what the upstream does with the call
  toldRole,    \* the X-Actor-Role that the upstream reads from it
  effects,     \* how often each operation was carried out
  audited,     \* requests in the audit.trail topic
  faults       \* failures so far: [restart, kafka]

gateVars == <<bucket, actorRole, admittedAt>>
upstreamVars == <<upstream, toldRole, effects>>
vars == <<clock, gateVars, key, phase, status, upstreamVars, audited, faults>>

NoKey == "none"

Lost == 1

-----------------------------------------------------------------------------
(* shared/rbac.py                                                          *)

ROUTE_ROLE_MAP(fragment) ==
  CASE fragment \in {"/tokens/balance", "/fx/rates"} -> {"admin", "trader", "auditor"}
    [] fragment = "/accounts"                        -> {"admin"}
    [] OTHER                                         -> {"admin", "trader"}

(* A path is the set of fragments it contains, at most one of them from    *)
(* the map.  No match: no role check.                                      *)
MatchRouteRole(path) ==
  CASE "/approve" \in path -> {"admin", "approver"}
    [] "/sign" \in path    -> {"admin", "signer"}
    [] path = {}           -> UserRole
    [] OTHER               -> ROUTE_ROLE_MAP(CHOOSE f \in path : TRUE)

-----------------------------------------------------------------------------
(* SimpleRateLimiter.is_allowed.  The order of a bucket's timestamps does  *)
(* not matter; the request that left one tells equal ones apart.           *)

Recent(k) == {stamp \in bucket[k] : stamp[2] > clock - Window}

OneTooMany(k) == Cardinality(Recent(k)) <= MaxRequests

IsAllowed(k) == Cardinality(Recent(k)) < MaxRequests

-----------------------------------------------------------------------------
(* audit_middleware, after call_next returned: publish_dict produces and   *)
(* flushes for five seconds; a record the broker has not taken by then is  *)
(* left to the producer, which may lose it.  None of this fails the        *)
(* request.                                                                *)

AnswerAuditingSuccess(a, code) ==
  /\ phase' = [phase EXCEPT ![a] = "over"]
  /\ status' = [status EXCEPT ![a] = code]
  /\ audited' = IF code = 200 THEN audited \cup {a} ELSE audited
  /\ UNCHANGED faults

Answer(a, code) ==
  /\ phase' = [phase EXCEPT ![a] = "over"]
  /\ status' = [status EXCEPT ![a] = code]
  /\ \/ audited' = audited \cup {a} /\ UNCHANGED faults
     \/ /\ faults.kafka < MaxKafkaFaults
        /\ faults' = [faults EXCEPT !.kafka = @ + 1]
        /\ UNCHANGED audited

-----------------------------------------------------------------------------
(* require_api_key.                                                        *)

(* A client sends an operation again after any answer but success. *)
Arrives(a, k) ==
  /\ phase[a] = "new"
  /\ a[2] > 1 => status[<<a[1], a[2] - 1>>] \notin {0, 200}
  /\ k \in Holders[a[1]]
  /\ key' = [key EXCEPT ![a] = k]

(* resolve_api_key finds an active row for the key, unless it was          *)
(* deactivated or the query fails (found is FALSE at any time).  Then only *)
(* the legacy key is left, and it is an admin.                             *)
RoleFailingOpen(k, found) ==
  IF found /\ k \in DOMAIN DbRole THEN DbRole[k] ELSE "admin"

Role(k, found) ==
  IF found /\ k \in DOMAIN DbRole THEN DbRole[k]
  ELSE IF k = GatewayKey THEN "admin" ELSE "nobody"

RejectKey(a, k, found) ==
  /\ Arrives(a, k)
  /\ Role(k, found) = "nobody"
  /\ Answer(a, 401)
  /\ UNCHANGED <<clock, gateVars, upstreamVars>>

RoleAllowed(a, k, found) == Role(k, found) \in MatchRouteRole(PathOf[a[1]])

RejectRoleAndCount(a, k, found) ==
  /\ Arrives(a, k)
  /\ Role(k, found) # "nobody"
  /\ ~RoleAllowed(a, k, found)
  /\ bucket' = [bucket EXCEPT ![k] = Recent(k) \cup {<<a, clock>>}]
  /\ Answer(a, 403)
  /\ UNCHANGED <<clock, actorRole, admittedAt, upstreamVars>>

RejectRole(a, k, found) ==
  /\ Arrives(a, k)
  /\ Role(k, found) # "nobody"
  /\ ~RoleAllowed(a, k, found)
  /\ Answer(a, 403)
  /\ UNCHANGED <<clock, gateVars, upstreamVars>>

RefuseRate(a, k, found) ==
  /\ Arrives(a, k)
  /\ RoleAllowed(a, k, found)
  /\ ~IsAllowed(k)
  /\ bucket' = [bucket EXCEPT ![k] = Recent(k)]
  /\ Answer(a, 429)
  /\ UNCHANGED <<clock, actorRole, admittedAt, upstreamVars>>

Admit(a, k, found) ==
  /\ Arrives(a, k)
  /\ RoleAllowed(a, k, found)
  /\ IsAllowed(k)
  /\ bucket' = [bucket EXCEPT ![k] = Recent(k) \cup {<<a, clock>>}]
  /\ admittedAt' = [admittedAt EXCEPT ![a] = clock]
  /\ actorRole' = [actorRole EXCEPT ![a] = Role(k, found)]
  /\ phase' = [phase EXCEPT ![a] = "admitted"]
  /\ UNCHANGED <<clock, status, upstreamVars, audited, faults>>

-----------------------------------------------------------------------------
(* _proxy                                                                  *)

(* The client's own headers go first, in lower case, and those that the    *)
(* gateway sets after them.  An upstream that asks for one by name gets    *)
(* the first: the gateway's only if the client sent none.                  *)
ForwardedRole(a) ==
  IF CarriedRole[a[1]] = NoRole THEN actorRole[a] ELSE CarriedRole[a[1]]

(* A connection of the pool is free and the upstream accepts it. *)
Send(a) ==
  /\ phase[a] = "admitted"
  /\ Cardinality({b \in Requests : phase[b] = "sent"}) < MaxConnections
  /\ phase' = [phase EXCEPT ![a] = "sent"]
  /\ upstream' = [upstream EXCEPT ![a] = "received"]
  /\ toldRole' = [toldRole EXCEPT ![a] = ForwardedRole(a)]
  /\ UNCHANGED <<clock, gateVars, key, status, effects, audited, faults>>

(* httpx.ConnectError *)
ConnectFails(a) ==
  /\ phase[a] = "admitted"
  /\ Answer(a, 503)
  /\ UNCHANGED <<clock, gateVars, key, upstreamVars>>

NoTimeout(a) == FALSE

TimeoutIsUnavailable(a) ==
  /\ phase[a] \in {"admitted", "sent"}
  /\ Answer(a, 503)
  /\ UNCHANGED <<clock, gateVars, key, upstreamVars>>

(* httpx.TimeoutException: no connection, or no answer, in 30 seconds. *)
UpstreamTimeout(a) ==
  /\ phase[a] \in {"admitted", "sent"}
  /\ Answer(a, 504)
  /\ UNCHANGED <<clock, gateVars, key, upstreamVars>>

(* The upstream's status code is passed on. *)
Relay(a) ==
  /\ phase[a] = "sent"
  /\ \/ upstream[a] = "done" /\ Answer(a, 200)
     \/ upstream[a] = "conflict" /\ Answer(a, 500)
  /\ UNCHANGED <<clock, gateVars, key, upstreamVars>>

(* The upstream died: another httpx error, which nobody catches.  The      *)
(* exception passes the audit middleware by.                               *)
Uncaught(a) ==
  /\ phase[a] = "sent"
  /\ upstream[a] = "dead"
  /\ phase' = [phase EXCEPT ![a] = "over"]
  /\ status' = [status EXCEPT ![a] = 500]
  /\ UNCHANGED <<clock, gateVars, key, upstreamVars, audited, faults>>

-----------------------------------------------------------------------------
(* The upstream: the lookup by idempotency key, then the insert with the   *)
(* unique settlement_ref.  It runs to its end whether or not anybody still *)
(* waits.                                                                  *)

UpstreamBecomes(a, state) ==
  upstream' = [upstream EXCEPT ![a] = state] /\ UNCHANGED toldRole

UpstreamLookup(a) ==
  /\ upstream[a] = "received"
  /\ UpstreamBecomes(a, IF effects[a[1]] > 0 THEN "done" ELSE "inserting")
  /\ UNCHANGED <<clock, gateVars, key, phase, status, effects, audited, faults>>

UpstreamInsert(a) ==
  /\ upstream[a] = "inserting"
  /\ \/ effects[a[1]] > 0 /\ UpstreamBecomes(a, "conflict") /\ UNCHANGED effects
     \/ /\ effects[a[1]] = 0
        /\ UpstreamBecomes(a, "done")
        /\ effects' = [effects EXCEPT ![a[1]] = 1]
  /\ UNCHANGED <<clock, gateVars, key, phase, status, audited, faults>>

(* The upstream dies with a call in hand. *)
UpstreamCrash(a) ==
  /\ phase[a] = "sent"
  /\ upstream[a] # "dead"
  /\ UpstreamBecomes(a, "dead")
  /\ UNCHANGED <<clock, gateVars, key, phase, status, effects, audited, faults>>

-----------------------------------------------------------------------------
(* The environment.                                                        *)

Tick ==
  /\ clock < MaxTime
  /\ clock' = clock + 1
  /\ UNCHANGED <<gateVars, key, phase, status, upstreamVars, audited, faults>>

(* The gateway restarts: the limiter and the calls are gone, the upstream  *)
(* works on.                                                               *)
Restart ==
  /\ faults.restart < MaxRestarts
  /\ faults' = [faults EXCEPT !.restart = @ + 1]
  /\ bucket' = [k \in Keys |-> {}]
  /\ phase' = [a \in Requests |-> IF phase[a] = "new" THEN "new" ELSE "over"]
  /\ status' = [a \in Requests |-> IF phase[a] \in {"admitted", "sent"} THEN Lost
                                   ELSE status[a]]
  /\ UNCHANGED <<clock, actorRole, admittedAt, key, upstreamVars, audited>>

-----------------------------------------------------------------------------

Init ==
  /\ clock = 1
  /\ bucket = [k \in Keys |-> {}]
  /\ phase = [a \in Requests |-> "new"]
  /\ key = [a \in Requests |-> NoKey]
  /\ actorRole = [a \in Requests |-> "nobody"]
  /\ admittedAt = [a \in Requests |-> 0]
  /\ status = [a \in Requests |-> 0]
  /\ upstream = [a \in Requests |-> "idle"]
  /\ toldRole = [a \in Requests |-> NoRole]
  /\ effects = [o \in Operations |-> 0]
  /\ audited = {}
  /\ faults = [restart |-> 0, kafka |-> 0]

RequireApiKey(a) ==
  \E k \in Keys, found \in BOOLEAN :
    \/ RejectKey(a, k, found)
    \/ RejectRole(a, k, found)
    \/ RefuseRate(a, k, found)
    \/ Admit(a, k, found)

ProxyStep(a) ==
  Send(a) \/ ConnectFails(a) \/ UpstreamTimeout(a) \/ Relay(a) \/ Uncaught(a)

Next ==
  \/ \E a \in Requests :
       \/ RequireApiKey(a)
       \/ ProxyStep(a)
       \/ UpstreamLookup(a) \/ UpstreamInsert(a) \/ UpstreamCrash(a)
  \/ Tick
  \/ Restart

Spec == Init /\ [][Next]_vars

(* The event loop runs; the upstream need not answer. *)
FairSpec == Spec /\ \A a \in Requests : WF_vars(ProxyStep(a))

-----------------------------------------------------------------------------
(* Properties.                                                             *)

(* Every variable keeps its shape, and the limiter never holds more than   *)
(* its maximum per key.                                                    *)
GatewayTypeOK ==
  /\ clock \in 1..(MaxTime + 1)
  /\ bucket \in [Keys -> SUBSET (Requests \X (1..clock))]
  /\ \A k \in Keys : Cardinality(bucket[k]) <= MaxRequests
  /\ phase \in [Requests -> {"new", "admitted", "sent", "over"}]
  /\ key \in [Requests -> Keys \cup {NoKey}]
  /\ actorRole \in [Requests -> UserRole \cup {"nobody"}]
  /\ admittedAt \in [Requests -> 0..clock]
  /\ status \in [Requests -> {0, Lost, 200, 401, 403, 429, 500, 503, 504}]
  /\ upstream \in [Requests -> {"idle", "received", "inserting", "done", "conflict",
                             "dead"}]
  /\ toldRole \in [Requests -> UserRole \cup {NoRole}]
  /\ effects \in [Operations -> 0..1]
  /\ faults \in [restart : 0..MaxRestarts, kafka : 0..MaxKafkaFaults]
  /\ audited \subseteq Requests

(* Requests of k the limiter let pass in the window that ends at t. *)
AdmittedIn(k, t) ==
  {a \in Requests : key[a] = k /\ admittedAt[a] > 0
                      /\ t - Window < admittedAt[a] /\ admittedAt[a] <= t}

(* "1,000 requests per 60-second sliding window per API key": no window,   *)
(* wherever it begins, holds more, except that each restart forgets one    *)
(* window's worth.                                                         *)
RateBounded ==
  \A k \in Keys, t \in 1..clock :
    Cardinality(AdmittedIn(k, t)) <= MaxRequests * (1 + faults.restart)

(* A client is told to slow down only when it really has used its window   *)
(* up: neither refused nor unauthorised requests count against it.         *)
RefusedOnlyAtLimit ==
  [][\A a \in Requests :
       status'[a] = 429 /\ status[a] # 429 =>
         Cardinality(AdmittedIn(key'[a], clock)) >= MaxRequests]_vars

(* The permissions of the five roles.  Approvers approve, signers sign,    *)
(* traders submit, issue, redeem and exchange, auditors read balances and  *)
(* rates; a path without any of the fragments is nobody's in particular.   *)
Permits(path) ==
  [admin    |-> TRUE,
   approver |-> "/approve" \in path,
   signer   |-> "/sign" \in path,
   trader   |-> path \cap {"/approve", "/sign", "/accounts"} = {},
   auditor  |-> path \subseteq {"/tokens/balance", "/fx/rates"}]

Entitled(path) == {role \in UserRole : path = {} \/ Permits(path)[role]}

(* The gateway lets a call pass only for a role that its key has in the    *)
(* table (or for the legacy key) and that may do what its path is for,     *)
(* also when the key table cannot be read and after the key was            *)
(* deactivated.                                                            *)
ForwardedIsEntitled ==
  \A a \in Requests :
    upstream[a] # "idle" =>
      /\ actorRole[a] \in Entitled(PathOf[a[1]])
      /\ \/ key[a] = GatewayKey
         \/ key[a] \in DOMAIN DbRole /\ actorRole[a] = DbRole[key[a]]

(* "The API gateway resolves keys, sets X-Actor-Role ... headers": the     *)
(* role an upstream acts on is the one the gateway found.                  *)
UpstreamSeesGatewayRole ==
  \A a \in Requests : upstream[a] # "idle" => toldRole[a] = actorRole[a]

(* The answers a client can act on.  200: the operation has been carried  *)
(* out, and once, however often it was sent and although calls that timed  *)
(* out still run.  401, 403, 429 and 503: this request has not been and    *)
(* will not be carried out.                                                *)
AnswersAreTrue ==
  \A a \in Requests :
    /\ status[a] = 200 => effects[a[1]] = 1
    /\ status[a] \in {401, 403, 429, 503} => upstream[a] = "idle"

(* "Every request is logged to the audit.trail Kafka topic".               *)
EveryRequestAudited ==
  \A a \in Requests : status[a] \notin {0, Lost} => a \in audited

(* What the code does guarantee: besides the uncaught errors, at most one  *)
(* record is missing for each flush that timed out.                        *)
AuditGapsExplained ==
  Cardinality({a \in Requests : status[a] \notin {0, Lost} /\ upstream[a] # "dead"
                                  /\ a \notin audited}) <= faults.kafka

(* Every admitted request is answered, whatever the upstream does.         *)
EveryRequestAnswered ==
  \A a \in Requests : phase[a] \in {"admitted", "sent"} ~> status[a] # 0

=============================================================================
