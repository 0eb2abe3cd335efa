---------------------------- MODULE GatewayProofs ---------------------------
(***************************************************************************)
(* Proofs about the API gateway, for any keys, operations, window, limit,  *)
(* pool and number of retries, restarts and lost audit records.            *)
(***************************************************************************)
EXTENDS ApiGateway, FiniteSetTheorems, TLAPS

(* The requests that have arrived. *)
Arrived == {a \in Requests : phase[a] # "new"}

(* A request that may be forwarded came with a key that is entitled to it. *)
MayPass(a) ==
  /\ actorRole[a] \in Entitled(PathOf[a[1]])
  /\ \/ key[a] = GatewayKey
     \/ key[a] \in DOMAIN DbRole /\ actorRole[a] = DbRole[key[a]]

(* How far a request is, who let it pass and what has become of it agree.  *)
CallInv(a) ==
  /\ phase[a] \in {"new", "admitted"} => upstream[a] = "idle"
  /\ phase[a] \in {"new", "admitted", "sent"} => status[a] = 0
  /\ phase[a] = "new" => admittedAt[a] = 0
  /\ phase[a] \in {"admitted", "sent"} \/ upstream[a] # "idle" => MayPass(a)
  /\ upstream[a] = "done" \/ status[a] = 200 => effects[a[1]] = 1
  /\ status[a] \in {401, 403, 429, 503} => upstream[a] = "idle"

(* The answered requests without an audit record. *)
Gaps == {a \in Requests : status[a] \notin {0, Lost} /\ upstream[a] # "dead"
                            /\ a \notin audited}

CallsInv ==
  /\ GatewayTypeOK
  /\ IsFiniteSet(Arrived)
  /\ \A k \in Keys : IsFiniteSet(bucket[k])
  /\ \A a \in Requests : CallInv(a)
  /\ AuditGapsExplained

(* The limiter's timestamps are those of the requests it let pass. *)
StampsTrue ==
  \A k \in Keys : \A x \in bucket[k] : key[x[1]] = k /\ admittedAt[x[1]] = x[2]

(* Between two restarts the limiter remembers every request of the last    *)
(* window, so that each run of the gateway (its number is run[a] for the   *)
(* requests it admitted) lets no more pass in any window than its maximum. *)
RunsBounded(run) ==
  /\ \A a \in Requests :
       /\ run[a] <= faults.restart
       /\ run[a] = faults.restart /\ admittedAt[a] > 0 /\ admittedAt[a] > clock - Window
            => key[a] \in Keys /\ <<a, admittedAt[a]>> \in bucket[key[a]]
  /\ \A k \in Keys, t \in 1..clock, n \in 0..faults.restart :
       Cardinality({a \in AdmittedIn(k, t) : run[a] = n}) <= MaxRequests

LimiterInv ==
  /\ StampsTrue
  /\ \E run \in [Requests -> Nat] : RunsBounded(run)

GateInv == CallsInv /\ LimiterInv

-----------------------------------------------------------------------------
(* Requests and roles.                                                     *)

LEMMA RequestTypes ==
  ASSUME NEW a \in Requests
  PROVE  /\ a[1] \in Operations /\ PathOf[a[1]] \in SUBSET Fragments
         /\ \A f, g \in PathOf[a[1]] \ {"/approve", "/sign"} : f = g
<1>1. a[1] \in Operations
  BY DEF Requests
<1> QED
  BY <1>1, GatewayAssumption

LEMMA RoleTypes ==
  ASSUME NEW k \in Keys, NEW found \in BOOLEAN
  PROVE  /\ Role(k, found) \in UserRole \cup {"nobody"}
         /\ Role(k, found) # "nobody" =>
              \/ k = GatewayKey
              \/ k \in DOMAIN DbRole /\ Role(k, found) = DbRole[k]
BY GatewayAssumption DEF Role, UserRole

(* The routes' roles are among those that may do what the path is for. *)
LEMMA RoutesEntitle ==
  ASSUME NEW path \in SUBSET Fragments,
         \A f, g \in path \ {"/approve", "/sign"} : f = g
  PROVE  MatchRouteRole(path) \subseteq Entitled(path) /\ "nobody" \notin Entitled(path)
<1>0. /\ "admin" \in Entitled(path)
      /\ "/approve" \in path => "approver" \in Entitled(path)
      /\ "/sign" \in path => "signer" \in Entitled(path)
      /\ path \cap {"/approve", "/sign", "/accounts"} = {} => "trader" \in Entitled(path)
      /\ path \subseteq {"/tokens/balance", "/fx/rates"} => "auditor" \in Entitled(path)
  <2>1. /\ Permits(path)["admin"] = TRUE
        /\ Permits(path)["approver"] = ("/approve" \in path)
        /\ Permits(path)["signer"] = ("/sign" \in path)
        /\ Permits(path)["trader"] = (path \cap {"/approve", "/sign", "/accounts"} = {})
        /\ Permits(path)["auditor"] = (path \subseteq {"/tokens/balance", "/fx/rates"})
    BY DEF Permits
  <2> QED
    BY <2>1 DEF Entitled, UserRole
<1>1. "nobody" \notin Entitled(path)
  BY DEF Entitled, UserRole
<1>2. CASE "/approve" \in path
  BY <1>0, <1>1, <1>2 DEF MatchRouteRole
<1>3. CASE "/approve" \notin path /\ "/sign" \in path
  <2>1. MatchRouteRole(path) = {"admin", "signer"}
    BY <1>3 DEF MatchRouteRole
  <2> QED
    BY <1>0, <1>1, <1>3, <2>1
<1>4. CASE path = {}
  BY <1>1, <1>4 DEF MatchRouteRole, Entitled, UserRole
<1>5. CASE "/approve" \notin path /\ "/sign" \notin path /\ path # {}
  <2>1. PICK f : path = {f}
    BY <1>5
  <2>2. MatchRouteRole(path) = ROUTE_ROLE_MAP(f) /\ f \in path
    BY <1>5, <2>1 DEF MatchRouteRole
  <2>3. f # "/approve" /\ f # "/sign"
    BY <1>5, <2>1
  <2>4. CASE f \in {"/tokens/balance", "/fx/rates"}
    <3>1. ROUTE_ROLE_MAP(f) = {"admin", "trader", "auditor"}
      BY <2>4 DEF ROUTE_ROLE_MAP
    <3>2. /\ path \cap {"/approve", "/sign", "/accounts"} = {}
          /\ path \subseteq {"/tokens/balance", "/fx/rates"}
      BY <2>1, <2>4
    <3> QED
      BY <1>0, <1>1, <2>2, <3>1, <3>2
  <2>5. CASE f = "/accounts"
    <3>1. ROUTE_ROLE_MAP(f) = {"admin"}
      BY <2>5 DEF ROUTE_ROLE_MAP
    <3> QED
      BY <1>0, <1>1, <2>2, <3>1
  <2>6. CASE f \notin {"/tokens/balance", "/fx/rates", "/accounts"}
    <3>1. ROUTE_ROLE_MAP(f) = {"admin", "trader"}
      BY <2>6 DEF ROUTE_ROLE_MAP
    <3>2. path \cap {"/approve", "/sign", "/accounts"} = {}
      BY <2>1, <2>3, <2>6
    <3> QED
      BY <1>0, <1>1, <2>2, <3>1, <3>2
  <2> QED
    BY <2>4, <2>5, <2>6
<1> QED
  BY <1>1, <1>2, <1>3, <1>4, <1>5

-----------------------------------------------------------------------------
(* The calls.                                                              *)

(* A request whose state stays keeps its invariant. *)
LEMMA CallKept ==
  ASSUME NEW b \in Requests, CallInv(b),
         phase'[b] = phase[b], status'[b] = status[b], upstream'[b] = upstream[b],
         admittedAt'[b] = admittedAt[b], actorRole'[b] = actorRole[b],
         key'[b] = key[b] \/ (phase[b] \notin {"admitted", "sent"} /\ upstream[b] = "idle"),
         effects[b[1]] = 1 => effects'[b[1]] = 1
  PROVE  CallInv(b)'
BY DEF CallInv, MayPass

LEMMA OneMore ==
  ASSUME NEW S, IsFiniteSet(S), NEW x
  PROVE  /\ IsFiniteSet(S \cup {x}) /\ Cardinality(S \cup {x}) \in Nat
         /\ Cardinality(S \cup {x}) <= Cardinality(S) + 1
<1>1. /\ IsFiniteSet(S \cup {x})
      /\ Cardinality(S \cup {x}) = IF x \in S THEN Cardinality(S) ELSE Cardinality(S) + 1
  BY FS_AddElement
<1>2. Cardinality(S) \in Nat
  BY FS_CardinalityType
<1> QED
  BY <1>1, <1>2

LEMMA GapsFinite ==
  ASSUME CallsInv
  PROVE  IsFiniteSet(Gaps) /\ Cardinality(Gaps) \in Nat /\ Cardinality(Gaps) <= faults.kafka
<1>1. Gaps \in SUBSET Arrived
  BY DEF CallsInv, CallInv, Gaps, Arrived
<1>2. IsFiniteSet(Gaps)
  BY <1>1, FS_Subset DEF CallsInv
<1> QED
  BY <1>2, FS_CardinalityType DEF CallsInv, AuditGapsExplained, Gaps

LEMMA OneGapMore ==
  ASSUME CallsInv, NEW a
  PROVE  /\ IsFiniteSet(Gaps \cup {a})
         /\ Cardinality(Gaps \cup {a}) <= Cardinality(Gaps) + 1
         /\ Cardinality(Gaps \cup {a}) \in Nat
<1>1. IsFiniteSet(Gaps)
  BY GapsFinite
<1> QED
  BY <1>1, OneMore

(* Fewer gaps are explained by as many faults. *)
LEMMA GapsKept ==
  ASSUME CallsInv, Gaps' \subseteq Gaps, faults'.kafka = faults.kafka
  PROVE  AuditGapsExplained'
<1>1. faults.kafka \in Nat
  BY GatewayAssumption DEF CallsInv, GatewayTypeOK
<1>2. IsFiniteSet(Gaps') /\ Cardinality(Gaps') <= Cardinality(Gaps)
  BY GapsFinite, FS_Subset
<1>3. Cardinality(Gaps') \in Nat
  BY <1>2, FS_CardinalityType
<1>4. Cardinality(Gaps') <= faults'.kafka
  BY <1>1, <1>2, <1>3, GapsFinite
<1> QED
  BY <1>4 DEF AuditGapsExplained, Gaps

(* The audit middleware answers a request. *)
LEMMA AnswerStep ==
  ASSUME CallsInv, NEW a \in Requests, phase[a] # "over",
         NEW code \in {200, 401, 403, 429, 500, 503, 504}, Answer(a, code),
         code = 200 => effects[a[1]] = 1,
         code \in {401, 403, 429, 503} => upstream[a] = "idle",
         UNCHANGED <<clock, actorRole, admittedAt, upstream, toldRole, effects>>,
         key' \in [Requests -> Keys \cup {NoKey}],
         \A b \in Requests : key'[b] = key[b] \/ phase[b] = "new",
         bucket' \in [Keys -> SUBSET (Requests \X (1..clock))],
         \A k \in Keys : IsFiniteSet(bucket'[k]) /\ Cardinality(bucket'[k]) <= MaxRequests
  PROVE  CallsInv'
<1>0. GatewayTypeOK /\ CallInv(a) /\ IsFiniteSet(Arrived)
  BY DEF CallsInv
<1>1. /\ phase' \in [Requests -> {"new", "admitted", "sent", "over"}]
      /\ status' \in [Requests -> {0, Lost, 200, 401, 403, 429, 500, 503, 504}]
      /\ audited' \subseteq Requests
      /\ phase'[a] = "over" /\ status'[a] = code
      /\ \A b \in Requests \ {a} : phase'[b] = phase[b] /\ status'[b] = status[b]
  BY <1>0 DEF GatewayTypeOK, Answer
<1>2. /\ faults' \in [restart : 0..MaxRestarts, kafka : 0..MaxKafkaFaults]
      /\ \/ audited' = audited \cup {a} /\ faults'.kafka = faults.kafka
         \/ audited' = audited /\ faults'.kafka = faults.kafka + 1
  <2>1. CASE audited' = audited \cup {a} /\ UNCHANGED faults
    BY <1>0, <2>1 DEF GatewayTypeOK
  <2>2. CASE /\ faults.kafka < MaxKafkaFaults
             /\ faults' = [faults EXCEPT !.kafka = @ + 1]
             /\ UNCHANGED audited
    BY <1>0, <2>2, GatewayAssumption DEF GatewayTypeOK
  <2> QED
    BY <2>1, <2>2 DEF Answer
<1>3. GatewayTypeOK'
  BY <1>0, <1>1, <1>2 DEF GatewayTypeOK
<1>4. IsFiniteSet(Arrived')
  <2>1. Arrived' \subseteq Arrived \cup {a}
    BY <1>1 DEF Arrived
  <2>2. IsFiniteSet(Arrived \cup {a})
    BY <1>0, FS_AddElement, SMTT(30)
  <2> QED
    BY <2>1, <2>2, FS_Subset
<1>5. ASSUME NEW b \in Requests PROVE CallInv(b)'
  <2>1. CallInv(b)
    BY DEF CallsInv
  <2>2. CASE b # a
    <3>1. /\ phase'[b] = phase[b] /\ status'[b] = status[b]
          /\ upstream'[b] = upstream[b] /\ admittedAt'[b] = admittedAt[b]
          /\ actorRole'[b] = actorRole[b] /\ effects' = effects
      BY <1>1, <2>2
    <3>2. key'[b] = key[b] \/ (phase[b] \notin {"admitted", "sent"} /\ upstream[b] = "idle")
      BY <2>1 DEF CallInv
    <3> QED
      BY <2>1, <3>1, <3>2, CallKept
  <2>3. CASE b = a
    <3>1. upstream[a] # "idle" => MayPass(a)'
      <4>1. upstream[a] # "idle" => MayPass(a) /\ key'[a] = key[a]
        BY <1>0 DEF CallInv
      <4> QED
        BY <4>1 DEF MayPass
    <3>2. upstream[a] = "done" => effects[a[1]] = 1
      BY <1>0 DEF CallInv
    <3> QED
      BY <1>1, <2>3, <3>1, <3>2 DEF CallInv
  <2> QED
    BY <2>2, <2>3
<1>6. AuditGapsExplained'
  <2>1. Gaps' \subseteq Gaps \cup {a}
    BY <1>1, <1>2 DEF Gaps
  <2>2. CASE audited' = audited \cup {a} /\ faults'.kafka = faults.kafka
    <3>1. Gaps' \subseteq Gaps
      BY <2>1, <2>2 DEF Gaps
    <3> QED
      BY <2>2, <3>1, GapsKept
  <2>3. CASE audited' = audited /\ faults'.kafka = faults.kafka + 1
    <3>1. /\ IsFiniteSet(Gaps \cup {a})
          /\ Cardinality(Gaps \cup {a}) <= Cardinality(Gaps) + 1
          /\ Cardinality(Gaps \cup {a}) \in Nat
      BY OneGapMore
    <3>2. /\ Cardinality(Gaps') <= Cardinality(Gaps \cup {a})
          /\ Cardinality(Gaps') \in Nat
      BY <2>1, <3>1, FS_Subset, FS_CardinalityType
    <3>3. faults.kafka \in Nat
      BY <1>0, GatewayAssumption DEF GatewayTypeOK
    <3>4. Cardinality(Gaps') <= faults'.kafka
      BY <2>3, <3>1, <3>2, <3>3, GapsFinite
    <3> QED
      BY <3>4 DEF AuditGapsExplained, Gaps
  <2> QED
    BY <1>2, <2>2, <2>3
<1> QED
  BY <1>3, <1>4, <1>5, <1>6 DEF CallsInv

(* What the limiter keeps of a key's timestamps. *)
LEMMA RecentFacts ==
  ASSUME CallsInv, NEW k \in Keys
  PROVE  /\ Recent(k) \subseteq bucket[k] /\ Recent(k) \subseteq Requests \X (1..clock)
         /\ IsFiniteSet(Recent(k)) /\ Cardinality(Recent(k)) \in Nat
         /\ Cardinality(Recent(k)) <= MaxRequests
<1>1. /\ bucket[k] \subseteq Requests \X (1..clock) /\ IsFiniteSet(bucket[k])
      /\ Cardinality(bucket[k]) <= MaxRequests /\ MaxRequests \in Nat
  BY GatewayAssumption DEF CallsInv, GatewayTypeOK
<1>2. Recent(k) \subseteq bucket[k]
  BY DEF Recent
<1>3. /\ IsFiniteSet(Recent(k)) /\ Cardinality(Recent(k)) \in Nat
      /\ Cardinality(Recent(k)) <= Cardinality(bucket[k]) /\ Cardinality(bucket[k]) \in Nat
  BY <1>1, <1>2, FS_Subset, FS_CardinalityType
<1> QED
  BY <1>1, <1>2, <1>3

(* The buckets after a bucket has been replaced. *)
LEMMA BucketTypes ==
  ASSUME CallsInv, NEW k \in Keys, NEW B, B \subseteq Requests \X (1..clock),
         IsFiniteSet(B), Cardinality(B) <= MaxRequests,
         bucket' = [bucket EXCEPT ![k] = B]
  PROVE  /\ bucket' \in [Keys -> SUBSET (Requests \X (1..clock))]
         /\ \A j \in Keys : IsFiniteSet(bucket'[j]) /\ Cardinality(bucket'[j]) <= MaxRequests
<1>1. bucket' \in [Keys -> SUBSET (Requests \X (1..clock))]
  BY DEF CallsInv, GatewayTypeOK
<1>2. \A j \in Keys : bucket'[j] = IF j = k THEN B ELSE bucket[j]
  BY DEF CallsInv, GatewayTypeOK
<1> QED
  BY <1>1, <1>2 DEF CallsInv, GatewayTypeOK

LEMMA PurgedBucket ==
  ASSUME CallsInv, NEW k \in Keys, bucket' = [bucket EXCEPT ![k] = Recent(k)]
  PROVE  /\ bucket' \in [Keys -> SUBSET (Requests \X (1..clock))]
         /\ \A j \in Keys : IsFiniteSet(bucket'[j]) /\ Cardinality(bucket'[j]) <= MaxRequests
<1> DEFINE B == Recent(k)
<1>1. /\ B \subseteq Requests \X (1..clock) /\ IsFiniteSet(B)
      /\ Cardinality(B) <= MaxRequests
  BY RecentFacts
<1>2. bucket' = [bucket EXCEPT ![k] = B]
  OBVIOUS
<1> HIDE DEF B
<1> QED
  BY <1>1, <1>2, BucketTypes

LEMMA ArrivalFacts ==
  ASSUME CallsInv, NEW a \in Requests, NEW k \in Keys, Arrives(a, k)
  PROVE  /\ phase[a] = "new" /\ upstream[a] = "idle" /\ status[a] = 0
         /\ key' \in [Requests -> Keys \cup {NoKey}]
         /\ key'[a] = k /\ \A b \in Requests \ {a} : key'[b] = key[b]
BY DEF CallsInv, CallInv, GatewayTypeOK, Arrives

LEMMA RejectPreserves ==
  ASSUME CallsInv, NEW a \in Requests, NEW k \in Keys, NEW found \in BOOLEAN,
         RejectKey(a, k, found) \/ RejectRole(a, k, found) \/ RefuseRate(a, k, found)
  PROVE  CallsInv'
<1>1. Arrives(a, k) /\ UNCHANGED <<clock, actorRole, admittedAt, upstream, toldRole, effects>>
  BY DEF RejectKey, RejectRole, RefuseRate, gateVars, upstreamVars
<1>2. /\ phase[a] = "new" /\ upstream[a] = "idle" /\ status[a] = 0
      /\ key' \in [Requests -> Keys \cup {NoKey}]
      /\ \A b \in Requests : key'[b] = key[b] \/ phase[b] = "new"
  BY <1>1, ArrivalFacts
<1>3. PICK code \in {401, 403, 429} : Answer(a, code)
  BY DEF RejectKey, RejectRole, RefuseRate
<1>4. /\ bucket' \in [Keys -> SUBSET (Requests \X (1..clock))]
      /\ \A j \in Keys : IsFiniteSet(bucket'[j]) /\ Cardinality(bucket'[j]) <= MaxRequests
  <2>1. CASE bucket' = bucket
    BY <2>1 DEF CallsInv, GatewayTypeOK
  <2>2. CASE bucket' = [bucket EXCEPT ![k] = Recent(k)]
    BY <2>2, PurgedBucket
  <2> QED
    BY <2>1, <2>2 DEF RejectKey, RejectRole, RefuseRate, gateVars
<1> QED
  BY <1>1, <1>2, <1>3, <1>4, AnswerStep

LEMMA AdmitPreserves ==
  ASSUME CallsInv, NEW a \in Requests, NEW k \in Keys, NEW found \in BOOLEAN,
         Admit(a, k, found)
  PROVE  CallsInv'
<1>0. GatewayTypeOK
  BY DEF CallsInv
<1>1. /\ phase[a] = "new" /\ upstream[a] = "idle" /\ status[a] = 0
      /\ key' \in [Requests -> Keys \cup {NoKey}]
      /\ key'[a] = k /\ \A b \in Requests \ {a} : key'[b] = key[b]
  BY ArrivalFacts DEF Admit
<1>2. /\ UNCHANGED <<clock, status, upstream, toldRole, effects, audited, faults>>
      /\ bucket' = [bucket EXCEPT ![k] = Recent(k) \cup {<<a, clock>>}]
      /\ admittedAt' = [admittedAt EXCEPT ![a] = clock]
      /\ actorRole' = [actorRole EXCEPT ![a] = Role(k, found)]
      /\ phase' = [phase EXCEPT ![a] = "admitted"]
  BY DEF Admit, upstreamVars
<1>3. /\ bucket' \in [Keys -> SUBSET (Requests \X (1..clock))]
      /\ \A j \in Keys : IsFiniteSet(bucket'[j]) /\ Cardinality(bucket'[j]) <= MaxRequests
  <2> DEFINE B == Recent(k) \cup {<<a, clock>>}
  <2>1. clock \in 1..clock
    BY <1>0, GatewayAssumption DEF GatewayTypeOK
  <2>2. B \subseteq Requests \X (1..clock)
    BY <2>1, RecentFacts
  <2>3. IsFiniteSet(B) /\ Cardinality(B) <= Cardinality(Recent(k)) + 1
    BY RecentFacts, OneMore
  <2>5. Cardinality(B) <= MaxRequests
    <3>1. /\ Cardinality(Recent(k)) < MaxRequests /\ MaxRequests \in Nat
          /\ Cardinality(Recent(k)) \in Nat
      BY RecentFacts, GatewayAssumption DEF Admit, IsAllowed
    <3>2. Cardinality(B) \in Nat
      BY <2>3, FS_CardinalityType
    <3> QED
      BY <2>3, <3>1, <3>2
  <2> HIDE DEF B
  <2>6. bucket' = [bucket EXCEPT ![k] = B]
    BY <1>2 DEF B
  <2> QED
    BY <2>2, <2>3, <2>5, <2>6, BucketTypes
<1>4. /\ Role(k, found) \in Entitled(PathOf[a[1]]) /\ Role(k, found) \in UserRole \cup {"nobody"}
      /\ \/ k = GatewayKey
         \/ k \in DOMAIN DbRole /\ Role(k, found) = DbRole[k]
  BY RequestTypes, RoutesEntitle, RoleTypes DEF Admit, RoleAllowed
<1>5. GatewayTypeOK'
  <2>1. clock \in 0..clock
    BY <1>0, GatewayAssumption DEF GatewayTypeOK
  <2>2. /\ admittedAt' \in [Requests -> 0..clock]
        /\ actorRole' \in [Requests -> UserRole \cup {"nobody"}]
        /\ phase' \in [Requests -> {"new", "admitted", "sent", "over"}]
    BY <1>0, <1>2, <1>4, <2>1 DEF GatewayTypeOK
  <2>3. UNCHANGED <<clock, status, upstream, toldRole, effects, audited, faults>>
    BY <1>2
  <2> QED
    BY <1>0, <1>1, <1>3, <2>2, <2>3 DEF GatewayTypeOK
<1>6. IsFiniteSet(Arrived')
  <2>1. Arrived' \subseteq Arrived \cup {a}
    BY <1>0, <1>2 DEF Arrived, GatewayTypeOK
  <2>2. IsFiniteSet(Arrived \cup {a})
    BY FS_AddElement DEF CallsInv
  <2> QED
    BY <2>1, <2>2, FS_Subset
<1>7. ASSUME NEW b \in Requests PROVE CallInv(b)'
  <2>1. CallInv(b)
    BY DEF CallsInv
  <2>2. CASE b # a
    <3>1. /\ phase'[b] = phase[b] /\ status'[b] = status[b]
          /\ upstream'[b] = upstream[b] /\ admittedAt'[b] = admittedAt[b]
          /\ actorRole'[b] = actorRole[b] /\ effects' = effects /\ key'[b] = key[b]
      BY <1>0, <1>1, <1>2, <2>2 DEF GatewayTypeOK
    <3> QED
      BY <2>1, <3>1, CallKept
  <2>3. CASE b = a
    <3>1. actorRole'[a] = Role(k, found) /\ phase'[a] = "admitted"
      BY <1>0, <1>2 DEF GatewayTypeOK
    <3>2. MayPass(a)'
      BY <1>1, <1>4, <3>1 DEF MayPass
    <3> QED
      BY <1>1, <1>2, <2>3, <3>1, <3>2 DEF CallInv
  <2> QED
    BY <2>2, <2>3
<1>8. Gaps' \subseteq Gaps /\ faults'.kafka = faults.kafka
  BY <1>2 DEF Gaps
<1> QED
  BY <1>3, <1>5, <1>6, <1>7, <1>8, GapsKept DEF CallsInv

LEMMA AnsweredCallPreserves ==
  ASSUME CallsInv, NEW a \in Requests, ConnectFails(a) \/ UpstreamTimeout(a) \/ Relay(a)
  PROVE  CallsInv'
<1>0. CallInv(a)
  BY DEF CallsInv
<1>1. /\ phase[a] # "over"
      /\ UNCHANGED <<clock, bucket, key, actorRole, admittedAt, upstream, toldRole, effects>>
  BY DEF ConnectFails, UpstreamTimeout, Relay, gateVars, upstreamVars
<1>2. PICK code \in {200, 500, 503, 504} :
        /\ Answer(a, code)
        /\ code = 200 => effects[a[1]] = 1
        /\ code = 503 => upstream[a] = "idle"
  BY <1>0 DEF ConnectFails, UpstreamTimeout, Relay, CallInv
<1>3. /\ key' \in [Requests -> Keys \cup {NoKey}]
      /\ bucket' \in [Keys -> SUBSET (Requests \X (1..clock))]
      /\ \A k \in Keys : IsFiniteSet(bucket'[k]) /\ Cardinality(bucket'[k]) <= MaxRequests
      /\ \A b \in Requests : key'[b] = key[b] \/ phase[b] = "new"
  BY <1>1 DEF CallsInv, GatewayTypeOK
<1> QED
  BY <1>1, <1>2, <1>3, AnswerStep

(* A step of one call that answers nobody. *)
LEMMA CallStep ==
  ASSUME CallsInv, NEW a \in Requests,
         UNCHANGED <<clock, bucket, key, actorRole, admittedAt, audited, faults>>,
         phase' \in [Requests -> {"new", "admitted", "sent", "over"}],
         status' \in [Requests -> {0, Lost, 200, 401, 403, 429, 500, 503, 504}],
         upstream' \in [Requests -> {"idle", "received", "inserting", "done", "conflict",
                                     "dead"}],
         toldRole' \in [Requests -> UserRole \cup {NoRole}],
         effects' \in [Operations -> 0..1],
         phase[a] = "new" => phase'[a] = "new",
         \A b \in Requests \ {a} : /\ phase'[b] = phase[b] /\ status'[b] = status[b]
                                    /\ upstream'[b] = upstream[b],
         \A o \in Operations : effects[o] = 1 => effects'[o] = 1,
         CallInv(a)', a \in Gaps' => a \in Gaps
  PROVE  CallsInv'
<1>1. GatewayTypeOK'
  BY DEF CallsInv, GatewayTypeOK
<1>2. Arrived' \subseteq Arrived
  BY DEF Arrived
<1>3. IsFiniteSet(Arrived')
  BY <1>2, FS_Subset DEF CallsInv
<1>4. ASSUME NEW b \in Requests \ {a} PROVE CallInv(b)'
  <2>1. CallInv(b) /\ b[1] \in Operations
    BY RequestTypes DEF CallsInv
  <2>2. /\ phase'[b] = phase[b] /\ status'[b] = status[b] /\ upstream'[b] = upstream[b]
        /\ admittedAt'[b] = admittedAt[b] /\ actorRole'[b] = actorRole[b]
        /\ key'[b] = key[b] /\ (effects[b[1]] = 1 => effects'[b[1]] = 1)
    BY <2>1
  <2> QED
    BY <2>1, <2>2, CallKept
<1>5. Gaps' \subseteq Gaps /\ faults'.kafka = faults.kafka
  <2>1. \A b \in Requests \ {a} : b \in Gaps' => b \in Gaps
    BY DEF Gaps
  <2>2. Gaps' \subseteq Requests
    BY DEF Gaps
  <2> QED
    BY <2>1, <2>2
<1>6. AuditGapsExplained'
  BY <1>5, GapsKept
<1>7. \A k \in Keys : IsFiniteSet(bucket'[k])
  BY DEF CallsInv
<1> QED
  BY <1>1, <1>3, <1>4, <1>6, <1>7 DEF CallsInv

LEMMA SendPreserves ==
  ASSUME CallsInv, NEW a \in Requests, Send(a)
  PROVE  CallsInv'
<1>0. CallInv(a) /\ GatewayTypeOK
  BY DEF CallsInv
<1>1. /\ UNCHANGED <<clock, bucket, key, actorRole, admittedAt, audited, faults>>
      /\ status' = status /\ effects' = effects
      /\ phase[a] = "admitted" /\ phase' = [phase EXCEPT ![a] = "sent"]
      /\ upstream' = [upstream EXCEPT ![a] = "received"]
  BY DEF Send, gateVars
<1>2. phase'[a] = "sent" /\ upstream'[a] = "received"
  BY <1>0, <1>1 DEF GatewayTypeOK
<1>3. CallInv(a)'
  BY <1>0, <1>1, <1>2 DEF CallInv, MayPass
<1>4. a \notin Gaps'
  BY <1>0, <1>1 DEF Gaps, CallInv
<1>5. toldRole' \in [Requests -> UserRole \cup {NoRole}]
  <2>1. ForwardedRole(a) \in UserRole \cup {NoRole}
    <3>1. actorRole[a] \in UserRole
      BY <1>0, <1>1 DEF CallInv, MayPass, Entitled
    <3>2. CarriedRole[a[1]] \in UserRole \cup {NoRole}
      BY RequestTypes, GatewayAssumption
    <3> QED
      BY <3>1, <3>2 DEF ForwardedRole
  <2>2. toldRole' = [toldRole EXCEPT ![a] = ForwardedRole(a)]
    BY DEF Send
  <2> QED
    BY <1>0, <2>1, <2>2 DEF GatewayTypeOK
<1> QED
  BY <1>0, <1>1, <1>3, <1>4, <1>5, CallStep DEF GatewayTypeOK

LEMMA UncaughtPreserves ==
  ASSUME CallsInv, NEW a \in Requests, Uncaught(a)
  PROVE  CallsInv'
<1>0. CallInv(a) /\ GatewayTypeOK
  BY DEF CallsInv
<1>1. /\ UNCHANGED <<clock, bucket, key, actorRole, admittedAt, audited, faults>>
      /\ upstream' = upstream /\ toldRole' = toldRole /\ effects' = effects
      /\ phase[a] = "sent" /\ phase' = [phase EXCEPT ![a] = "over"]
      /\ upstream[a] = "dead" /\ status' = [status EXCEPT ![a] = 500]
  BY DEF Uncaught, gateVars, upstreamVars
<1>2. phase'[a] = "over" /\ status'[a] = 500
  BY <1>0, <1>1 DEF GatewayTypeOK
<1>3. CallInv(a)'
  BY <1>0, <1>1, <1>2 DEF CallInv, MayPass
<1>4. a \notin Gaps'
  BY <1>1 DEF Gaps
<1> QED
  BY <1>0, <1>1, <1>3, <1>4, CallStep DEF GatewayTypeOK

LEMMA UpstreamPreserves ==
  ASSUME CallsInv, NEW a \in Requests,
         UpstreamLookup(a) \/ UpstreamInsert(a) \/ UpstreamCrash(a)
  PROVE  CallsInv'
<1>0. CallInv(a) /\ GatewayTypeOK /\ a[1] \in Operations
  BY RequestTypes DEF CallsInv
<1>1. /\ UNCHANGED <<clock, bucket, key, actorRole, admittedAt, audited, faults>>
      /\ phase' = phase /\ status' = status
  BY DEF UpstreamLookup, UpstreamInsert, UpstreamCrash, gateVars
<1>2. PICK new \in {"inserting", "done", "conflict", "dead"} :
        /\ upstream' = [upstream EXCEPT ![a] = new]
        /\ new = "done" => effects'[a[1]] = 1
        /\ upstream[a] # "idle" \/ (phase[a] = "sent" /\ new = "dead")
        /\ new = "dead" \/ upstream[a] # "dead"
  <2>1. CASE UpstreamLookup(a)
    <3>1. effects' = effects /\ effects[a[1]] \in 0..1 /\ upstream[a] = "received"
      BY <1>0, <2>1 DEF UpstreamLookup, GatewayTypeOK
    <3>2. CASE effects[a[1]] = 1
      <4>1. upstream' = [upstream EXCEPT ![a] = "done"]
        BY <2>1, <3>2 DEF UpstreamLookup, UpstreamBecomes
      <4> QED
        BY <3>1, <3>2, <4>1
    <3>3. CASE effects[a[1]] = 0
      <4>1. upstream' = [upstream EXCEPT ![a] = "inserting"]
        BY <2>1, <3>3 DEF UpstreamLookup, UpstreamBecomes
      <4> QED
        BY <3>1, <4>1
    <3> QED
      BY <3>1, <3>2, <3>3
  <2>2. CASE UpstreamInsert(a)
    BY <1>0, <2>2 DEF UpstreamInsert, UpstreamBecomes, GatewayTypeOK
  <2>3. CASE UpstreamCrash(a)
    BY <2>3 DEF UpstreamCrash, UpstreamBecomes
  <2> QED
    BY <2>1, <2>2, <2>3
<1>3. upstream'[a] = new /\ \A b \in Requests \ {a} : upstream'[b] = upstream[b]
  BY <1>0, <1>2 DEF GatewayTypeOK
<1>4. /\ effects' \in [Operations -> 0..1]
      /\ \A o \in Operations : effects[o] = 1 => effects'[o] = 1
  BY <1>0 DEF UpstreamLookup, UpstreamInsert, UpstreamCrash, GatewayTypeOK
<1>5. CallInv(a)'
  <2>1. MayPass(a)'
    BY <1>0, <1>1, <1>2 DEF CallInv, MayPass
  <2>2. phase[a] \notin {"new", "admitted"} /\ status[a] \notin {401, 403, 429, 503}
    BY <1>0, <1>2 DEF CallInv
  <2>3. status[a] = 200 => effects'[a[1]] = 1
    BY <1>0, <1>4 DEF CallInv
  <2> QED
    BY <1>0, <1>1, <1>2, <1>3, <2>1, <2>2, <2>3 DEF CallInv
<1>6. a \in Gaps' => a \in Gaps
  BY <1>1, <1>2, <1>3 DEF Gaps
<1>7. upstream' \in [Requests -> {"idle", "received", "inserting", "done", "conflict",
                                  "dead"}]
  BY <1>0, <1>2 DEF GatewayTypeOK
<1>8. toldRole' = toldRole
  BY DEF UpstreamLookup, UpstreamInsert, UpstreamCrash, UpstreamBecomes
<1> QED
  BY <1>0, <1>1, <1>3, <1>4, <1>5, <1>6, <1>7, <1>8, CallStep DEF GatewayTypeOK

LEMMA ClockPreserves ==
  ASSUME CallsInv, Tick \/ UNCHANGED vars
  PROVE  CallsInv'
<1>0. GatewayTypeOK
  BY DEF CallsInv
<1>1. /\ UNCHANGED <<bucket, key, phase, actorRole, admittedAt, status, upstream, toldRole,
                     effects, audited, faults>>
      /\ clock' = clock \/ (clock < MaxTime /\ clock' = clock + 1)
  BY DEF Tick, vars, gateVars, upstreamVars
<1>2. clock' \in 1..(MaxTime + 1) /\ 1..clock \subseteq 1..clock' /\ 0..clock \subseteq 0..clock'
  BY <1>0, <1>1, GatewayAssumption DEF GatewayTypeOK
<1>3. GatewayTypeOK'
  <2>1. bucket' \in [Keys -> SUBSET (Requests \X (1..clock'))]
    BY <1>0, <1>1, <1>2 DEF GatewayTypeOK
  <2>2. admittedAt' \in [Requests -> 0..clock']
    BY <1>0, <1>1, <1>2 DEF GatewayTypeOK
  <2> QED
    BY <1>0, <1>1, <1>2, <2>1, <2>2 DEF GatewayTypeOK
<1>4. Arrived' = Arrived /\ Gaps' = Gaps
  BY <1>1 DEF Arrived, Gaps
<1>5. \A a \in Requests : CallInv(a)'
  BY <1>1 DEF CallsInv, CallInv, MayPass
<1>6. AuditGapsExplained'
  BY <1>1, <1>4, GapsKept
<1> QED
  BY <1>1, <1>3, <1>4, <1>5, <1>6 DEF CallsInv

LEMMA RestartPreserves ==
  ASSUME CallsInv, Restart
  PROVE  CallsInv'
<1>0. GatewayTypeOK
  BY DEF CallsInv
<1>1. /\ UNCHANGED <<clock, actorRole, admittedAt, key, upstream, toldRole, effects, audited>>
      /\ bucket' = [k \in Keys |-> {}]
      /\ faults.restart < MaxRestarts /\ faults' = [faults EXCEPT !.restart = @ + 1]
  BY DEF Restart, upstreamVars
<1>2. ASSUME NEW a \in Requests
      PROVE  /\ phase'[a] = IF phase[a] = "new" THEN "new" ELSE "over"
             /\ status'[a] = IF phase[a] \in {"admitted", "sent"} THEN Lost ELSE status[a]
  BY DEF Restart
<1>3. GatewayTypeOK'
  <2>1. /\ phase' \in [Requests -> {"new", "admitted", "sent", "over"}]
        /\ status' \in [Requests -> {0, Lost, 200, 401, 403, 429, 500, 503, 504}]
    BY <1>0 DEF Restart, GatewayTypeOK
  <2>2. /\ bucket' \in [Keys -> SUBSET (Requests \X (1..clock'))]
        /\ \A k \in Keys : Cardinality(bucket'[k]) <= MaxRequests
    BY <1>1, FS_EmptySet, GatewayAssumption
  <2>3. faults' \in [restart : 0..MaxRestarts, kafka : 0..MaxKafkaFaults]
    BY <1>0, <1>1, GatewayAssumption DEF GatewayTypeOK
  <2>4. UNCHANGED <<clock, actorRole, admittedAt, key, upstream, toldRole, effects, audited>>
    BY <1>1
  <2> QED
    BY <1>0, <2>1, <2>2, <2>3, <2>4 DEF GatewayTypeOK
<1>4. Arrived' = Arrived
  BY <1>2 DEF Arrived
<1>5. ASSUME NEW a \in Requests PROVE CallInv(a)'
  <2>1. CallInv(a)
    BY DEF CallsInv
  <2>2. MayPass(a) => MayPass(a)'
    BY <1>1 DEF MayPass
  <2> QED
    BY <1>1, <1>2, <2>1, <2>2 DEF CallInv, Lost
<1>6. Gaps' \subseteq Gaps
  BY <1>1, <1>2 DEF Gaps
<1>7. faults'.kafka = faults.kafka
  BY <1>0, <1>1 DEF GatewayTypeOK
<1>8. \A k \in Keys : IsFiniteSet(bucket'[k])
  BY <1>1, FS_EmptySet
<1>9. AuditGapsExplained'
  BY <1>6, <1>7, GapsKept
<1> QED
  BY <1>3, <1>4, <1>5, <1>8, <1>9 DEF CallsInv

LEMMA InitCalls == Init => CallsInv
<1> SUFFICES ASSUME Init PROVE CallsInv
  OBVIOUS
<1>1. GatewayTypeOK
  BY GatewayAssumption, FS_EmptySet DEF Init, GatewayTypeOK, UserRole
<1>2. Arrived = {} /\ Gaps = {}
  BY DEF Init, Arrived, Gaps
<1>3. AuditGapsExplained
  <2>1. Cardinality(Gaps) = 0 /\ faults.kafka = 0
    BY <1>2, FS_EmptySet DEF Init
  <2> QED
    BY <2>1 DEF AuditGapsExplained, Gaps
<1>4. \A a \in Requests : CallInv(a)
  BY DEF Init, CallInv
<1>5. \A k \in Keys : IsFiniteSet(bucket[k])
  BY FS_EmptySet DEF Init
<1> QED
  BY <1>1, <1>2, <1>3, <1>4, <1>5, FS_EmptySet DEF CallsInv

LEMMA NextPreservesCalls == CallsInv /\ [Next]_vars => CallsInv'
BY RejectPreserves, AdmitPreserves, AnsweredCallPreserves, SendPreserves,
   UncaughtPreserves, UpstreamPreserves, ClockPreserves, RestartPreserves
DEF Next, RequireApiKey, ProxyStep

(* The gateway keeps CallsInv: how far each request is, who let it pass,   *)
(* what the upstream did with it and what the client was told agree.       *)
THEOREM GatewayCalls == Spec => []CallsInv
BY InitCalls, NextPreservesCalls, PTL DEF Spec

(* Every variable keeps its shape, and the limiter holds at most its       *)
(* maximum of timestamps per key.                                          *)
THEOREM GatewayTypeCorrectness == Spec => []GatewayTypeOK
<1>1. CallsInv => GatewayTypeOK
  BY DEF CallsInv
<1> QED
  BY <1>1, GatewayCalls, PTL

(* ForwardedIsEntitled: require_api_key and match_route_role let a call    *)
(* pass only for a role that its key has and that may do what the path is  *)
(* for, whatever the key table does.                                       *)
THEOREM GatewayForwardsEntitled == Spec => []ForwardedIsEntitled
<1>1. CallsInv => ForwardedIsEntitled
  BY DEF CallsInv, CallInv, MayPass, ForwardedIsEntitled
<1> QED
  BY <1>1, GatewayCalls, PTL

(* AnswersAreTrue: 200 means the operation has been carried out once, and  *)
(* 401, 403, 429 and 503 that this request never will be, through retries, *)
(* time-outs and calls that run on after them.                             *)
THEOREM GatewayAnswersTruly == Spec => []AnswersAreTrue
<1>1. CallsInv => AnswersAreTrue
  BY DEF CallsInv, CallInv, AnswersAreTrue
<1> QED
  BY <1>1, GatewayCalls, PTL

(* AuditGapsExplained: besides uncaught errors, at most one audit record   *)
(* is missing for each flush that timed out.                               *)
THEOREM GatewayAuditGaps == Spec => []AuditGapsExplained
<1>1. CallsInv => AuditGapsExplained
  BY DEF CallsInv
<1> QED
  BY <1>1, GatewayCalls, PTL

-----------------------------------------------------------------------------
(* The limiter.                                                            *)

(* The requests the limiter let pass have arrived, and are finitely many.  *)
LEMMA AdmittedFinite ==
  ASSUME CallsInv, NEW k, NEW t
  PROVE  IsFiniteSet(AdmittedIn(k, t))
<1>1. AdmittedIn(k, t) \subseteq Arrived
  BY DEF AdmittedIn, Arrived, CallsInv, CallInv
<1> QED
  BY <1>1, FS_Subset DEF CallsInv

LEMMA ClockTypes ==
  ASSUME CallsInv
  PROVE  /\ clock \in Nat /\ clock >= 1 /\ Window \in Nat /\ Window >= 1
         /\ MaxRequests \in Nat /\ faults.restart \in Nat
         /\ \A a \in Requests : admittedAt[a] \in Nat /\ admittedAt[a] <= clock
         /\ \A k \in Keys : \A x \in bucket[k] :
              x[1] \in Requests /\ x[2] \in 1..clock /\ x = <<x[1], x[2]>>
<1>1. /\ GatewayTypeOK /\ MaxTime \in Nat /\ MaxRestarts \in Nat
  BY GatewayAssumption DEF CallsInv
<1>2. /\ clock \in Nat /\ clock >= 1 /\ Window \in Nat /\ Window >= 1
      /\ MaxRequests \in Nat /\ faults.restart \in Nat
  BY <1>1, GatewayAssumption DEF GatewayTypeOK
<1>3. \A a \in Requests : admittedAt[a] \in 0..clock
  BY <1>1 DEF GatewayTypeOK
<1>4. \A k \in Keys : bucket[k] \subseteq Requests \X (1..clock)
  BY <1>1 DEF GatewayTypeOK
<1> QED
  BY <1>2, <1>3, <1>4

(* A step that admits nobody, and drops at most what has left the window,  *)
(* keeps the limiter's invariant.                                          *)
LEMMA NobodyAdmitted ==
  ASSUME CallsInv, LimiterInv, UNCHANGED <<clock, admittedAt>>,
         faults'.restart = faults.restart,
         \A b \in Requests : admittedAt[b] > 0 => key'[b] = key[b],
         \A k \in Keys : bucket'[k] = bucket[k] \/ bucket'[k] = Recent(k)
  PROVE  LimiterInv'
<1>1. StampsTrue'
  <2> SUFFICES ASSUME NEW k \in Keys, NEW x \in bucket'[k]
               PROVE  key'[x[1]] = k /\ admittedAt'[x[1]] = x[2]
    BY DEF StampsTrue
  <2>1. x \in bucket[k]
    BY DEF Recent
  <2>2. key[x[1]] = k /\ admittedAt[x[1]] = x[2] /\ x[1] \in Requests /\ x[2] \in 1..clock
    BY <2>1, ClockTypes DEF LimiterInv, StampsTrue
  <2>3. x[2] > 0
    BY <2>2, ClockTypes
  <2> QED
    BY <2>2, <2>3
<1>2. PICK run \in [Requests -> Nat] : RunsBounded(run)
  BY DEF LimiterInv
<1>3. \A k, t : AdmittedIn(k, t)' = AdmittedIn(k, t)
  BY DEF AdmittedIn
<1>4. ASSUME NEW a \in Requests, run[a] = faults.restart, admittedAt[a] > 0,
             admittedAt[a] > clock - Window
      PROVE  key'[a] \in Keys /\ <<a, admittedAt[a]>> \in bucket'[key'[a]]
  <2> DEFINE k == key[a]
  <2>1. k \in Keys /\ <<a, admittedAt[a]>> \in bucket[k] /\ key'[a] = k
    BY <1>2, <1>4 DEF RunsBounded
  <2>2. <<a, admittedAt[a]>> \in Recent(k)
    BY <1>4, <2>1 DEF Recent
  <2> HIDE DEF k
  <2> QED
    BY <2>1, <2>2
<1>5. RunsBounded(run)'
  <2>1. \A a \in Requests :
          /\ run[a] <= faults'.restart
          /\ run[a] = faults'.restart /\ admittedAt'[a] > 0
               /\ admittedAt'[a] > clock' - Window
               => key'[a] \in Keys /\ <<a, admittedAt'[a]>> \in bucket'[key'[a]]
    BY <1>2, <1>4 DEF RunsBounded
  <2>2. \A k \in Keys, t \in 1..clock', n \in 0..faults'.restart :
          Cardinality({a \in AdmittedIn(k, t)' : run[a] = n}) <= MaxRequests
    BY <1>2, <1>3 DEF RunsBounded
  <2> QED
    BY <2>1, <2>2 DEF RunsBounded
<1> QED
  BY <1>1, <1>2, <1>5 DEF LimiterInv

LEMMA TickLimiter ==
  ASSUME CallsInv, LimiterInv, Tick
  PROVE  LimiterInv'
<1>1. /\ UNCHANGED <<bucket, key, admittedAt, faults>> /\ clock' = clock + 1
  BY DEF Tick, gateVars
<1>2. StampsTrue'
  BY <1>1 DEF LimiterInv, StampsTrue
<1>3. PICK run \in [Requests -> Nat] : RunsBounded(run)
  BY DEF LimiterInv
<1>4. \A k, t : AdmittedIn(k, t)' = AdmittedIn(k, t)
  BY <1>1 DEF AdmittedIn
<1>5. ASSUME NEW k \in Keys, NEW n \in 0..faults.restart
      PROVE  Cardinality({a \in AdmittedIn(k, clock + 1) : run[a] = n}) <= MaxRequests
  <2> DEFINE S == {a \in AdmittedIn(k, clock) : run[a] = n}
             T == {a \in AdmittedIn(k, clock + 1) : run[a] = n}
  <2>1. T \subseteq S
    BY ClockTypes DEF AdmittedIn
  <2>2. IsFiniteSet(S)
    <3>1. IsFiniteSet(AdmittedIn(k, clock)) /\ S \subseteq AdmittedIn(k, clock)
      BY AdmittedFinite
    <3> QED
      BY <3>1, FS_Subset
  <2>3. Cardinality(S) <= MaxRequests
    BY <1>3, ClockTypes DEF RunsBounded
  <2> HIDE DEF S, T
  <2>4. Cardinality(T) <= Cardinality(S) /\ IsFiniteSet(T)
    BY <2>1, <2>2, FS_Subset
  <2>5. Cardinality(T) \in Nat /\ Cardinality(S) \in Nat /\ MaxRequests \in Nat
    BY <2>2, <2>4, FS_CardinalityType, ClockTypes
  <2>6. Cardinality(T) <= MaxRequests
    BY <2>3, <2>4, <2>5
  <2> QED
    BY <2>6 DEF T
<1>6. RunsBounded(run)'
  <2>1. \A a \in Requests :
          /\ run[a] <= faults'.restart
          /\ run[a] = faults'.restart /\ admittedAt'[a] > 0
               /\ admittedAt'[a] > clock' - Window
               => key'[a] \in Keys /\ <<a, admittedAt'[a]>> \in bucket'[key'[a]]
    <3>1. ASSUME NEW a \in Requests, run[a] = faults.restart, admittedAt[a] > 0,
                 admittedAt[a] > (clock + 1) - Window
          PROVE  key[a] \in Keys /\ <<a, admittedAt[a]>> \in bucket[key[a]]
      <4>1. admittedAt[a] > clock - Window
        BY <3>1, ClockTypes
      <4> QED
        BY <1>3, <3>1, <4>1 DEF RunsBounded
    <3>2. \A a \in Requests : run[a] <= faults.restart
      BY <1>3 DEF RunsBounded
    <3> QED
      BY <1>1, <3>1, <3>2
  <2>2. ASSUME NEW k \in Keys, NEW t \in 1..clock', NEW n \in 0..faults'.restart
        PROVE  Cardinality({a \in AdmittedIn(k, t)' : run[a] = n}) <= MaxRequests
    <3>1. t \in 1..clock \/ t = clock + 1
      BY <1>1, ClockTypes
    <3> QED
      BY <1>1, <1>3, <1>4, <1>5, <3>1 DEF RunsBounded
  <2> QED
    BY <2>1, <2>2 DEF RunsBounded
<1> QED
  BY <1>2, <1>3, <1>6 DEF LimiterInv

LEMMA RestartLimiter ==
  ASSUME CallsInv, LimiterInv, Restart
  PROVE  LimiterInv'
<1>1. /\ UNCHANGED <<clock, key, admittedAt>> /\ bucket' = [k \in Keys |-> {}]
      /\ faults'.restart = faults.restart + 1
  BY DEF Restart, CallsInv, GatewayTypeOK
<1>2. StampsTrue'
  BY <1>1 DEF StampsTrue
<1>3. PICK run \in [Requests -> Nat] : RunsBounded(run)
  BY DEF LimiterInv
<1>4. \A k, t : AdmittedIn(k, t)' = AdmittedIn(k, t)
  BY <1>1 DEF AdmittedIn
<1>5. \A a \in Requests : run[a] \in Nat /\ run[a] <= faults.restart /\ faults.restart \in Nat
  BY <1>3, ClockTypes DEF RunsBounded
<1>6. \A a \in Requests : run[a] <= faults'.restart /\ run[a] # faults'.restart
  BY <1>1, <1>5
<1>7. ASSUME NEW k \in Keys, NEW t \in 1..clock', NEW n \in 0..faults'.restart
      PROVE  Cardinality({a \in AdmittedIn(k, t)' : run[a] = n}) <= MaxRequests
  <2>1. CASE n = faults'.restart
    <3>1. {a \in AdmittedIn(k, t)' : run[a] = n} = {}
      BY <1>4, <1>6, <2>1 DEF AdmittedIn
    <3> QED
      BY <3>1, FS_EmptySet, ClockTypes
  <2>2. CASE n # faults'.restart
    <3>1. n \in 0..faults.restart
      BY <1>1, <2>2, ClockTypes
    <3> QED
      BY <1>1, <1>3, <1>4, <3>1 DEF RunsBounded
  <2> QED
    BY <2>1, <2>2
<1>8. RunsBounded(run)'
  BY <1>6, <1>7 DEF RunsBounded
<1> QED
  BY <1>2, <1>3, <1>8 DEF LimiterInv

(* The requests of a set whose timestamps are all in a bucket are no more  *)
(* than the timestamps there.                                              *)
LEMMA StampsCount ==
  ASSUME NEW S, NEW B, IsFiniteSet(B), NEW f, \A b \in S : <<b, f[b]>> \in B
  PROVE  IsFiniteSet(S) /\ Cardinality(S) <= Cardinality(B)
<1> DEFINE g == [b \in S |-> <<b, f[b]>>]
<1>1. g \in Injection(S, B)
  BY DEF Injection, IsInjective
<1> QED
  BY <1>1, FS_Injection

LEMMA AdmitLimiter ==
  ASSUME CallsInv, CallsInv', LimiterInv, NEW a \in Requests, NEW k \in Keys,
         NEW found \in BOOLEAN, Admit(a, k, found)
  PROVE  LimiterInv'
<1>1. /\ phase[a] = "new" /\ key'[a] = k /\ \A b \in Requests \ {a} : key'[b] = key[b]
  BY ArrivalFacts DEF Admit
<1>2. /\ UNCHANGED <<clock, faults>> /\ admittedAt[a] = 0 /\ admittedAt'[a] = clock
      /\ \A b \in Requests \ {a} : admittedAt'[b] = admittedAt[b]
      /\ bucket'[k] = Recent(k) \cup {<<a, clock>>}
      /\ \A j \in Keys \ {k} : bucket'[j] = bucket[j]
  BY <1>1 DEF Admit, CallsInv, CallInv, GatewayTypeOK
<1>3. StampsTrue'
  <2> SUFFICES ASSUME NEW j \in Keys, NEW x \in bucket'[j]
               PROVE  key'[x[1]] = j /\ admittedAt'[x[1]] = x[2]
    BY DEF StampsTrue
  <2>1. CASE j = k /\ x = <<a, clock>>
    BY <1>1, <1>2, <2>1
  <2>2. CASE x \in bucket[j]
    <3>1. key[x[1]] = j /\ admittedAt[x[1]] = x[2] /\ x[1] \in Requests /\ x[2] \in 1..clock
      BY <2>2, ClockTypes DEF LimiterInv, StampsTrue
    <3>2. x[1] # a
      BY <1>2, <3>1, ClockTypes
    <3> QED
      BY <1>1, <1>2, <3>1, <3>2
  <2> QED
    BY <1>2, <2>1, <2>2 DEF Recent
<1>4. PICK old \in [Requests -> Nat] : RunsBounded(old)
  BY DEF LimiterInv
<1>R. PICK R \in Nat : R = faults.restart
  BY ClockTypes
<1>5. PICK run \in [Requests -> Nat] :
        run[a] = R /\ \A b \in Requests \ {a} : run[b] = old[b]
  <2>1. [old EXCEPT ![a] = R] \in [Requests -> Nat]
    OBVIOUS
  <2> QED
    BY <2>1
<1>6. ASSUME NEW b \in Requests PROVE run[b] <= R
  <2>1. CASE b = a
    BY <1>5, <2>1
  <2>2. CASE b # a
    BY <1>R, <1>4, <1>5, <2>2 DEF RunsBounded
  <2> QED
    BY <2>1, <2>2
<1>7. ASSUME NEW b \in Requests, run[b] = R, admittedAt'[b] > 0,
             admittedAt'[b] > clock - Window
      PROVE  key'[b] \in Keys /\ <<b, admittedAt'[b]>> \in bucket'[key'[b]]
  <2>1. CASE b = a
    BY <1>1, <1>2, <2>1
  <2>2. CASE b # a
    <3>1. /\ old[b] = R /\ admittedAt[b] > 0 /\ admittedAt[b] > clock - Window
          /\ key'[b] = key[b] /\ admittedAt'[b] = admittedAt[b]
      BY <1>1, <1>2, <1>5, <1>7, <2>2
    <3>2. key[b] \in Keys /\ <<b, admittedAt[b]>> \in bucket[key[b]]
      BY <1>R, <1>4, <3>1 DEF RunsBounded
    <3>3. CASE key[b] = k
      <4>1. <<b, admittedAt[b]>> \in Recent(k)
        BY <3>1, <3>2, <3>3 DEF Recent
      <4> QED
        BY <1>2, <3>1, <3>2, <3>3, <4>1
    <3>4. CASE key[b] # k
      BY <1>2, <3>1, <3>2, <3>4
    <3> QED
      BY <3>3, <3>4
  <2> QED
    BY <2>1, <2>2
<1>8. ASSUME NEW j \in Keys, NEW t \in 1..clock, NEW n \in 0..R
      PROVE  Cardinality({b \in AdmittedIn(j, t)' : run[b] = n}) <= MaxRequests
  <2> DEFINE S == {b \in AdmittedIn(j, t)' : run[b] = n}
  <2>1. CASE t = clock /\ n = R
    <3> DEFINE B == bucket'[j]  f == admittedAt'
    <3>1. /\ IsFiniteSet(B) /\ Cardinality(B) <= MaxRequests
      BY DEF CallsInv, GatewayTypeOK
    <3>2. ASSUME NEW b \in S PROVE <<b, f[b]>> \in B
      <4>1. /\ b \in Requests /\ run[b] = R /\ key'[b] = j /\ admittedAt'[b] > 0
            /\ admittedAt'[b] > clock - Window
        BY <2>1 DEF AdmittedIn
      <4> QED
        BY <1>7, <4>1
    <3> HIDE DEF B, f, S
    <3>3. IsFiniteSet(S) /\ Cardinality(S) <= Cardinality(B)
      BY <3>1, <3>2, StampsCount
    <3>4. Cardinality(S) \in Nat /\ Cardinality(B) \in Nat /\ MaxRequests \in Nat
      BY <3>1, <3>3, FS_CardinalityType, ClockTypes
    <3>5. Cardinality(S) <= MaxRequests
      BY <3>1, <3>3, <3>4
    <3> QED
      BY <3>5 DEF S
  <2>2. CASE ~(t = clock /\ n = R)
    <3>1. a \notin S
      <4>1. a \in S => clock <= t /\ n = R
        BY <1>2, <1>5 DEF AdmittedIn
      <4> QED
        BY <2>2, <4>1, ClockTypes
    <3>2. S = {b \in AdmittedIn(j, t) : old[b] = n}
      <4>1. a \notin AdmittedIn(j, t)
        BY <1>2 DEF AdmittedIn
      <4>2. \A b \in Requests \ {a} : b \in S <=> b \in AdmittedIn(j, t) /\ old[b] = n
        BY <1>1, <1>2, <1>5 DEF AdmittedIn
      <4>3. S \subseteq Requests /\ AdmittedIn(j, t) \subseteq Requests
        BY DEF AdmittedIn
      <4> HIDE DEF S
      <4> QED
        BY <3>1, <4>1, <4>2, <4>3
    <3>3. Cardinality({b \in AdmittedIn(j, t) : old[b] = n}) <= MaxRequests
      BY <1>4, <1>R DEF RunsBounded
    <3> QED
      BY <3>2, <3>3
  <2> QED
    BY <2>1, <2>2
<1>9. RunsBounded(run)'
  <2>0. faults'.restart = R /\ clock' = clock
    BY <1>2, <1>R
  <2>1. \A b \in Requests :
          /\ run[b] <= faults'.restart
          /\ run[b] = faults'.restart /\ admittedAt'[b] > 0
               /\ admittedAt'[b] > clock' - Window
               => key'[b] \in Keys /\ <<b, admittedAt'[b]>> \in bucket'[key'[b]]
    BY <1>6, <1>7, <2>0
  <2>2. \A j \in Keys, t \in 1..clock', n \in 0..faults'.restart :
          Cardinality({b \in AdmittedIn(j, t)' : run[b] = n}) <= MaxRequests
    BY <1>8, <2>0
  <2> QED
    BY <2>1, <2>2 DEF RunsBounded
<1> QED
  BY <1>3, <1>5, <1>9 DEF LimiterInv

LEMMA OtherLimiter ==
  ASSUME CallsInv, LimiterInv, NEW a \in Requests,
         \/ \E k \in Keys, found \in BOOLEAN :
              RejectKey(a, k, found) \/ RejectRole(a, k, found) \/ RefuseRate(a, k, found)
         \/ ProxyStep(a) \/ UpstreamLookup(a) \/ UpstreamInsert(a) \/ UpstreamCrash(a)
         \/ UNCHANGED vars
  PROVE  LimiterInv'
<1>1. UNCHANGED <<clock, admittedAt>>
  BY DEF RejectKey, RejectRole, RefuseRate, ProxyStep, Send, ConnectFails,
     UpstreamTimeout, Relay, Uncaught, UpstreamLookup, UpstreamInsert, UpstreamCrash,
     gateVars, vars
<1>2. faults'.restart = faults.restart
  BY DEF RejectKey, RejectRole, RefuseRate, ProxyStep, Send, ConnectFails,
     UpstreamTimeout, Relay, Uncaught, UpstreamLookup, UpstreamInsert, UpstreamCrash,
     Answer, vars, CallsInv, GatewayTypeOK
<1>3. \A k \in Keys : bucket'[k] = bucket[k] \/ bucket'[k] = Recent(k)
  BY DEF RejectKey, RejectRole, RefuseRate, ProxyStep, Send, ConnectFails,
     UpstreamTimeout, Relay, Uncaught, UpstreamLookup, UpstreamInsert, UpstreamCrash,
     gateVars, vars, CallsInv, GatewayTypeOK
<1>4. \A b \in Requests : admittedAt[b] > 0 => key'[b] = key[b]
  <2>1. CASE key' = key
    BY <2>1
  <2>2. CASE \E k \in Keys : Arrives(a, k)
    <3>1. phase[a] = "new" /\ \A b \in Requests \ {a} : key'[b] = key[b]
      BY <2>2, ArrivalFacts
    <3>2. ~(admittedAt[a] > 0)
      BY <3>1 DEF CallsInv, CallInv
    <3> QED
      BY <3>1, <3>2
  <2> QED
    BY <2>1, <2>2
    DEF RejectKey, RejectRole, RefuseRate, ProxyStep, Send, ConnectFails,
     UpstreamTimeout, Relay, Uncaught, UpstreamLookup, UpstreamInsert, UpstreamCrash, vars
<1> QED
  BY <1>1, <1>2, <1>3, <1>4, NobodyAdmitted

LEMMA InitLimiter == Init => LimiterInv
<1> SUFFICES ASSUME Init PROVE LimiterInv
  OBVIOUS
<1>1. StampsTrue
  BY DEF Init, StampsTrue
<1>2. PICK run \in [Requests -> Nat] : \A a \in Requests : run[a] = 0
  <2>1. [a \in Requests |-> 0] \in [Requests -> Nat]
    OBVIOUS
  <2> QED
    BY <2>1
<1>3. faults.restart = 0 /\ \A a \in Requests : admittedAt[a] = 0
  BY DEF Init
<1>4. ASSUME NEW k \in Keys, NEW t \in 1..clock, NEW n \in 0..faults.restart
      PROVE  Cardinality({a \in AdmittedIn(k, t) : run[a] = n}) <= MaxRequests
  <2>1. {a \in AdmittedIn(k, t) : run[a] = n} = {}
    BY <1>3 DEF AdmittedIn
  <2> QED
    BY <2>1, FS_EmptySet, GatewayAssumption
<1>5. RunsBounded(run)
  BY <1>2, <1>3, <1>4 DEF RunsBounded
<1> QED
  BY <1>1, <1>5 DEF LimiterInv

LEMMA StutterLimiter ==
  ASSUME CallsInv, LimiterInv, UNCHANGED vars
  PROVE  LimiterInv'
<1>1. UNCHANGED <<clock, admittedAt, key, bucket, faults>>
  BY DEF vars, gateVars
<1> QED
  BY <1>1, NobodyAdmitted

LEMMA NextPreservesLimiter ==
  CallsInv /\ LimiterInv /\ CallsInv' /\ [Next]_vars => LimiterInv'
BY AdmitLimiter, OtherLimiter, TickLimiter, RestartLimiter, StutterLimiter
DEF Next, RequireApiKey

(* The limiter's timestamps are true, and between two restarts none of the *)
(* last window is missing.                                                 *)
THEOREM GatewayLimiter == Spec => []GateInv
<1>1. Init => GateInv
  BY InitCalls, InitLimiter DEF GateInv
<1>2. GateInv /\ [Next]_vars => GateInv'
  BY NextPreservesCalls, NextPreservesLimiter DEF GateInv
<1> QED
  BY <1>1, <1>2, PTL DEF Spec

(* A set in parts that are numbered 0 to m, none larger than M: every      *)
(* element has the number of its part and a number in it.                  *)
LEMMA PartsBounded ==
  ASSUME NEW S, IsFiniteSet(S), NEW part, \A a \in S : part[a] \in Nat,
         NEW M \in Nat, NEW m \in Nat,
         \A n \in 0..m : Cardinality({a \in S : part[a] = n}) <= M
  PROVE  Cardinality({a \in S : part[a] <= m}) <= M * (1 + m)
<1> DEFINE U == {a \in S : part[a] <= m}
           Part(n) == {a \in S : part[a] = n}
           Number == [n \in 0..m |-> CHOOSE f \in [Part(n) -> 1..M] :
                                       \A a, b \in Part(n) : f[a] = f[b] => a = b]
           g == [a \in U |-> <<part[a], Number[part[a]][a]>>]
<1>1. \A a \in U : part[a] \in 0..m /\ a \in Part(part[a])
  OBVIOUS
<1>2. ASSUME NEW n \in 0..m
      PROVE  /\ Number[n] \in [Part(n) -> 1..M]
             /\ \A a, b \in Part(n) : Number[n][a] = Number[n][b] => a = b
  <2> DEFINE P == Part(n)  c == Cardinality(P)
  <2>1. P \subseteq S /\ c <= M
    OBVIOUS
  <2> HIDE DEF P
  <2>2. IsFiniteSet(P) /\ c \in Nat
    BY <2>1, FS_Subset, FS_CardinalityType
  <2>3. IsFiniteSet(1..c) /\ Cardinality(1..c) = c
    BY <2>2, FS_Interval
  <2>4. ExistsBijection(P, 1..c)
    BY <2>2, <2>3, FS_SameCardinalityBij
  <2>5. PICK f \in [P -> 1..c] : \A a, b \in P : f[a] = f[b] => a = b
    BY <2>4 DEF ExistsBijection, Bijection, Injection, IsInjective
  <2>6. f \in [P -> 1..M]
    BY <2>1, <2>2, <2>5
  <2> HIDE DEF c
  <2>7. \E h \in [Part(n) -> 1..M] : \A a, b \in Part(n) : h[a] = h[b] => a = b
    BY <2>5, <2>6 DEF P
  <2> HIDE DEF Part
  <2> QED
    BY <2>7
<1> HIDE DEF Number, Part, U
<1>3. g \in [U -> (0..m) \X (1..M)]
  BY <1>1, <1>2
<1>4. ASSUME NEW a \in U, NEW b \in U, g[a] = g[b] PROVE a = b
  <2>1. part[a] = part[b] /\ Number[part[a]][a] = Number[part[b]][b]
    BY <1>4
  <2> QED
    BY <1>1, <1>2, <2>1
<1>5. g \in Injection(U, (0..m) \X (1..M))
  BY <1>3, <1>4 DEF Injection, IsInjective
<1>6. /\ IsFiniteSet(1..M) /\ Cardinality(1..M) = M
      /\ IsFiniteSet(0..m) /\ Cardinality(0..m) = m + 1
  BY FS_Interval
<1>7. /\ IsFiniteSet((0..m) \X (1..M))
      /\ Cardinality((0..m) \X (1..M)) = (m + 1) * M
  BY <1>6, FS_Product
<1>8. Cardinality(U) <= (m + 1) * M
  BY <1>5, <1>7, FS_Injection
<1>9. (m + 1) * M = M * (1 + m)
  OBVIOUS
<1> QED
  BY <1>8, <1>9 DEF U

(* RateBounded: no window of any key, wherever it begins, holds more than  *)
(* max_requests, except that each restart forgets one window's worth.      *)
THEOREM GatewayRateBounded == Spec => []RateBounded
<1>1. ASSUME GateInv PROVE RateBounded
  <2>0. CallsInv /\ LimiterInv
    BY <1>1 DEF GateInv
  <2>1. PICK run \in [Requests -> Nat] : RunsBounded(run)
    BY <2>0 DEF LimiterInv
  <2> SUFFICES ASSUME NEW k \in Keys, NEW t \in 1..clock
               PROVE  Cardinality(AdmittedIn(k, t)) <= MaxRequests * (1 + faults.restart)
    BY DEF RateBounded
  <2> DEFINE S == AdmittedIn(k, t)  R == faults.restart
  <2>2. R \in Nat /\ MaxRequests \in Nat
    BY <2>0, ClockTypes
  <2>3. IsFiniteSet(S)
    BY <2>0, AdmittedFinite
  <2>4. \A a \in S : run[a] \in Nat /\ run[a] <= R
    BY <2>1 DEF RunsBounded, AdmittedIn
  <2>5. \A n \in 0..R : Cardinality({a \in S : run[a] = n}) <= MaxRequests
    BY <2>1 DEF RunsBounded
  <2> HIDE DEF S, R
  <2>6. Cardinality({a \in S : run[a] <= R}) <= MaxRequests * (1 + R)
    BY <2>2, <2>3, <2>4, <2>5, PartsBounded
  <2>7. S = {a \in S : run[a] <= R}
    BY <2>4
  <2> QED
    BY <2>6, <2>7 DEF S, R
<1> QED
  BY <1>1, GatewayLimiter, PTL

(* The limiter refuses a request when its window is used up. *)
LEMMA FullWindow ==
  ASSUME CallsInv, LimiterInv, NEW k \in Keys, ~IsAllowed(k)
  PROVE  Cardinality(AdmittedIn(k, clock)) >= MaxRequests
<1> DEFINE B == Recent(k)  S == AdmittedIn(k, clock)
           g == [x \in B |-> x[1]]
<1>1. ASSUME NEW x \in B PROVE x[1] \in S /\ x = <<x[1], admittedAt[x[1]]>>
  <2>1. x \in bucket[k] /\ x[2] > clock - Window
    BY DEF Recent
  <2>2. /\ key[x[1]] = k /\ admittedAt[x[1]] = x[2] /\ x[1] \in Requests
        /\ x[2] \in 1..clock /\ x = <<x[1], x[2]>>
    BY <2>1, ClockTypes DEF LimiterInv, StampsTrue
  <2>3. x[2] > 0 /\ x[2] <= clock /\ clock - Window < x[2]
    BY <2>1, <2>2, ClockTypes
  <2> QED
    BY <2>2, <2>3 DEF AdmittedIn
<1>2. IsFiniteSet(S)
  BY AdmittedFinite
<1>3. /\ Cardinality(B) \in Nat /\ MaxRequests \in Nat /\ Cardinality(B) >= MaxRequests
  BY RecentFacts, ClockTypes DEF IsAllowed
<1> HIDE DEF B, S
<1>4. g \in Injection(B, S)
  <2>1. g \in [B -> S]
    BY <1>1
  <2>2. \A x, y \in B : g[x] = g[y] => x = y
    BY <1>1
  <2> QED
    BY <2>1, <2>2 DEF Injection, IsInjective
<1>5. Cardinality(B) <= Cardinality(S)
  BY <1>2, <1>4, FS_Injection
<1>6. Cardinality(S) \in Nat
  BY <1>2, FS_CardinalityType
<1>7. Cardinality(S) >= MaxRequests
  BY <1>3, <1>5, <1>6
<1> QED
  BY <1>7 DEF S

(* RefusedOnlyAtLimit: is_allowed says no only to a client that has really *)
(* used its window up; refused requests do not count.                      *)
THEOREM GatewayRefusesOnlyAtLimit == Spec => RefusedOnlyAtLimit
<1> DEFINE AtLimit ==
      \A a \in Requests :
        status'[a] = 429 /\ status[a] # 429 =>
          Cardinality(AdmittedIn(key'[a], clock)) >= MaxRequests
<1>1. ASSUME GateInv, [Next]_vars PROVE [AtLimit]_vars
  <2>0. CallsInv /\ LimiterInv /\ status \in [Requests -> {0, Lost, 200, 401, 403, 429, 500, 503, 504}]
    BY <1>1 DEF GateInv, CallsInv, GatewayTypeOK
  <2>1. CASE UNCHANGED vars
    BY <2>1
  <2>2. ASSUME NEW a \in Requests, NEW k \in Keys, NEW found \in BOOLEAN,
               RefuseRate(a, k, found)
        PROVE  AtLimit
    <3>1. /\ ~IsAllowed(k) /\ Arrives(a, k) /\ \A b \in Requests \ {a} : status'[b] = status[b]
      BY <2>0, <2>2 DEF RefuseRate, Answer
    <3>2. key'[a] = k
      BY <2>0, <3>1, ArrivalFacts
    <3>3. Cardinality(AdmittedIn(k, clock)) >= MaxRequests
      BY <2>0, <3>1, FullWindow
    <3> QED
      BY <3>1, <3>2, <3>3
  <2>3. CASE \A a \in Requests : status'[a] = status[a] \/ status'[a] # 429
    BY <2>3
  <2>4. ASSUME NEW a \in Requests, RequireApiKey(a) PROVE AtLimit
    <3>1. PICK k \in Keys, found \in BOOLEAN :
            RejectKey(a, k, found) \/ RejectRole(a, k, found) \/ RefuseRate(a, k, found)
              \/ Admit(a, k, found)
      BY <2>4 DEF RequireApiKey
    <3>2. RejectKey(a, k, found) \/ RejectRole(a, k, found) \/ Admit(a, k, found)
            => \A b \in Requests : status'[b] = status[b] \/ status'[b] # 429
      BY <2>0 DEF RejectKey, RejectRole, Admit, Answer
    <3> QED
      BY <2>2, <2>3, <3>1, <3>2
  <2>5. ASSUME NEW a \in Requests,
               \/ ProxyStep(a)
               \/ UpstreamLookup(a) \/ UpstreamInsert(a) \/ UpstreamCrash(a)
        PROVE  \A b \in Requests : status'[b] = status[b] \/ status'[b] # 429
    BY <2>0, <2>5 DEF ProxyStep, Send, ConnectFails, UpstreamTimeout, Relay, Uncaught,
       Answer, UpstreamLookup, UpstreamInsert, UpstreamCrash
  <2>6. ASSUME Tick \/ Restart
        PROVE  \A b \in Requests : status'[b] = status[b] \/ status'[b] # 429
    BY <2>0, <2>6 DEF Tick, Restart, Lost
  <2> HIDE DEF AtLimit
  <2>7. Next => AtLimit \/ \A a \in Requests : status'[a] = status[a] \/ status'[a] # 429
    BY <2>4, <2>5, <2>6 DEF Next
  <2> QED
    BY <1>1, <2>1, <2>3, <2>7
<1> QED
  BY <1>1, GatewayLimiter, PTL DEF Spec, RefusedOnlyAtLimit

=============================================================================
