---------------------------- MODULE FxSettlement ----------------------------
(***************************************************************************)
(* Payment-versus-payment currency settlement                              *)
(* (services/fx-settlement/main.py): the rate book, the settle endpoint    *)
(* and the worker threads, with the MPC signature each settlement asks of  *)
(* the signing gateway.                                                    *)
(*                                                                         *)
(* A settlement has two legs: the sender pays the nostro of the sold       *)
(* currency, then the nostro of the bought currency pays the receiver.     *)
(* Each leg locks and checks the key it debits, as in Ledger.tla, and a    *)
(* worker's whole batch is one transaction.                                *)
(***************************************************************************)
EXTENDS Ledger, Sequences

CONSTANTS
  Workers,       \* settlement worker threads
  Refs,          \* settlement references (idempotency keys)
  Instruction,   \* what each asks for: [from, to, amount]; from is a key of
                 \* the sold currency, to a key of the bought one
  Currency,      \* the currency of each liability key
  Nostro,        \* the nostro key of each currency
  Quoted,        \* the <<base, quote>> pairs that have a rate
  Scale,         \* 1 / the precision: rate x stands for x / Scale
  Rates,         \* the mid rates the feed delivers
  FirstRate,     \* the seeded mid rate
  HalfSpread,    \* half the spread of each mid rate
  Nodes,         \* MPC nodes behind the signing gateway
  BatchLimit,    \* LIMIT of the worker's query
  MaxCrashes     \* bound on worker crashes

ASSUME FxAssumption ==
  /\ Workers \subseteq Sessions
  /\ Instruction \in [Refs -> [from : Liabilities, to : Liabilities, amount : Amounts]]
  /\ Nostro \in [{Currency[k] : k \in Liabilities} -> Assets]
  /\ \A r \in Refs : Currency[Instruction[r].from] # Currency[Instruction[r].to]
  /\ Scale \in Nat \ {0}
  /\ FirstRate \in Rates
  /\ \A x \in Rates : HalfSpread[x] \in Nat /\ x - HalfSpread[x] \in Nat \ {0}
  /\ BatchLimit \in Nat \ {0}
  /\ MaxCrashes \in Nat

VARIABLES
  rate,       \* the live mid rate of each quoted pair
  status,     \* committed status column of each settlement
  createdAt,  \* its created_at (0 before it is initiated)
  buyAmount,  \* its buy_amount, fixed when it is initiated
  legs,       \* the legs whose transaction id is on the row
  signed,     \* settlements whose receipt carries an MPC signature
  outbox,     \* its rows of outbox_events, as event types
  pc,         \* what each worker does next
  leg,        \* the leg it is at
  batch,      \* the rows its transaction holds FOR UPDATE, in query order
  pos,        \* the row it is at
  written,    \* what it has written to each row: [status, legs, signed]
  crashes     \* worker crashes so far

rowVars == <<status, createdAt, buyAmount, legs, signed, outbox>>
workerVars == <<pc, leg, batch, pos, written>>
vars == <<ledgerVars, rate, rowVars, workerVars, crashes>>

Untouched == [status |-> "none", legs |-> {}, signed |-> FALSE]

-----------------------------------------------------------------------------
(* Rates and the endpoint.                                                 *)

RateUpdateWithBid(pair, x) ==
  /\ rate[pair] # x
  /\ rate' = [rate EXCEPT ![pair] = x - HalfSpread[x]]
  /\ UNCHANGED <<ledgerVars, rowVars, workerVars, crashes>>

(* _rate_update_handler: the old rate is deactivated, the new one added. *)
RateUpdate(pair, x) ==
  /\ rate[pair] # x
  /\ rate' = [rate EXCEPT ![pair] = x]
  /\ UNCHANGED <<ledgerVars, rowVars, workerVars, crashes>>

(* n / d quantized to the precision, half to even. *)
Quantize(n, d) ==
  LET q == n \div d
      r == n % d
  IN  IF 2 * r > d \/ (2 * r = d /\ q % 2 = 1) THEN q + 1 ELSE q

(* A rate for the pair or for its inverse, or there is no settlement. *)
Priced(sell, buy) == {<<sell, buy>>, <<buy, sell>>} \cap Quoted # {}

(* _apply_spread: ask of the pair, or one over the bid of the inverse. *)
AppliedRate(sell, buy, mid) ==
  IF <<sell, buy>> \in Quoted
    THEN mid + HalfSpread[mid]
    ELSE Quantize(Scale * Scale, mid - HalfSpread[mid])

(* _get_live_rate: the pair's own rate, or that of the inverse pair. *)
LiveRate(sell, buy) ==
  IF <<sell, buy>> \in Quoted THEN rate[<<sell, buy>>] ELSE rate[<<buy, sell>>]

(* sell_amount times the rate applied at a mid rate, rounded down. *)
AmountAt(r, mid) ==
  LET in == Instruction[r]
  IN  (in.amount * AppliedRate(Currency[in.from], Currency[in.to], mid)) \div Scale

(* Amounts holds the amounts bought as well as those sold. *)
ASSUME BoughtAssumption ==
  \A r \in Refs, x \in Rates : AmountAt(r, x) > 0 => AmountAt(r, x) \in Amounts

BuyAmount(r) ==
  AmountAt(r, LiveRate(Currency[Instruction[r].from], Currency[Instruction[r].to]))

(* initiate_fx_settlement: the row keeps the amount at today's rate, which *)
(* the table's CHECK wants positive; a repeated reference returns the      *)
(* existing row.                                                           *)
Initiate(r) ==
  /\ status[r] = "none"
  /\ Priced(Currency[Instruction[r].from], Currency[Instruction[r].to])
  /\ BuyAmount(r) > 0
  /\ status' = [status EXCEPT ![r] = "queued"]
  /\ createdAt' = [createdAt EXCEPT ![r] =
                     1 + Cardinality({q \in Refs : status[q] # "none"})]
  /\ buyAmount' = [buyAmount EXCEPT ![r] = BuyAmount(r)]
  /\ outbox' = [outbox EXCEPT ![r] = Append(@, "initiated")]
  /\ UNCHANGED <<ledgerVars, rate, legs, signed, workerVars, crashes>>

-----------------------------------------------------------------------------
(* The worker.                                                             *)

InBatch(w, r) == \E i \in DOMAIN batch[w] : batch[w][i] = r

(* WHERE status = 'queued' ... FOR UPDATE SKIP LOCKED *)
QueuedIgnoringLocks == {r \in Refs : status[r] = "queued"}

Fetchable == {r \in Refs : status[r] = "queued" /\ ~\E w \in Workers : InBatch(w, r)}

(* ORDER BY created_at LIMIT BatchLimit *)
IsBatch(q) ==
  /\ \A i, j \in DOMAIN q : i < j => createdAt[q[i]] < createdAt[q[j]]
  /\ \A r \in Fetchable :
       \/ \E i \in DOMAIN q : q[i] = r
       \/ Len(q) = BatchLimit /\ createdAt[q[Len(q)]] < createdAt[r]

FetchBatch(w) ==
  /\ pc[w] = "idle"
  /\ \E n \in 1..BatchLimit : \E q \in [1..n -> Fetchable] :
       /\ IsBatch(q)
       /\ batch' = [batch EXCEPT ![w] = q]
  /\ pos' = [pos EXCEPT ![w] = 1]
  /\ leg' = [leg EXCEPT ![w] = "sell"]
  /\ pc' = [pc EXCEPT ![w] = "lock"]
  /\ UNCHANGED <<ledgerVars, rate, rowVars, written, crashes>>

Current(w) == batch[w][pos[w]]

(* Debited key, credited key and amount of the leg a worker is at. *)
Debited(w) ==
  LET in == Instruction[Current(w)]
  IN  IF leg[w] = "sell" THEN in.from ELSE Nostro[Currency[in.to]]

Credited(w) ==
  LET in == Instruction[Current(w)]
  IN  IF leg[w] = "sell" THEN Nostro[Currency[in.from]] ELSE in.to

LegAmount(w) ==
  IF leg[w] = "sell" THEN Instruction[Current(w)].amount ELSE buyAmount[Current(w)]

LockDebited(w) ==
  /\ pc[w] = "lock"
  /\ AcquireBalanceLock(w, Debited(w))
  /\ pc' = [pc EXCEPT ![w] = "read"]
  /\ UNCHANGED <<rate, rowVars, leg, batch, pos, written, crashes>>

ReadDebited(w) ==
  /\ pc[w] = "read"
  /\ GetBalance(w, Debited(w))
  /\ pc' = [pc EXCEPT ![w] = "act"]
  /\ UNCHANGED <<rate, rowVars, leg, batch, pos, written, crashes>>

RecordLegUnchecked(w) ==
  /\ pc[w] = "act"
  /\ delta' = PairEntries(w, Debited(w), Credited(w), LegAmount(w))
  /\ seen' = [seen EXCEPT ![w] = NoRead]
  /\ written' = [written EXCEPT ![w][Current(w)].legs = @ \cup {leg[w]}]
  /\ leg' = [leg EXCEPT ![w] = "buy"]
  /\ pc' = [pc EXCEPT ![w] = IF leg[w] = "sell" THEN "lock" ELSE "sign"]
  /\ UNCHANGED <<ledger, holder, rate, rowVars, batch, pos, crashes>>

(* _execute_leg succeeds; after the sell leg comes the buy leg, after the  *)
(* buy leg the signature.                                                  *)
RecordLeg(w) ==
  /\ pc[w] = "act"
  /\ RecordJournalPair(w, Debited(w), Credited(w), LegAmount(w))
  /\ written' = [written EXCEPT ![w][Current(w)].legs = @ \cup {leg[w]}]
  /\ leg' = [leg EXCEPT ![w] = "buy"]
  /\ pc' = [pc EXCEPT ![w] = IF leg[w] = "sell" THEN "lock" ELSE "sign"]
  /\ UNCHANGED <<rate, rowVars, batch, pos, crashes>>

(* On to the next row of the batch, or to the commit. *)
Resolve(w, result, withSignature) ==
  /\ written' = [written EXCEPT ![w][Current(w)].status = result,
                                ![w][Current(w)].signed = withSignature]
  /\ pos' = [pos EXCEPT ![w] = @ + 1]
  /\ leg' = [leg EXCEPT ![w] = "sell"]
  /\ pc' = [pc EXCEPT ![w] = IF pos[w] = Len(batch[w]) THEN "commit" ELSE "lock"]

(* The gateway's threshold, (N // 2) + 1. *)
Threshold == Cardinality(Nodes) \div 2 + 1

(* _fan_out_and_combine: a node that is down or refuses gives no partial   *)
(* signature; fewer than the threshold answer 503.                         *)
Combined(answered) == Cardinality(answered) >= Threshold

(* _sign_settlement: empty after a 503, a timeout or an unreachable gateway. *)
SignSettlement(answered, inTime) == inTime /\ Combined(answered)

SettleSkippingBuyLeg(w) ==
  /\ pc[w] = "lock" /\ leg[w] = "buy"
  /\ Resolve(w, "settled", TRUE)
  /\ UNCHANGED <<ledgerVars, rate, rowVars, batch, crashes>>

(* Both legs are recorded: the row becomes settled, with or without a      *)
(* signature.                                                              *)
Settle(w) ==
  /\ pc[w] = "sign"
  /\ \E answered \in SUBSET Nodes, inTime \in BOOLEAN :
       Resolve(w, "settled", SignSettlement(answered, inTime))
  /\ UNCHANGED <<ledgerVars, rate, rowVars, batch, crashes>>

(* ValueError("Insufficient ...") of either leg: the row becomes failed    *)
(* and what the sell leg wrote stays in the transaction.                   *)
FailInsufficient(w) ==
  /\ pc[w] = "act"
  /\ RefuseInsufficient(w, Debited(w), LegAmount(w))
  /\ Resolve(w, "failed", FALSE)
  /\ UNCHANGED <<rate, rowVars, batch, crashes>>

EndBatch(w) ==
  /\ pc' = [pc EXCEPT ![w] = "idle"]
  /\ batch' = [batch EXCEPT ![w] = <<>>]
  /\ pos' = [pos EXCEPT ![w] = 0]
  /\ leg' = [leg EXCEPT ![w] = "sell"]
  /\ written' = [written EXCEPT ![w] = [r \in Refs |-> Untouched]]

AbandonBatch(w) ==
  /\ Rollback(w)
  /\ EndBatch(w)
  /\ UNCHANGED <<rate, rowVars>>

Crash(w) ==
  /\ pc[w] # "idle"
  /\ crashes < MaxCrashes
  /\ AbandonBatch(w)
  /\ crashes' = crashes + 1

WaitsFor(w, v) == pc[w] = "lock" /\ w # v /\ holder[Debited(w)] = v

(* PostgreSQL aborts a session that is part of a cycle of waiters. *)
DeadlockVictim(w) ==
  /\ \E cycle \in SUBSET Workers :
       /\ w \in cycle
       /\ \A v \in cycle : \E u \in cycle : WaitsFor(v, u)
       /\ \A v \in cycle : \E u \in cycle : WaitsFor(u, v)
  /\ AbandonBatch(w)
  /\ UNCHANGED crashes

EventsOfStatus(row) ==
  IF row.status = "settled" THEN <<"leg.sell", "leg.buy", "completed">>
  ELSE <<"failed">>

(* One leg.completed event per leg, then completed or failed. *)
EventsOf(row) ==
  (IF "sell" \in row.legs THEN <<"leg.sell">> ELSE <<>>)
    \o (IF "buy" \in row.legs THEN <<"leg.buy">> ELSE <<>>)
    \o (IF row.status = "settled" THEN <<"completed">> ELSE <<"failed">>)

CommitBatch(w) ==
  /\ pc[w] = "commit"
  /\ Commit(w)
  /\ status' = [r \in Refs |-> IF InBatch(w, r) THEN written[w][r].status ELSE status[r]]
  /\ legs' = [r \in Refs |-> legs[r] \cup written[w][r].legs]
  /\ signed' = signed \cup {r \in Refs : written[w][r].signed}
  /\ outbox' = [r \in Refs |->
       IF InBatch(w, r) THEN outbox[r] \o EventsOf(written[w][r]) ELSE outbox[r]]
  /\ EndBatch(w)
  /\ UNCHANGED <<rate, createdAt, buyAmount, crashes>>

-----------------------------------------------------------------------------

Init ==
  /\ LedgerInit
  /\ rate = [pair \in Quoted |-> FirstRate]
  /\ status = [r \in Refs |-> "none"]
  /\ createdAt = [r \in Refs |-> 0]
  /\ buyAmount = [r \in Refs |-> 0]
  /\ legs = [r \in Refs |-> {}]
  /\ signed = {}
  /\ outbox = [r \in Refs |-> <<>>]
  /\ pc = [w \in Workers |-> "idle"]
  /\ leg = [w \in Workers |-> "sell"]
  /\ batch = [w \in Workers |-> <<>>]
  /\ pos = [w \in Workers |-> 0]
  /\ written = [w \in Workers |-> [r \in Refs |-> Untouched]]
  /\ crashes = 0

WorkerStep(w) ==
  \/ FetchBatch(w)
  \/ LockDebited(w)
  \/ ReadDebited(w)
  \/ RecordLeg(w)
  \/ Settle(w)
  \/ FailInsufficient(w)
  \/ DeadlockVictim(w)
  \/ CommitBatch(w)

Next ==
  \/ \E pair \in Quoted, x \in Rates : RateUpdate(pair, x)
  \/ \E r \in Refs : Initiate(r)
  \/ \E w \in Workers : WorkerStep(w) \/ Crash(w)

Spec == Init /\ [][Next]_vars

-----------------------------------------------------------------------------
(* Properties.                                                             *)

RowTypeOK ==
  /\ rate \in [Quoted -> Rates]
  /\ status \in [Refs -> {"none", "queued", "settled", "failed"}]
  /\ createdAt \in [Refs -> Nat]
  /\ buyAmount \in [Refs -> Nat]
  /\ legs \in [Refs -> SUBSET {"sell", "buy"}]
  /\ signed \subseteq Refs
  /\ outbox \in [Refs -> Seq({"initiated", "leg.sell", "leg.buy", "completed", "failed"})]

WorkerTypeOK ==
  /\ pc \in [Workers -> {"idle", "lock", "read", "act", "sign", "commit"}]
  /\ leg \in [Workers -> {"sell", "buy"}]
  /\ batch \in [Workers -> Seq(Refs)]
  /\ pos \in [Workers -> Nat]
  /\ written \in [Workers -> [Refs -> [status : {"none", "settled", "failed"},
                                      legs : SUBSET {"sell", "buy"},
                                      signed : BOOLEAN]]]
  /\ crashes \in 0..MaxCrashes

(* Every variable keeps its shape. *)
FxTypeOK == LedgerTypeOK /\ RowTypeOK /\ WorkerTypeOK

(* What each sale, and each purchase at the amount on its row, adds to a   *)
(* key.                                                                    *)
SaleOf(k) ==
  [r \in Refs |->
    (IF Nostro[Currency[Instruction[r].from]] = k THEN Instruction[r].amount ELSE 0)
      - (IF Instruction[r].from = k THEN Instruction[r].amount ELSE 0)]

PurchaseOf(k) ==
  [r \in Refs |->
    (IF Instruction[r].to = k THEN buyAmount[r] ELSE 0)
      - (IF Nostro[Currency[Instruction[r].to]] = k THEN buyAmount[r] ELSE 0)]

Sold == {r \in Refs : "sell" \in legs[r]}
Bought == {r \in Refs : "buy" \in legs[r]}

(* The journal reconciles with the settlements: every balance is the       *)
(* opening balance plus exactly the legs on record, each once, whatever    *)
(* the workers and their lock cycles do and however the rate moves between *)
(* initiation and settlement.                                              *)
LegsReconcile ==
  \A k \in Keys :
    ledger[k] = Opening[k] + SumFunctionOnSet(SaleOf(k), Sold)
                           + SumFunctionOnSet(PurchaseOf(k), Bought)

(* Check 7 of the reconciliation engine: a settled row has both legs; and  *)
(* the receiver is never paid for a sale that did not happen.              *)
SettledHasBothLegs ==
  \A r \in Refs :
    /\ status[r] = "settled" => legs[r] = {"sell", "buy"}
    /\ "buy" \in legs[r] => "sell" \in legs[r]

Count(rows, x) == Cardinality({i \in DOMAIN rows : rows[i] = x})

(* The outbox tells what happened: a leg event for each leg on record, the *)
(* final event of the status on record, each once.                         *)
OutboxAgrees ==
  \A r \in Refs :
    /\ Count(outbox[r], "leg.sell") = IF "sell" \in legs[r] THEN 1 ELSE 0
    /\ Count(outbox[r], "leg.buy") = IF "buy" \in legs[r] THEN 1 ELSE 0
    /\ Count(outbox[r], "completed") = IF status[r] = "settled" THEN 1 ELSE 0
    /\ Count(outbox[r], "failed") = IF status[r] = "failed" THEN 1 ELSE 0

(* "if either fails, both roll back": a settlement that failed moved       *)
(* nothing.                                                                *)
BothLegsOrNone == \A r \in Refs : status[r] = "failed" => legs[r] = {}

(* "MPC signing always applied to the token leg." *)
SettledIsSigned == \A r \in Refs : status[r] = "settled" => r \in signed

=============================================================================
