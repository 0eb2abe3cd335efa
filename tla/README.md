# Verification of the stablecoin infrastructure

TLA+ modules that model the services of this repository, TLC configurations
that check them on small instances, and TLAPS proofs of the properties that
carry the money. The reference is the code; where a document or a comment says
something else, the model follows the code and the difference is reported.

## 1. The system

Nine services share one PostgreSQL database and talk through Kafka.

| Part | State it keeps | Operations | Correct when |
|---|---|---|---|
| Journal (`shared/journal.py`) | append-only `journal_entries`; transaction-level advisory locks | record a debit/credit pair, derive a balance, lock a balance | no account is overdrawn by concurrent spenders |
| RTGS (`services/rtgs`) | `rtgs_settlements`, their status history | submit, approve, sign; worker thread settles batches | each settlement resolves once, moves its funds exactly when settled, on the word of two actor ids |
| Payment engine (`services/payment-engine`) | `conditional_payments`, `escrow_contracts`, `escrow_holds` | create, trigger, release, refund; checker thread executes and expires | contracts resolve once, journal and holds match what was executed, replays and debts stay within bounds |
| Token issuance (`services/token-issuance`) | `token_issuances`, accounts | issue, redeem, create account | each reference mints or burns once, the reserve moves with it, escrowed tokens are not redeemed |
| FX settlement (`services/fx-settlement`) | `fx_rates`, `fx_settlements` | rate updates, initiate; worker thread runs two legs and asks for a signature | both legs or none, at the agreed amount |
| Signing gateway, MPC nodes | none | fan out, combine above a threshold | a settlement carries a signature |
| Outbox and publisher (`shared/outbox.py`, `services/outbox-publisher`) | `outbox_events` | write with the business transaction, publish, mark | every committed event reaches the topic |
| Kafka consumer loop (`shared/kafka_client.py`) | offsets, retry counts, `processed_events` | poll, handle, commit, back off, dead-letter | no event is passed over unhandled, also when the partition changes hands |
| Compliance monitor (`services/compliance-monitor`) | `compliance_events`, an in-memory velocity tracker | screen the parties of an event by amount, velocity and name | every party screened, once; what is missed has a known cause |
| API gateway, RBAC (`services/api-gateway`, `shared/rbac.py`) | API keys, an in-memory rate limiter, calls under way | authenticate, authorise, limit, proxy, audit | only entitled calls are forwarded, each request is answered, truthfully, and audited |
| Reconciliation script (`scripts/ledger_integrity.py`) | none | read-only checks | its checks are invariants |

What is hard about it: every service runs request handlers and a background
thread against the same rows under READ COMMITTED; some paths lock rows, some
take advisory locks, some do neither; a worker's batch is one long transaction
in which one row's error undoes its neighbours; locks are taken in data-dependent
order, so PostgreSQL aborts deadlock victims; publishing and consuming are
at-least-once with separate transactions in between, by consumers whose
partition may change hands in the middle of a message; the gateway gives up on
calls that go on; and clients retry.
`PROJECT.json` lists these hazards at the lines where they bite.

## 2. The modules

```
Ledger <----- Rtgs (implements Ledger and SettlementPromise)
       <----- PaymentEngine
       <----- TokenIssuance (implements TokenPromise)
       <----- FxSettlement  (implements Ledger)
ApiGateway        EventPipeline        ComplianceRules
LedgerProofs     -> Ledger (and sums over rows, short lists)
RtgsProofs       -> Rtgs, LedgerProofs
FxProofs         -> FxSettlement, LedgerProofs
IssuanceProofs   -> TokenIssuance
EngineProofs     -> PaymentEngine, LedgerProofs
PipelineProofs   -> EventPipeline
GatewayProofs    -> ApiGateway
ComplianceProofs -> ComplianceRules
```

**Ledger** is the journal and, at the same time, the discipline its users are
expected to follow. The journal is append-only (triggers of
`02_migrations.sql` enforce it) and is only ever summed, so `ledger[k]` is the
committed sum of a key (account and currency), `delta[s][k]` what session `s`
has flushed and not committed, `holder` the advisory locks and `seen` the last
balance a session read. `AcquireBalanceLock`, `GetBalance`,
`RecordJournalPair`, `Commit` and `Rollback` are the functions of
`shared/journal.py` and the end of `get_db_session`. `LedgerSpec` says: lock,
read, record what the reading covers, keep the lock to the end.

**Rtgs** models the three endpoints as single actions (each is one short
transaction on one row) and a worker's batch step by step: the query with
`SKIP LOCKED` and its real order (`ColumnOrder`: the priority column sorts as
text), the sender's lock with PostgreSQL's wait queue, the balance, the pair,
failure, the CHECK that rejects a transfer of an account to itself, abort as a
deadlock victim, crash, commit. **SettlementPromise** is what a participant may
rely on: accepted once, authorised in two steps, resolved once, the funds move
in the step in which the status becomes settled, nobody is overdrawn. `Rtgs`
implements it with the identity mapping on `status` and `ledger`.

**PaymentEngine** is modelled statement by statement, because its defects and
its strengths are in what is locked between which statements: the three SELECTs
of `get_available_balance` are three actions, `release_escrow` locks its row,
`trigger_conditional_payment` and `_reserve_funds` do not, `_expire_escrow`
waits for the row and overwrites its status. A status is the last committed row
of the status history, as the schema's trigger keeps it.

**TokenIssuance** has one session per request handler; any reference may be
sent again at any time and handled by any free handler. A redemption reads the
balance, the reserve holds and the release holds in three steps, as
`get_available_balance` does, and the payment engine places and releases holds
between any two of them: it takes no lock that a redemption respects, so nothing
is assumed of when it does, nor that it frees only what it has placed: an escrow
can be released and then expired, which frees its hold twice. `_redeem_tokens`
compares the amount with the available balance and with nothing else, so a hold
placed and freed between the two sums, or freed twice, lets it spend more than the
balance; the service therefore does *not* implement `LedgerSpec`.
**TokenPromise** is what a holder of tokens may rely on: a reference takes effect at
most once, for the account it names, in one step with the reserve, and nobody
redeems more than he has and has had freed. `TokenIssuance` implements it with the
balances read off the journal (`balance <- ledger` of the liability keys,
`reserve <- -ledger[Omnibus]`, `freed <- released`, `done <- completed`).

**FxSettlement** has the rate book (a mid rate per quoted pair, with the spread
and the half-even rounding of `_apply_spread`, and the inverse of a bid for a
pair quoted the other way round), the endpoint that fixes the amount, and the
worker with its two legs. The gateway's threshold and a gateway that does not
answer are choices of `Settle`.

**EventPipeline** follows an event: its outbox row, publishers that share rows,
send one by one and mark at the end, one Kafka partition, the members of a
consumer group and the chain of separate transactions of the compliance handler.
A handler's failed transaction is swallowed exactly where the code swallows it.
The partition belongs to one member (`owner`); a rebalance gives it to another,
which starts at the committed offset while the first still handles its message
and has its commit refused later (`Fenced`). A commit that fails after a dead
letter, and ten poll errors in a row, end the member's thread (`stopped`) until
its process restarts.

**ComplianceRules** is what the handler finds out in one screening: the two amount
rules over the approximate dollar value, the velocity tracker, and the sanctions
patterns, of which an account's name contains a given number. A transaction
happens, waits in the topic and is screened later; the tracker counts screenings
by the time at which they are made, keeps at most `TrackerCap` entries and is
lost with the process. An entry of the tracker is a pair of the number of the
screening and its time: the code's list may hold the same time twice, it is in the
order of the numbers, and only its length, its purge by age and its last entries
(`Capped`) are ever used. What is screened is what `handle_event` finds in the event
(`Fields`), not what happened (`Payload`): completed conditional payments and FX
settlements name neither account nor amount, a released escrow names no currency
(`Carried`, from `shared/events.py`), and the handler puts "", 0 and USD in their
place. The account "" and a failed lookup leave the name unknown.

**ApiGateway** follows a request. `require_api_key` has no `await`, so the key
lookup with its fallback to the legacy key, the role of the path and the rate
limiter are one action for each outcome. A key's bucket is a set of timestamps,
each with the request it was made for: the list of the code may hold the same time
twice, and only its length and its purge by age are ever used. `_proxy` waits for a connection and for
the upstream, so requests interleave there; a time-out answers the client and
leaves the upstream at work. The upstream is `initiate_fx_settlement`: a lookup
by idempotency key and an insert with a unique reference, in separate steps.
`Answer` is the audit middleware: the record may be lost with a flush that times
out; an exception that `_proxy` does not catch passes it by (`Uncaught`). A path
is the set of the map's fragments that it contains. A client's own `x-actor-role`
header is copied to the upstream ahead of the one the gateway sets, and an upstream
that asks for the header gets the first (`ForwardedRole`, `toldRole`).

`MC*.tla` give the constants small values. Every definition that models code is
mapped to its lines in `PROJECT.json`; definitions such as `Crash`,
`DeadlockVictim` and `Tick` model PostgreSQL, the process and the clock as the
code uses them. Definitions whose name says what is left out
(`RecordAndUnlockSpent`, `SignedIgnoringLocks`, ...) are plausible mistakes next to
the definition they would replace; no specification uses them.

## 3. What is checked

| Run | Checks | Instance and bounds |
|---|---|---|
| `MCRtgs` | `RtgsTypeOK`, `Reconciled`, `OutboxAgrees`, `TwoPersonRule`, `LedgerSpec`, `KeepsPromise` | 2 workers, 3 settlements between 2 accounts, batches of 2, 1 crash, approver, signer and the legacy key without an actor |
| `MCRtgsLive` | `QueueDrains` | 4 settlements that two batches lock in opposite orders, 2 crashes; starts on a table with at least three signed rows |
| `MCPaymentEngine` | `EngineTypeOK`, `EscrowResolvedOnce`, `JournalReconciles`, `HoldsReconcile`, `OverdraftBounded` | 2 handlers, 1 checker, 1 payment and 2 escrows that exceed the balance, clock 0..1, 1 crash |
| `MCEngineLive` | `ReplaysBounded`, `EscrowsExpire` | 1 handler, 1 checker, a time lock, a multi-signature, an oracle and a KYC payment and an escrow of an account with itself |
| `MCTokenIssuance` | `IssuanceTypeOK`, `OverdraftBounded`, `KeepsPromise`, `HoldsUntouched`, `CheckedBalanceStands` | 2 handlers, 2 issuances and 2 redemptions with unlimited repetitions and crashes, up to 2 reserve rows and 2 release rows on the redeemer's tokens, written at any time |
| `MCFxSettlement` | `FxTypeOK`, `LegsReconcile`, `SettledHasBothLegs`, `OutboxAgrees`, `LedgerSpec` | 2 workers, 3 settlements over 3 currencies, 2 mid rates, a nostro that can pay for little, 1 crash |
| `MCEventPipeline` | `PipelineTypeOK`, `ExtraScreeningsBounded`, `LossesBounded` | 1 publisher, 2 members of the group, 2 events (one with two parties), a malformed message, 2 rebalances, 1 failed transaction, commit or poll, 1 restart, `max_handler_retries` 2 |
| `MCPipelineLive` | `PublishedIsInLog`, `OnlyUnreadablePassed`, `EverythingScreened` | 2 publishers, 2 failed batches, 1 consumer without failures, a malformed message, `max_handler_retries` 3, the services' default |
| `MCApiGateway` | `GatewayTypeOK`, `RateBounded`, `RefusedOnlyAtLimit`, `ForwardedIsEntitled`, `AnswersAreTrue`, `AuditGapsExplained`, `EveryRequestAnswered` | a trader's, an auditor's and the legacy key, an order sent up to twice and an approval that carries an `x-actor-role` of its own, window 2, 1 request per window, 1 connection, clock 1..3, 1 restart, 1 lost audit record, key table readable or not at each request |
| `MCComplianceRules` | `VelocityExact`, `MissesExplained` | 4 transactions of one listed account on 4 topics, at and just below the reporting threshold in 3 currencies, at most 1 per window of 2, tracker of 2, clock 1..4, 1 restart, 1 failed lookup |

What the less obvious ones say. `ExtraScreeningsBounded` and `LossesBounded` are
the two sides of at-least-once delivery with a separate dedupe table: a party is
screened again at most once for each failed transaction or rebalance, and an
event is passed over at most once for each restart or failed transaction; a
rebalance alone loses nothing. `AnswersAreTrue`: 200 means carried out, once,
although an earlier call of the same key that timed out may still run; 401, 403,
429 and 503 mean that this call has not run and will not. `RateBounded` and
`RefusedOnlyAtLimit` bound the limiter from both sides for every window, not only
for those that begin with a request. `HoldsUntouched`: a redemption never spends
a hold it could have seen. `OverdraftBounded`, of the engine and of the issuance
service, and `ReplaysBounded` say how far the two go wrong that section 4 shows to go
wrong: the debt of an account is at most what was ever released on it, and a payment
is executed at most once by each thread. `CheckedBalanceStands` is about the
institutions' keys: the balance of the reserve, an asset, may fall under an
issuance that has read it, since a redemption credits it without its lock.
`OnlyUnreadablePassed`: with the services' retry count a malformed message is not
dead-lettered but passed by the commit of the next one (`MCPipelineDlq`); nothing
else is passed. `ForwardedIsEntitled` is about the decision of the gateway, by the
role table of the README (an auditor reads balances and rates only, accounts are
the administrator's); the role that the upstream is told is another matter
(`MCGatewayActor`). `VelocityExact` compares the tracker, with its purge and its cap, to
the set of screenings of the hour. `MissesExplained`: an event that carries amount
and currency has the large-transaction flag exactly when it should, and a listed
name that the event carries passes only with a failed lookup.

Why these bounds are enough to be interesting: two sessions and two keys are
what a lock cycle or a double spend needs; amounts and openings are chosen so
that some orders of settlement are covered and some are not; the clock of the
payment engine passes every expiry and release time of the instance; the clocks
of the gateway and the rules pass the edge of their window; two rebalances let
the partition go and come back; a batch of two makes one row's failure meet another
row's success. A malformed message is tried again only after a rebalance, so
`MCEventPipeline` reaches the dead letter within its two rebalances because it sets
`max_handler_retries` to 2; the theorems about its properties hold for every count.
The instances do not speak for three-way races; the theorems of section 5 do, for what they cover.

Deadlock is checked except in the runs of the pipeline, the gateway and the rules,
where an empty topic or no further request is a normal state that the model
represents by stopping.

Each property of a passing run is shown to be refutable: `PROJECT.json` names,
for each, a plausible mistake in a mapped definition under which TLC finds it
violated.

**Fairness.** RTGS workers, checker, publishers and the consumer are `while
True` loops (or supervised processes), which justifies weak fairness of their
steps. A thread that waits for a lock others take again and again needs more:
in `Rtgs` the wait queue of PostgreSQL is modelled (`WaitForSender`: a later
request does not overtake a queued one) and weak fairness suffices; in
`PaymentEngine`, where a session can wait for rows as well as keys, the queue is
represented by strong fairness. The gateway is an event
loop with a 30-second time-out, so each request's `ProxyStep` is weakly fair,
while its upstream need not answer. Callers, crashes, faults and the clock are
not fair: nothing assumes that anybody approves, signs or triggers.

## 4. Where the code and its documents part

Two runs of `PROJECT.json` expect a violation:

| Run | What TLC shows | What is said |
|---|---|---|
| `MCEngineOverdraft` | two escrows reserve the same funds (the reserve takes no advisory lock), both are released (the release skips the balance check), the depositor is overdrawn | README "No negative balances"; advisory locks "prevent double-spend" |
| `MCFxHerstatt` | the buy leg finds the nostro short, the row becomes failed, and the worker commits the sell leg | README "if either fails, both roll back" |

How far the first can go, and `MCEngineReplay` and `MCIssuanceOverdraft` below, is
bounded by theorems of section 5 (`EngineOverdraftBounded`, `EngineReplaysBounded`,
`IssuanceOverdraftBounded`).

The following configurations are kept for the reader and refute one property
each in the same way (`tlc -config <name>.cfg <module>`):

| Configuration (module) | Property | Code |
|---|---|---|
| `MCRtgsPriority` (`MCRtgs`) | `UrgentFirst` | `rtgs/main.py:258` orders by the text of the priority; README:131 promises urgent first |
| `MCRtgsMachine` (`MCRtgs`) | `FollowsStateMachine` | `rtgs/main.py:153`: processing to settled, without broadcasted and confirmed (README:146) |
| `MCRtgsPoison` (`MCRtgs`) | `QueueDrains` | `rtgs/main.py:273`: a settlement of an account with itself aborts every batch it is in |
| `MCEngineReplay` (`MCPaymentEngine`) | `ExecutedOnce` | `payment-engine/main.py:552`: two triggers, or a trigger and the checker, both read `pending` and both pay (README:868 "prevents ... payment replay on network retries") |
| `MCEngineBounds` (`MCPaymentEngine`) | `EscrowBounds` | `payment-engine/main.py:414`: an escrow released meanwhile is expired as well, its hold freed twice |
| `MCEngineTold` (`MCPaymentEngine`) | `ToldTheTruth` | `payment-engine/main.py:716`: "has expired and been refunded" is raised, which rolls the refund back |
| `MCEngineKeys` (`MCPaymentEngine`) | `OneEscrowPerKey` | `payment-engine/main.py:647`: the reference is generated, the key is never stored |
| `MCEngineStuck` (`MCPaymentEngine`) | `EscrowsExpire` | `payment-engine/main.py:307`: a due payment without funds rolls back every pass |
| `MCEngineKyc` (`MCPaymentEngine`) | `PayeeCleared` | `payment-engine/main.py:111`: for a payment that waits for clearance a trigger with `kyc_cleared: true` is enough, whatever the payee's record says (README:160 "Payee's KYC/AML status verified") |
| `MCIssuanceOverdraft` (`MCTokenIssuance`) | `NoOverdraft` | `token-issuance/main.py:315`: a redemption compares its amount with the available balance only, which exceeds the balance when a hold is freed twice, or placed and freed between the two sums (README:837 "No negative balances") |
| `MCIssuanceRetry` (`MCTokenIssuance`) | `RetryAnswered` | `token-issuance/main.py:137`: a pair is returned where the endpoint unpacks three values |
| `MCIssuanceHolds` (`MCTokenIssuance`) | `HoldsCovered` | `payment-engine/main.py:197`: a hold placed after a redemption has read the holds is spent by it |
| `MCFxUnsigned` (`MCFxSettlement`) | `SettledIsSigned` | `fx-settlement/main.py:312`: an empty signature is accepted |
| `MCPipelineLost` (`MCEventPipeline`) | `CommittedIsHandled` | `compliance-monitor/main.py:249`: stopped between `mark_event_processed` and the screening; the redelivered message is skipped as a duplicate (README:873 "Manual offset commits only after the handler succeeds") |
| `MCPipelineSwallowed` (`MCEventPipeline`) | `CommittedIsHandled` | `compliance-monitor/main.py:162`: a failed insert is logged and the offset committed |
| `MCPipelineDlq` (`MCEventPipeline`) | `PoisonReachesDlq` | `kafka_client.py:199`: without a seek, a failed message is not polled again, so with the services' default of 3 tries the dead-letter branch is never reached (README:829) |
| `MCGatewayAudit` (`MCApiGateway`) | `EveryRequestAudited` | `api-gateway/main.py:204`: an httpx error that is not caught, or a flush that times out, leaves a request out of `audit.trail` (README:93 "Every request is logged") |
| `MCGatewayActor` (`MCApiGateway`) | `UpstreamSeesGatewayRole` | `api-gateway/main.py:162`: the client's headers are forwarded ahead of the gateway's, so the upstream reads the client's `x-actor-role` (README:800 "The API gateway resolves keys, sets `X-Actor-Role`") |
| `MCRulesMissed` (`MCComplianceRules`) | `LargeIsFlagged` | `compliance-monitor/main.py:286`: the events of a conditional payment and of an FX settlement have no amount and that of an escrow no currency, so a large one is screened as 0, or as dollars (README:190) |
| `MCRulesVelocity` (`MCComplianceRules`) | `VelocityIsOfTransactions` | `compliance-monitor/main.py:100`: the tracker counts screenings by the time they are made, so late processing hides transactions of one hour or adds those of another (README:194 "> 20 transactions per account per hour") |

About one amount the documents disagree with each other. `tests/test_compliance.py:197`
expects no flag for 100,000 USD; the README (line 193) and `_check_structuring` flag
9,500 to 999,999 USD as potential structuring. The model follows the code, and no
property takes a side.

## 5. What is proved

All theorems hold for every value of the constants that the named assumptions
admit: disjoint liability and asset keys, positive amounts, non-negative opening
balances of liabilities (`Ledger`); instructions between liability keys for
amounts in `Amounts`, workers among the sessions (`Rtgs`); the same for an FX
settlement, whose two accounts are in different currencies, with a spread that
leaves a positive rate and amounts bought that are in `Amounts` as well
(`FxSettlement`, `BoughtAssumption`); terms between liability keys and the five
condition types (`PaymentEngine`); requests on liability keys, an asset key for the
reserve, and numbers that bound the rows of holds and, independently, of releases
(`TokenIssuance`); finitely many events and foreign
messages, no event among the latter, at least one party for each event
(`EventPipeline`); positive window, limit and pool (`ApiGateway`); events of the monitored topics for
transactions of named accounts, a velocity limit below the tracker's cap and a
structuring threshold below the reporting threshold (`ComplianceRules`). TLC evaluates
each assumption on the instances of section 3. All sets of sessions, workers,
handlers, members, settlements, escrows and requests are arbitrary, infinite
ones included, so where a proof counts it has to show first that what it counts
is finite at any time.

**`LedgerProofs`.** `NoOverdraft` is not inductive: a commit adds `delta`, about
which it says nothing. `LedgerInv` adds two parts. `PendingCovered`: a session
with a net debit on a key holds that key's lock, and the committed balance
covers the debit. `SeenStillCovered`: a session that has read a balance holds
the key's lock and would still read at least as much. The argument: only a
committing session lowers a committed balance; it holds the lock of every key it
lowers; so the others' readings and pending debits, which are protected by locks
of their own, stand. `RecordJournalPair` turns a covered reading into a covered
debit, and crediting a key never hurts. Theorems: `LedgerInvariant`,
`TypeCorrectness`, `Solvency` (`NoOverdraft`), `LockedBalanceStability`
(`CheckedBalanceStands`, of the institutions' keys: a credit lowers the balance of an
asset without its lock).

The second half of the module is what the services' balances rest on. They are sums
over sets of rows (`SumFunctionOnSet`), defined by a fold that takes the rows in an
arbitrary order. The lemmas say that such a sum over a finite set is an integer, gains
the value of an added row, loses that of a removed one and is additive in the function
and over disjoint sets. The prover cannot instantiate the library's induction theorems,
which take an operator, so `NaturalInduction` and `FiniteSetInduction` are stated of a
*set* of numbers or of subsets, and proved from the well-foundedness of `<`. Every other
induction over the rows is an instance of these two. Where a proof only has to count
(the pipeline, the gateway, the rules), it does so by an injection.

**`RtgsProofs`.** Every action of the service is a step of the ledger or leaves
it alone (`RtgsImplementsLedger`), from the auxiliary invariant `WorkerAtRow`: a
worker that handles a row is at a position of its batch, so the instruction it
acts on exists. With `Solvency` it follows that the settlement service, with any
number of workers, settlements and crashes, never overdraws an institution
(`RtgsSolvency`).

`RowInv` is the invariant of the settlements table. Its core is that the row's
history and events are a function of its status (`RowsOnRecord`), that a row is in
one batch, at one place, and is still signed (`RowsHeldOnce`, which is what
`SKIP LOCKED` gives), and that a worker has written outcomes for the rows before
its position and for no others (`OutcomesUpToPos`). `RtgsTypeCorrectness`,
`RtgsOutboxAgrees` and `RtgsTwoPersonRule` follow. `RtgsReconciled` needs a second
invariant: `PendingReconciled`, the entries that a worker has pending are those of
the rows it has settled in its open transaction, so that a commit adds to the
journal exactly what it adds to the set of settled rows, and a rollback drops both.
The two together give `RtgsKeepsPromise`, the refinement of `SettlementPromise`: a
commit maps to one `ResolveTogether` of the whole batch, an endpoint to its step, everything
else to a stutter; that nobody is overdrawn by it is `Solvency`.

**`FxProofs`.** The same plan for the FX service: `FxImplementsLedger` and
`FxSolvency`; `FxRowInv` with what is on record for each status, including that a
failed row may carry its sell leg; `WrittenUpToPos` with the sell leg before the
buy leg, from which `FxSettledHasBothLegs` and `FxOutboxAgrees` follow; and
`LegsInv`, the pending entries of a worker as the sum of the legs that it has
written, for `FxLegsReconcile`. The amount bought is fixed at initiation, which is why
`LegsInv` may sum over a stored amount while the rate moves (`AmountsOnRecord`).

**`EngineProofs`.** The payment engine does *not* implement `LedgerSpec`: its reserve
takes no lock, and its release skips the balance, which `MCEngineOverdraft` exploits.
What it does keep is proved directly. `RowInv` says where each thread is
(`AtItsRow`, `CreatesAlone`), that a thread holds the lock of every row for which it
has written a status and not committed it (`DraftsLocked`), and that a contract which
a handler is paying out has been nothing but active (`ContractHeld`): hence
`EngineResolvesOnce`, although the checker may expire the same contract besides.
`BooksInv` adds that the entries and release holds that
a thread has pending are those of its drafts, for `EngineJournalReconciles` and
`EngineHoldsReconcile`, which count a row as often as its history lists it: a
payment that was executed twice (`MCEngineReplay`) is twice in both.

Two properties that the engine breaks are replaced by what it does keep.
*How far can an account be overdrawn?* `EngineOverdraftBounded` (`OverdraftBounded`): a debit that nobody
checks comes with a release row in `escrow_holds`, so the debt is at most the sum of
the release rows, for any number of contracts and threads. `DebtInv` says of each
thread that its net debits are under locks, that the balance it would find, had
nothing been reserved, is not negative (`Purse`), and that what it has read of a
balance under its lock is still there; the three statements of
`get_available_balance` may see release rows that were written in between, and the
invariant counts them. `EnginePayersSolvent` is the case without release rows: an
account that is the depositor of no escrow is never overdrawn, so the double spend of
`MCEngineOverdraft` needs an escrow.
*How often can a payment be executed?* `EngineReplaysBounded` (`ReplaysBounded`): at most once by each
of finitely many threads. `ReplayInv` counts the executions on record together with the threads that may
yet commit one (`InFlight`); a thread joins those only while the last status is
`pending`, which it is before the first execution only (`PendingFirst`), and each
leaves with at most one execution (`CompletesOnce`). With one thread `ExecutedOnce`
follows (`EngineSingleThreadExecutesOnce`): the replay is a race.

**`IssuanceProofs`.** The service reads under a lock but compares less than
`LedgerSpec` asks for, so its guarantees are proved directly, for any number of
handlers, references and repetitions, and with nothing assumed of the holds.
`HandlerInv`: a handler that has begun works on a reference. `SessionInv`: it holds
the lock of the key it spends from, and no other, until its transaction ends; what it
has pending is exactly the pair of its reference (`EntriesOf`); and the balance it has
read of an account is still there, because only a redemption lowers an account, and a
redemption holds the lock (`IssuanceCheckedBalanceStands`). `HoldsInv`: the release
sum it has read has only grown since, and a recorded redemption leaves the committed
balance at the reserves it read, less what has been released by now, or above. The
last part carries the decision of `Record` over to the commit, from which
`RedemptionsRespectHolds` (`HoldsUntouched`) and `IssuanceOverdraftBounded` follow: a
redemption can spend what it takes to be freed, and no more.

`IssuanceKeepsPromise` proves the refinement of `TokenPromise`: every step of the
service maps to a step of the promise or to a stutter. Only `CommitRequest` and
`ReleaseHold` change the mapped state; the second is `Free`, and it must be shown that
the first is a `Mint` or a `Burn` of its reference, which nobody has completed yet
(`OncePerRef`). That is what makes repeated requests harmless, and is not a matter of
the unique index alone: two handlers with the same reference spend from the same key,
so the key's lock keeps the second from recording before the first has committed
(`CommittersDiffer`), and then it finds the reference. That a redemption is covered
by the balance and what was freed is `HoldsInv`. `IssuanceTypeCorrectness` is the type
invariant.

**`PipelineProofs`.** *Publishers.* `AtLeastOncePublication` (`PublishedIsInLog`): a
row marked published is in the topic. `PublisherInv` adds the part that makes it
inductive: the rows of a batch that Kafka has acknowledged are in the log, whatever
the other publishers append in between. A batch is marked only when all its rows are
acknowledged, and an abandoned one marks nothing. `CopiesInv` bounds the duplicates:
a row is held by one publisher, so an event is in the log once for each failed batch
and once more when it is acknowledged; summed over the events this is the bound
`MaxLog`.

*Screened too often.* `ScreeningsBounded` (`ExtraScreeningsBounded`). Counted are not
only the screenings made but also the members that still have to screen the party
(`StillToScreen`) and those that have found the event unprocessed and are about to
mark it (`Marking`). Until an event is marked, only failed dedupe transactions let
anybody screen it. Once it is marked, the members that still will are the owner and
those that lost the partition before they marked (`LeftBehind`), and a rebalance
leaves at most one more behind.

*Lost.* `PipelineLossesBounded` (`LossesBounded`). `LossInv` says that there is a set
of events, no larger than the number of restarts and failed transactions, outside of
which every event that is dealt with (marked, or behind some member) is cared for:
each of its parties is screened or still before a member. The set need not be
computed: each step either keeps everybody cared for, or is a fault that may add the
one event its member had in hand.

*Without failures.* `CalmGroupHandles` (`OnlyUnreadablePassed`) is stated for groups
without failed transactions, restarts and rebalances (`Calm`), with any retry count.
Each condition is needed: section 4 has a counterexample for the restart and the
failed transaction; after a rebalance the new owner commits, as a duplicate, a message
that the old one is still screening. `OrderInv` says that only the owner works, that no
event it has let go of is unmarked, and that the last committed message, if it cannot
be read, is a dead letter; that marked events are screened is `LossInv` with nothing
owed. `PipelineTypeCorrectness` takes all parts together.

**`GatewayProofs`.** `CallsInv` ties the phase, the role, the upstream's state and the
answer of each request together; `GatewayTypeCorrectness`, `GatewayForwardsEntitled`
(the gateway's decision, for every set of client headers), `GatewayAnswersTruly` and
`GatewayAuditGaps` follow. For `GatewayRateBounded` the
bucket says too little: it forgets what is older than a window, and everything at a
restart. `LimiterInv` therefore says that there is a numbering of the admitted
requests by runs of the process, such that the bucket holds every request of the
present run in the last window, and each run has admitted at most the maximum in
*every* window, also those that end in the past. `GatewayRefusesOnlyAtLimit` is an
action property: the bucket that refuses is a set of true timestamps of admitted
requests.

**`ComplianceProofs`.** `VelocityFlagsExact` (`VelocityExact`) compares what
`_check_velocity` counts, in a list that forgets, to the screenings of the hour.
`RulesInv` says that an entry is a true screening of the account in this run of the
process (`EntriesTrue`), that the times of screenings rise along the topic
(`ScreenedInOrder`), and what may be missing (`OnlyOldForgotten`): a screening of the
last hour is in the tracker unless `TrackerCap` later ones are. The purge keeps this
because what it drops is out of every later window as well; the cap keeps it because
an entry is dropped only by the cap's number of later ones. So either the entries are
exactly the window, or both are above the limit, for which the limit must be below
the cap (20 and 100 in the code; an assumption of the module). The flags of earlier
screenings stay exact because no later screening falls in their window.
`MissesHaveCauses` (`MissesExplained`): where the event carries amount and currency, what
is screened is what happened (`CarriedIsRead`), so the flag is right; and the listed
names that passed although their account was carried are counted by the failed
lookups (`PassedByFault`). `TrackerMemoryBounded`: at most `TrackerCap` entries an account.

Only model-checked:

- liveness (`QueueDrains`, `EscrowsExpire`, `EverythingScreened`,
  `EveryRequestAnswered`): fairness and ENABLED are beyond the prover;
- the refuted properties of section 4, which are no theorems.

## 6. What is not modelled

- The hashes of signatures and keys, receipts of the simulated chain and rails,
  the compliance score (25 for each flag), the request context copied into rows:
  pure data.
- Answers of the upstreams other than success, conflict and silence: the gateway
  passes them on as they are.
- Several partitions, and the order of events that share a `created_at`: no
  consumer in the repository depends on the order.
- Failures of single SQL statements other than the ones the handlers provoke;
  a lost connection is a crash.
- The reconciliation script as a process. It only reads; checks 1-4, 10 and 12 read
  `token_balances` and `ledger_entries`, which no service writes any more for
  institution accounts, so they have nothing to say of the modelled state, and
  check 9 reports the bootstrap entries, which are one-sided. The claims of checks
  3, 7 and 8 are invariants here.
- `token_balances` and `ledger_entries` themselves.
- Read-only endpoints, metrics, event schemas (but for the fields that the compliance
  monitor reads), migrations (the schema they end in
  is in the modules' constraints), demo and load scripts.

## 7. Plan

1. *Done:* `Ledger`; `Rtgs` with its promise and liveness; `PaymentEngine`;
   `TokenIssuance` with changing holds and its promise; `FxSettlement`;
   `EventPipeline` with a consumer group; `ApiGateway`; `ComplianceRules`.
2. *Done:* proofs of every safety property of the passing runs, of the refinements
   (`LedgerSpec` by two services, `SettlementPromise` and `TokenPromise`), and of
   the bounds within which the payment engine and the issuance service break
   `NoOverdraft` and the engine `ExecutedOnce`.
3. Left: liveness, which stays with TLC.
