---------------------------- MODULE PaymentEngine ----------------------------
(***************************************************************************)
(* The programmable payment engine (services/payment-engine/main.py):      *)
(* conditional payments, escrow contracts, the request handlers that       *)
(* create, trigger and release them, and the background condition checker. *)
(*                                                                         *)
(* A session is one database transaction at a time.  Its steps are its SQL *)
(* statements, as far as another session can tell them apart: a plain      *)
(* SELECT sees what is committed then, an UPDATE or SELECT FOR UPDATE      *)
(* waits for the row's lock, the advisory lock of Ledger.tla guards a      *)
(* debited key, and what a session wrote becomes visible when it commits.  *)
(* The status column of a row is its last status-history row (a trigger of *)
(* the schema keeps them equal), so only the history is kept.              *)
(***************************************************************************)
EXTENDS Ledger, SequencesExt

CONSTANTS
  Handlers,    \* request handler threads
  Checkers,    \* condition checker threads, one per service instance
  Payments,    \* payment_ref of each conditional payment
  Escrows,     \* contract_ref of each escrow contract
  Terms,       \* what each row asks for: [debit, credit, amount, expires, ...]
  Evidence,    \* trigger_data a caller may supply
  Cleared,     \* keys whose account is KYC verified and AML cleared
  Never,       \* expires_at of a payment that does not expire
  MaxClock,    \* bound on the clock
  MaxCrashes   \* bound on process crashes

Rows == Payments \cup Escrows

NoData == [oracle |-> "", signatures |-> {}, delivered |-> FALSE, kyc |-> FALSE]

ConditionTypes == {"time_lock", "oracle_trigger", "multi_sig",
                   "delivery_confirmation", "kyc_verified"}

ASSUME EngineAssumption ==
  /\ Handlers \cap Checkers = {}
  /\ Handlers \cup Checkers \subseteq Sessions
  /\ Payments \cap Escrows = {}
  /\ NoKey \notin Rows
  /\ \A r \in Rows : /\ Terms[r].debit \in Liabilities
                     /\ Terms[r].credit \in Liabilities
                     /\ Terms[r].amount \in Amounts
  /\ \A p \in Payments : LET c == Terms[p].condition
                        IN  /\ c.type \in ConditionTypes
                            /\ c.type = "time_lock" => c.release_at \in Int
  /\ NoData \in Evidence
  /\ MaxClock \in Nat
  /\ MaxCrashes \in Nat

VARIABLES
  reserved,  \* per key, SUM of its committed escrow_holds of type reserve
  released,  \* per key, SUM of its committed escrow_holds of type release
  freed,     \* per session, its uncommitted release holds
  history,   \* per row, its committed status-history rows
  draft,     \* per session and row, its uncommitted status-history rows
  rowLock,   \* the session that has locked each row
  outbox,    \* per row, the types of its outbox events
  told,      \* escrows whose caller was answered "expired and refunded"
  pc,        \* what each session does next
  at,        \* the row it works on
  todo,      \* the rows its current query returned, not yet handled
  passNow,   \* the clock when the checker began its pass
  clock,
  crashes

tableVars == <<reserved, released, history, outbox>>
writeVars == <<freed, draft, rowLock>>
threadVars == <<pc, at, todo, passNow>>
worldVars == <<told, clock, crashes>>
vars == <<ledgerVars, tableVars, writeVars, threadVars, worldVars>>

Threads == Handlers \cup Checkers

NoRow == NoKey

-----------------------------------------------------------------------------
(* Reading rows.                                                           *)

Status(r) == IF history[r] = <<>> THEN "none" ELSE Last(history[r])

AutoTyped(p) == Terms[p].condition.type \in {"time_lock", "kyc_verified"}

(* evaluate_condition; NoData stands for absent or empty trigger_data. *)
EvaluateCondition(c, data) ==
  CASE c.type = "time_lock" -> clock >= c.release_at
    [] c.type = "oracle_trigger" -> data # NoData /\ data.oracle = c.expected
    [] c.type = "multi_sig" ->
         /\ data # NoData
         /\ Cardinality(c.required \cap data.signatures) >= c.threshold
    [] c.type = "delivery_confirmation" -> data # NoData /\ data.delivered
    [] c.type = "kyc_verified" -> data.kyc

(* What the checker supplies for a payment. *)
CheckerEvidence(p) ==
  [NoData EXCEPT !.kyc = Terms[p].condition.type = "kyc_verified"
                           /\ Terms[p].credit \in Cleared]

Expired(r, now) == Terms[r].expires # Never /\ now > Terms[r].expires

Free(s, r) == rowLock[r] \in {NoOne, s}

-----------------------------------------------------------------------------
(* Writing rows.                                                           *)

(* Lock row r (an UPDATE of it waits until it is free) and note the new    *)
(* status, visible when s commits.                                         *)
WriteStatus(s, r, new) ==
  /\ Free(s, r)
  /\ rowLock' = [rowLock EXCEPT ![r] = s]
  /\ draft' = [draft EXCEPT ![s][r] = Append(@, new)]

Goto(s, label) == pc' = [pc EXCEPT ![s] = label]

(* The event each committed status puts in the outbox, if any. *)
EventsOf(new) ==
  LET event == [pending |-> "payment.conditional.created",
                completed |-> "payment.conditional.completed",
                active |-> "escrow.created",
                released |-> "escrow.released",
                refunded |-> "escrow.released",
                expired |-> "escrow.expired"]
  IN  {event[x] : x \in ToSet(new) \cap DOMAIN event}

(* Both ends of a transaction release the session's locks and forget what  *)
(* it had not committed.                                                   *)
EndSession(s) ==
  /\ freed' = [freed EXCEPT ![s] = NoEntries]
  /\ draft' = [draft EXCEPT ![s] = [r \in Rows |-> <<>>]]
  /\ rowLock' = [r \in Rows |-> IF rowLock[r] = s THEN NoOne ELSE rowLock[r]]
  /\ pc' = [pc EXCEPT ![s] = "idle"]
  /\ at' = [at EXCEPT ![s] = NoRow]
  /\ todo' = [todo EXCEPT ![s] = {}]
  /\ passNow' = [passNow EXCEPT ![s] = 0]

CommitKeepingHolds(s) ==
  /\ Commit(s)
  /\ UNCHANGED released
  /\ history' = [r \in Rows |-> history[r] \o draft[s][r]]
  /\ outbox' = [r \in Rows |-> outbox[r] \cup EventsOf(draft[s][r])]
  /\ EndSession(s)
  /\ UNCHANGED <<reserved, worldVars>>

CommitSession(s) ==
  /\ Commit(s)
  /\ released' = [k \in Keys |-> released[k] + freed[s][k]]
  /\ history' = [r \in Rows |-> history[r] \o draft[s][r]]
  /\ outbox' = [r \in Rows |-> outbox[r] \cup EventsOf(draft[s][r])]
  /\ EndSession(s)
  /\ UNCHANGED <<reserved, worldVars>>

RollbackSession(s) ==
  /\ Rollback(s)
  /\ EndSession(s)
  /\ UNCHANGED tableVars

-----------------------------------------------------------------------------
(* get_available_balance: three SELECTs, each with a snapshot of its own.  *)
(* seen[s].balance accumulates balance - held + released.                  *)

(* Under the advisory lock (_locked_transfer) ... *)
LockDebited(s) ==
  /\ pc[s] = "lock"
  /\ AcquireBalanceLock(s, Terms[at[s]].debit)
  /\ Goto(s, "balance")
  /\ UNCHANGED <<tableVars, writeVars, at, todo, passNow, worldVars>>

ReadBalance(s) ==
  /\ pc[s] = "balance"
  /\ GetBalance(s, Terms[at[s]].debit)
  /\ Goto(s, "held")
  /\ UNCHANGED <<tableVars, writeVars, at, todo, passNow, worldVars>>

ReadHeld(s) ==
  /\ pc[s] = "held"
  /\ seen' = [seen EXCEPT ![s].balance = @ - reserved[Terms[at[s]].debit]]
  /\ Goto(s, "released")
  /\ UNCHANGED <<ledger, delta, holder, tableVars, writeVars, at, todo, passNow, worldVars>>

ReadReleased(s) ==
  LET k == Terms[at[s]].debit
  IN  /\ pc[s] = "released"
      /\ seen' = [seen EXCEPT ![s].balance = @ + released[k] + freed[s][k]]
      /\ Goto(s, "act")
      /\ UNCHANGED <<ledger, delta, holder, tableVars, writeVars, at, todo,
                     passNow, worldVars>>

(* "Insufficient available ...", or the CHECK of the transactions table    *)
(* when an account pays itself: the exception rolls the session back.      *)
Refuse(s) ==
  LET t == Terms[at[s]]
  IN  /\ pc[s] = "act"
      /\ seen[s].balance < t.amount \/ (at[s] \in Payments /\ t.debit = t.credit)
      /\ RollbackSession(s)
      /\ UNCHANGED worldVars

-----------------------------------------------------------------------------
(* Conditional payments.                                                   *)

(* create_conditional_payment; the reference is unique and its idempotency *)
(* key, so a repeated call returns the row.                                *)
CreateConditionalPayment(p) ==
  /\ Status(p) = "none"
  /\ history' = [history EXCEPT ![p] = <<"pending">>]
  /\ outbox' = [outbox EXCEPT ![p] = @ \cup EventsOf(<<"pending">>)]
  /\ UNCHANGED <<ledgerVars, reserved, released, writeVars, threadVars, worldVars>>

(* trigger_conditional_payment reads the row without locking it. *)
TriggerUnsatisfied(p, data) ==
  /\ Status(p) = "pending"
  /\ ~EvaluateCondition(Terms[p].condition, data)
  /\ outbox' = [outbox EXCEPT ![p] = @ \cup {"payment.conditional.triggered"}]
  /\ UNCHANGED <<ledgerVars, reserved, released, history, writeVars, threadVars,
                 worldVars>>

TriggerUnchecked(s, p, data) ==
  /\ pc[s] = "idle"
  /\ Status(p) # "none"
  /\ EvaluateCondition(Terms[p].condition, data)
  /\ at' = [at EXCEPT ![s] = p]
  /\ Goto(s, "execute")
  /\ UNCHANGED <<ledgerVars, tableVars, writeVars, todo, passNow, worldVars>>

Trigger(s, p, data) ==
  /\ pc[s] = "idle"
  /\ Status(p) = "pending"
  /\ EvaluateCondition(Terms[p].condition, data)
  /\ at' = [at EXCEPT ![s] = p]
  /\ Goto(s, "execute")
  /\ UNCHANGED <<ledgerVars, tableVars, writeVars, todo, passNow, worldVars>>

(* _execute_conditional_payment, for a handler or for the checker. *)
BeginExecution(s) ==
  /\ pc[s] = "execute"
  /\ WriteStatus(s, at[s], "processing")
  /\ Goto(s, "lock")
  /\ UNCHANGED <<ledgerVars, tableVars, freed, at, todo, passNow, worldVars>>

CompleteUnchecked(s) ==
  LET t == Terms[at[s]]
  IN  /\ pc[s] = "act"
      /\ at[s] \in Payments
      /\ t.debit # t.credit
      /\ delta' = PairEntries(s, t.debit, t.credit, t.amount)
      /\ WriteStatus(s, at[s], "completed")
      /\ Goto(s, IF s \in Checkers THEN "payments" ELSE "commit")
      /\ UNCHANGED <<ledger, holder, seen, tableVars, freed, at, todo, passNow, worldVars>>

CompletePayment(s) ==
  LET t == Terms[at[s]]
  IN  /\ pc[s] = "act"
      /\ at[s] \in Payments
      /\ t.debit # t.credit
      /\ RecordJournalPair(s, t.debit, t.credit, t.amount)
      /\ WriteStatus(s, at[s], "completed")
      /\ Goto(s, IF s \in Checkers THEN "payments" ELSE "commit")
      /\ UNCHANGED <<tableVars, freed, at, todo, passNow, worldVars>>

-----------------------------------------------------------------------------
(* Escrow contracts.                                                       *)

(* create_escrow.  The idempotency guard looks for a contract whose        *)
(* contract_ref is the key, and every contract_ref is freshly generated.   *)
(* _reserve_funds reads the available balance without the advisory lock.   *)
BeginReserve(s, e) ==
  /\ pc[s] = "idle"
  /\ Status(e) = "none" /\ \A t \in Handlers : at[t] # e
  /\ \A x \in Escrows : Status(x) # "none" => x # Terms[e].key
  /\ seen' = [seen EXCEPT ![s] = [key |-> Terms[e].debit,
                                  balance |-> Balance(s, Terms[e].debit)]]
  /\ at' = [at EXCEPT ![s] = e]
  /\ Goto(s, "held")
  /\ UNCHANGED <<ledger, delta, holder, tableVars, writeVars, todo, passNow, worldVars>>

CreateEscrow(s) ==
  LET t == Terms[at[s]]
  IN  /\ pc[s] = "act"
      /\ at[s] \in Escrows
      /\ seen[s].balance >= t.amount
      /\ reserved' = [reserved EXCEPT ![t.debit] = @ + t.amount]
      /\ history' = [history EXCEPT ![at[s]] = <<"active">>]
      /\ outbox' = [outbox EXCEPT ![at[s]] = @ \cup EventsOf(<<"active">>)]
      /\ Commit(s)
      /\ EndSession(s)
      /\ UNCHANGED <<released, worldVars>>

(* release_escrow locks the row, then checks status and expiry. *)
ReleasableUnlocked(e) ==
  /\ Status(e) = "active"
  /\ ~Expired(e, clock)

Releasable(e) ==
  /\ rowLock[e] = NoOne
  /\ Status(e) = "active"
  /\ ~Expired(e, clock)

(* Too late: _expire_escrow runs, and the HTTPException that reports it    *)
(* rolls it back.                                                          *)
ReleaseTooLate(e) ==
  /\ rowLock[e] = NoOne
  /\ Status(e) = "active"
  /\ Expired(e, clock)
  /\ told' = told \cup {e}
  /\ UNCHANGED <<ledgerVars, tableVars, writeVars, threadVars, clock, crashes>>

(* release_to = depositor: nothing to wait for once the row is locked. *)
RefundDepositor(e) ==
  /\ Releasable(e)
  /\ released' = [released EXCEPT ![Terms[e].debit] = @ + Terms[e].amount]
  /\ history' = [history EXCEPT ![e] = Append(@, "refunded")]
  /\ outbox' = [outbox EXCEPT ![e] = @ \cup EventsOf(<<"refunded">>)]
  /\ UNCHANGED <<ledgerVars, reserved, writeVars, threadVars, worldVars>>

(* release_to = beneficiary: keep the row, then ask for the advisory lock. *)
BeginRelease(s, e) ==
  /\ pc[s] = "idle"
  /\ Releasable(e)
  /\ rowLock' = [rowLock EXCEPT ![e] = s]
  /\ at' = [at EXCEPT ![s] = e]
  /\ Goto(s, "pay")
  /\ UNCHANGED <<ledgerVars, tableVars, freed, draft, todo, passNow, worldVars>>

PayWithoutJournal(s) ==
  LET t == Terms[at[s]]
  IN  /\ pc[s] = "pay"
      /\ t.debit # t.credit
      /\ holder[t.debit] \in {NoOne, s}
      /\ holder' = [holder EXCEPT ![t.debit] = s]
      /\ freed' = [freed EXCEPT ![s][t.debit] = @ + t.amount]
      /\ WriteStatus(s, at[s], "released")
      /\ Goto(s, "commit")
      /\ UNCHANGED <<ledger, delta, seen, tableVars, at, todo, passNow, worldVars>>

(* _locked_transfer with release_reserve: the available balance is not     *)
(* compared with the amount.                                               *)
PayBeneficiary(s) ==
  LET t == Terms[at[s]]
  IN  /\ pc[s] = "pay"
      /\ t.debit # t.credit
      /\ holder[t.debit] \in {NoOne, s}
      /\ holder' = [holder EXCEPT ![t.debit] = s]
      /\ delta' = PairEntries(s, t.debit, t.credit, t.amount)
      /\ freed' = [freed EXCEPT ![s][t.debit] = @ + t.amount]
      /\ WriteStatus(s, at[s], "released")
      /\ Goto(s, "commit")
      /\ UNCHANGED <<ledger, seen, tableVars, at, todo, passNow, worldVars>>

(* A contract of an account with itself: the transactions table rejects    *)
(* the release.                                                            *)
RejectedByCheck(s) ==
  /\ pc[s] = "pay"
  /\ Terms[at[s]].debit = Terms[at[s]].credit
  /\ holder[Terms[at[s]].debit] = NoOne
  /\ RollbackSession(s)
  /\ UNCHANGED worldVars

CommitRequest(s) ==
  /\ pc[s] = "commit"
  /\ CommitSession(s)

-----------------------------------------------------------------------------
(* _check_conditions: one transaction per pass.                            *)

BeginPass(s) ==
  /\ pc[s] = "idle"
  /\ todo' = [todo EXCEPT ![s] = {p \in Payments : Status(p) = "pending" /\ AutoTyped(p)}]
  /\ passNow' = [passNow EXCEPT ![s] = clock]
  /\ Goto(s, "payments")
  /\ UNCHANGED <<ledgerVars, tableVars, writeVars, at, worldVars>>

(* The query has no ORDER BY. *)
TakePayment(s, p) ==
  /\ pc[s] = "payments"
  /\ p \in todo[s]
  /\ todo' = [todo EXCEPT ![s] = @ \ {p}]
  /\ at' = [at EXCEPT ![s] = p]
  /\ Goto(s, IF Expired(p, passNow[s]) THEN "fail"
             ELSE IF EvaluateCondition(Terms[p].condition, CheckerEvidence(p))
                  THEN "execute"
             ELSE "payments")
  /\ UNCHANGED <<ledgerVars, tableVars, writeVars, passNow, worldVars>>

FailExpired(s) ==
  /\ pc[s] = "fail"
  /\ WriteStatus(s, at[s], "failed")
  /\ Goto(s, "payments")
  /\ UNCHANGED <<ledgerVars, tableVars, freed, at, todo, passNow, worldVars>>

SelectStrictlyExpired(s) ==
  /\ pc[s] = "payments"
  /\ todo[s] = {}
  /\ todo' = [todo EXCEPT ![s] =
       {e \in Escrows : Status(e) = "active" /\ Terms[e].expires < passNow[s]}]
  /\ Goto(s, "escrows")
  /\ UNCHANGED <<ledgerVars, tableVars, writeVars, at, passNow, worldVars>>

SelectExpiredEscrows(s) ==
  /\ pc[s] = "payments"
  /\ todo[s] = {}
  /\ todo' = [todo EXCEPT ![s] =
       {e \in Escrows : Status(e) = "active" /\ Terms[e].expires <= passNow[s]}]
  /\ Goto(s, "escrows")
  /\ UNCHANGED <<ledgerVars, tableVars, writeVars, at, passNow, worldVars>>

TakeEscrow(s, e) ==
  /\ pc[s] = "escrows"
  /\ e \in todo[s]
  /\ todo' = [todo EXCEPT ![s] = @ \ {e}]
  /\ at' = [at EXCEPT ![s] = e]
  /\ Goto(s, "expire")
  /\ UNCHANGED <<ledgerVars, tableVars, writeVars, passNow, worldVars>>

ExpireReserving(s) ==
  LET t == Terms[at[s]]
  IN  /\ pc[s] = "expire"
      /\ WriteStatus(s, at[s], "expired")
      /\ freed' = [freed EXCEPT ![s][t.debit] = @ - t.amount]
      /\ Goto(s, "escrows")
      /\ UNCHANGED <<ledgerVars, tableVars, at, todo, passNow, worldVars>>

(* _expire_escrow: the UPDATE waits for the row and does not look at the   *)
(* status it overwrites.                                                   *)
ExpireEscrow(s) ==
  LET t == Terms[at[s]]
  IN  /\ pc[s] = "expire"
      /\ WriteStatus(s, at[s], "expired")
      /\ freed' = [freed EXCEPT ![s][t.debit] = @ + t.amount]
      /\ Goto(s, "escrows")
      /\ UNCHANGED <<ledgerVars, tableVars, at, todo, passNow, worldVars>>

CommitPass(s) ==
  /\ pc[s] = "escrows"
  /\ todo[s] = {}
  /\ CommitSession(s)

-----------------------------------------------------------------------------
(* The environment.                                                        *)

WaitsForRow(s, t) ==
  pc[s] \in {"execute", "fail", "expire"} /\ s # t /\ rowLock[at[s]] = t

WaitsForKey(s, t) ==
  pc[s] \in {"lock", "pay"} /\ s # t /\ holder[Terms[at[s]].debit] = t

WaitsFor(s, t) == WaitsForRow(s, t) \/ WaitsForKey(s, t)

(* PostgreSQL aborts a session of a cycle of waiters; the exception rolls  *)
(* its transaction back.                                                   *)
DeadlockVictim(s) ==
  /\ \E cycle \in SUBSET Threads :
       /\ s \in cycle
       /\ \A t \in cycle : \E u \in cycle : WaitsFor(t, u)
       /\ \A t \in cycle : \E u \in cycle : WaitsFor(u, t)
  /\ RollbackSession(s)
  /\ UNCHANGED worldVars

Crash(s) ==
  /\ pc[s] # "idle"
  /\ crashes < MaxCrashes
  /\ crashes' = crashes + 1
  /\ RollbackSession(s)
  /\ UNCHANGED <<told, clock>>

Tick ==
  /\ clock < MaxClock
  /\ clock' = clock + 1
  /\ UNCHANGED <<ledgerVars, tableVars, writeVars, threadVars, told, crashes>>

-----------------------------------------------------------------------------

Init ==
  /\ LedgerInit
  /\ reserved = NoEntries
  /\ released = NoEntries
  /\ freed = [s \in Threads |-> NoEntries]
  /\ history = [r \in Rows |-> <<>>]
  /\ draft = [s \in Threads |-> [r \in Rows |-> <<>>]]
  /\ rowLock = [r \in Rows |-> NoOne]
  /\ outbox = [r \in Rows |-> {}]
  /\ told = {}
  /\ pc = [s \in Threads |-> "idle"]
  /\ at = [s \in Threads |-> NoRow]
  /\ todo = [s \in Threads |-> {}]
  /\ passNow = [s \in Threads |-> 0]
  /\ clock = 0
  /\ crashes = 0

(* The steps a handler and the checker share. *)
TransferStep(s) ==
  \/ BeginExecution(s)
  \/ LockDebited(s)
  \/ ReadBalance(s)
  \/ ReadHeld(s)
  \/ ReadReleased(s)
  \/ Refuse(s)
  \/ CompletePayment(s)
  \/ DeadlockVictim(s)

(* A handler that has begun a request goes on with it. *)
HandlerStep(s) ==
  \/ TransferStep(s)
  \/ CreateEscrow(s)
  \/ PayBeneficiary(s)
  \/ RejectedByCheck(s)
  \/ CommitRequest(s)

CheckerStep(s) ==
  \/ TransferStep(s)
  \/ BeginPass(s)
  \/ \E p \in Payments : TakePayment(s, p)
  \/ FailExpired(s)
  \/ SelectExpiredEscrows(s)
  \/ \E e \in Escrows : TakeEscrow(s, e)
  \/ ExpireEscrow(s)
  \/ CommitPass(s)

NewRequest ==
  \/ \E p \in Payments : CreateConditionalPayment(p)
  \/ \E p \in Payments, data \in Evidence : TriggerUnsatisfied(p, data)
  \/ \E s \in Handlers, p \in Payments, data \in Evidence : Trigger(s, p, data)
  \/ \E s \in Handlers, e \in Escrows : BeginReserve(s, e) \/ BeginRelease(s, e)
  \/ \E e \in Escrows : ReleaseTooLate(e) \/ RefundDepositor(e)

Next ==
  \/ NewRequest
  \/ \E s \in Handlers : HandlerStep(s)
  \/ \E s \in Checkers : CheckerStep(s)
  \/ \E s \in Threads : Crash(s)
  \/ Tick

Spec == Init /\ [][Next]_vars

(* Threads run.  PostgreSQL serves the waiters of a lock in turn, so a     *)
(* thread whose row or key comes free again and again gets it.             *)
Fairness ==
  /\ \A s \in Handlers : SF_vars(HandlerStep(s))
  /\ \A s \in Checkers : SF_vars(CheckerStep(s))

FairSpec == Spec /\ Fairness

-----------------------------------------------------------------------------
(* Properties.                                                             *)

Statuses == {"pending", "processing", "completed", "failed",
             "active", "released", "refunded", "expired"}

Labels == {"idle", "execute", "lock", "balance", "held", "released", "act",
           "commit", "pay", "payments", "fail", "escrows", "expire"}

RowTypeOK ==
  /\ reserved \in [Keys -> Nat]
  /\ released \in [Keys -> Nat]
  /\ freed \in [Threads -> [Keys -> Nat]]
  /\ history \in [Rows -> Seq(Statuses)]
  /\ draft \in [Threads -> [Rows -> Seq(Statuses)]]
  /\ rowLock \in [Rows -> Threads \cup {NoOne}]
  /\ told \subseteq Escrows
  /\ pc \in [Threads -> Labels]
  /\ at \in [Threads -> Rows \cup {NoRow}]
  /\ todo \in [Threads -> SUBSET Rows]
  /\ clock \in 0..MaxClock /\ crashes \in 0..MaxCrashes
  /\ passNow \in [Threads -> 0..MaxClock]

(* Every variable keeps its shape; hold sums never go negative. *)
EngineTypeOK == LedgerTypeOK /\ RowTypeOK

Count(list, status) == Cardinality({i \in DOMAIN list : list[i] = status})

Times(r, status) == Count(history[r], status)

(* release_escrow resolves a contract at most once, whatever handlers race *)
(* for it and however often the checker expires it: it is never both paid  *)
(* out and refunded, and never paid out twice.                             *)
EscrowResolvedOnce ==
  \A e \in Escrows : Times(e, "released") + Times(e, "refunded") <= 1

(* The rows on record, and what the status rows in list say of row r: the  *)
(* money it moved into key k, and what it adds to the reserve and to the   *)
(* release holds of k.                                                     *)
Recorded == {r \in Rows : history[r] # <<>>}

MovedBy(r, list) ==
  Terms[r].amount * (Count(list, "completed") + Count(list, "released"))

MovedInto(k, r, list) ==
  (IF Terms[r].credit = k THEN MovedBy(r, list) ELSE 0)
    - (IF Terms[r].debit = k THEN MovedBy(r, list) ELSE 0)

HeldFor(k, r, list) ==
  IF r \in Escrows /\ Terms[r].debit = k
  THEN Terms[r].amount * Count(list, "active") ELSE 0

FreedFor(k, r, list) ==
  IF r \in Escrows /\ Terms[r].debit = k
  THEN Terms[r].amount * (Count(list, "released") + Count(list, "refunded")
                            + Count(list, "expired"))
  ELSE 0

MovesOf(k, lists) == [r \in Rows |-> MovedInto(k, r, lists[r])]

HoldsOf(k, lists) == [r \in Rows |-> HeldFor(k, r, lists[r])]

FreesOf(k, lists) == [r \in Rows |-> FreedFor(k, r, lists[r])]

(* The journal reconciles with the status histories: every balance is the  *)
(* opening balance plus exactly the executions and releases on record,     *)
(* through every rollback, crash and lock cycle.                           *)
JournalReconciles ==
  \A k \in Keys :
    ledger[k] = Opening[k] + SumFunctionOnSet(MovesOf(k, history), Recorded)

(* escrow_holds reconciles with the contracts: one reserve per contract,   *)
(* one release per time it was released, refunded or expired.              *)
HoldsReconcile ==
  \A k \in Keys :
    /\ reserved[k] = SumFunctionOnSet(HoldsOf(k, history), Recorded)
    /\ released[k] = SumFunctionOnSet(FreesOf(k, history), Recorded)

(* How far an account can be overdrawn.  A release debits the depositor    *)
(* without looking at the balance and escrows are reserved without the     *)
(* lock, so balances do go negative (MCEngineOverdraft.cfg).  But a debit  *)
(* that is not checked comes with a release row, and every other debit is  *)
(* checked under the lock: the debt is at most what the release rows sum   *)
(* up to.                                                                  *)
OverdraftBounded == \A k \in Liabilities : ledger[k] + released[k] >= 0

(* How far a payment can be replayed.  Its status is read without a lock,  *)
(* so several threads may execute it (MCEngineReplay.cfg), but only those  *)
(* that read it pending before its first execution was committed: at most  *)
(* once for each thread, however many triggers and passes follow.          *)
ReplaysBounded == \A p \in Payments : Times(p, "completed") <= Cardinality(Threads)

(* "Payee's KYC/AML status verified": a payment that waits for clearance   *)
(* is paid to a cleared account only.                                      *)
PayeeCleared ==
  \A p \in Payments :
    Terms[p].condition.type = "kyc_verified" /\ Times(p, "completed") > 0
      => Terms[p].credit \in Cleared

(* Check 8 of the reconciliation engine: the active contracts of a         *)
(* depositor never exceed what is held for it.                             *)
EscrowBounds ==
  \A k \in Keys :
    MapThenSumSet(LAMBDA e : Terms[e].amount,
                  {e \in Escrows : Status(e) = "active" /\ Terms[e].debit = k})
      <= reserved[k] - released[k]

(* "prevents ... payment replay on network retries": a payment is executed *)
(* at most once.                                                           *)
ExecutedOnce == \A p \in Payments : Times(p, "completed") <= 1

(* A contract a caller was told "has expired and been refunded" is.        *)
ToldTheTruth == \A e \in told : Status(e) = "expired"

(* Two escrow requests with the same idempotency key create one contract.  *)
OneEscrowPerKey ==
  \A d, e \in Escrows :
    Status(d) # "none" /\ Status(e) # "none" /\ Terms[d].key = Terms[e].key => d = e

(* "auto-expired when expires_at passes": a contract does not stay active  *)
(* beyond its expiry.                                                      *)
EscrowsExpire ==
  \A e \in Escrows :
    Status(e) = "active" /\ clock >= Terms[e].expires ~> Status(e) # "active"

=============================================================================
