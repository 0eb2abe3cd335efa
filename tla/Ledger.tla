------------------------------- MODULE Ledger -------------------------------
(***************************************************************************)
(* The double-entry journal of shared/journal.py, as the services use it   *)
(* from concurrent PostgreSQL transactions (READ COMMITTED).               *)
(*                                                                         *)
(* A key is one (account, currency) pair: the unit of the advisory lock    *)
(* and of the balance query.  The journal is append-only and every reader  *)
(* only ever sums it, so the model keeps the sum: ledger[k] is             *)
(* SUM(credit) - SUM(debit) over the committed entries of k, delta[s][k]   *)
(* the same sum over the entries session s has flushed but not committed.  *)
(*                                                                         *)
(* LedgerSpec is the discipline of the settlement services: take the       *)
(* advisory lock of the debited key, read its balance, insert the          *)
(* debit/credit pair if the balance covers it, and keep the lock until the *)
(* transaction ends.  record_journal_pair itself compares nothing: the     *)
(* comparison in RecordJournalPair is the one its caller has just made.    *)
(* Rtgs.tla and FxSettlement.tla are shown to implement LedgerSpec; a      *)
(* redemption (TokenIssuance.tla) and an escrow release                    *)
(* (PaymentEngine.tla) do not make that comparison, and those modules take *)
(* only the operators from here.                                           *)
(***************************************************************************)
EXTENDS Integers, FiniteSets, Functions, FiniteSetsExt

CONSTANTS
  Sessions,     \* database sessions: worker threads and request handlers
  Liabilities,  \* keys with chart-of-accounts code INSTITUTION_LIABILITY
  Assets,       \* keys with an asset code (OMNIBUS_RESERVE, FX_NOSTRO_*)
  Opening,      \* SUM(credit) - SUM(debit) of each key at the start
  Amounts,      \* the amounts that are transferred
  MaxReserve,   \* bound on SUM(debit) - SUM(credit) of an asset key
  NoOne,        \* "no session"
  NoKey         \* "no key"

Keys == Liabilities \cup Assets

ASSUME KeysAssumption ==
  /\ Liabilities \cap Assets = {}
  /\ NoKey \notin Keys
  /\ NoOne \notin Sessions

ASSUME AmountsAssumption == Amounts \subseteq Nat \ {0}

ASSUME MaxReserveAssumption == MaxReserve \in Nat

\* No institution starts overdrawn.
ASSUME OpeningAssumption ==
  /\ Opening \in [Keys -> Int]
  /\ \A k \in Liabilities : Opening[k] >= 0

VARIABLES
  ledger,  \* committed journal: SUM(credit) - SUM(debit) of each key
  delta,   \* per session, the same sum over its uncommitted entries
  holder,  \* holder of each key's transaction-level advisory lock
  seen     \* per session, the balance its last get_balance returned

ledgerVars == <<ledger, delta, holder, seen>>

-----------------------------------------------------------------------------

NoRead == [key |-> NoKey, balance |-> 0]

NoEntries == [k \in Keys |-> 0]

(* What session s sees under READ COMMITTED: the committed entries and its *)
(* own.  An asset balance has the opposite sign of a liability balance.    *)
Balance(s, k) ==
  LET net == ledger[k] + delta[s][k]
  IN  IF k \in Assets THEN -net ELSE net

-----------------------------------------------------------------------------

(* pg_advisory_xact_lock: exclusive, re-entrant, blocks while another      *)
(* session holds the key.                                                  *)
AcquireWithoutWaiting(s, k) ==
  /\ holder' = [holder EXCEPT ![k] = s]
  /\ UNCHANGED <<ledger, delta, seen>>

AcquireBalanceLock(s, k) ==
  /\ holder[k] \in {NoOne, s}
  /\ holder' = [holder EXCEPT ![k] = s]
  /\ UNCHANGED <<ledger, delta, seen>>

(* get_balance, called with the lock of the key held. *)
GetBalance(s, k) ==
  /\ holder[k] = s
  /\ seen' = [seen EXCEPT ![s] = [key |-> k, balance |-> Balance(s, k)]]
  /\ UNCHANGED <<ledger, delta, holder>>

(* The caller raises ValueError("Insufficient ...") instead of recording. *)
RefuseInsufficient(s, k, amount) ==
  /\ seen[s].key = k
  /\ seen[s].balance < amount
  /\ seen' = [seen EXCEPT ![s] = NoRead]
  /\ UNCHANGED <<ledger, delta, holder>>

(* The debit and the credit entry of one journal_id, flushed together by a *)
(* caller that has found the balance sufficient.  An asset key is debited  *)
(* (tokens are minted against it) only up to the model's bound MaxReserve. *)
PairEntries(s, debit, credit, amount) ==
  [delta EXCEPT ![s] = [k \in Keys |->
     @[k] - (IF k = debit THEN amount ELSE 0)
          + (IF k = credit THEN amount ELSE 0)]]

RecordJournalPair(s, debit, credit, amount) ==
  /\ seen[s].key = debit
  /\ seen[s].balance >= amount
  /\ debit \in Assets => seen[s].balance + amount <= MaxReserve
  /\ delta' = PairEntries(s, debit, credit, amount)
  /\ seen' = [seen EXCEPT ![s] = NoRead]
  /\ UNCHANGED <<ledger, holder>>

(* The end of a transaction releases every advisory lock of the session.   *)
EndTransaction(s) ==
  /\ delta' = [delta EXCEPT ![s] = NoEntries]
  /\ holder' = [k \in Keys |-> IF holder[k] = s THEN NoOne ELSE holder[k]]
  /\ seen' = [seen EXCEPT ![s] = NoRead]

Commit(s) ==
  /\ ledger' = [k \in Keys |-> ledger[k] + delta[s][k]]
  /\ EndTransaction(s)

(* Any exception, a crash of the process, or PostgreSQL choosing the       *)
(* session as the victim of a lock cycle.                                  *)
Rollback(s) ==
  /\ EndTransaction(s)
  /\ UNCHANGED ledger

-----------------------------------------------------------------------------

LedgerInit ==
  /\ ledger = Opening
  /\ delta = [s \in Sessions |-> NoEntries]
  /\ holder = [k \in Keys |-> NoOne]
  /\ seen = [s \in Sessions |-> NoRead]

LedgerNext ==
  \E s \in Sessions :
    \/ \E k \in Keys : AcquireBalanceLock(s, k)
    \/ \E k \in Keys : GetBalance(s, k)
    \/ \E k \in Keys, amount \in Amounts : RefuseInsufficient(s, k, amount)
    \/ \E debit, credit \in Keys, amount \in Amounts :
          RecordJournalPair(s, debit, credit, amount)
    \/ Commit(s)
    \/ Rollback(s)

LedgerSpec == LedgerInit /\ [][LedgerNext]_ledgerVars

-----------------------------------------------------------------------------

(* Every variable keeps its shape. *)
LedgerTypeOK ==
  /\ ledger \in [Keys -> Int]
  /\ delta \in [Sessions -> [Keys -> Int]]
  /\ holder \in [Keys -> Sessions \cup {NoOne}]
  /\ seen \in [Sessions -> [key : Keys \cup {NoKey}, balance : Int]]

(* No committed liability balance is ever negative: the double-spend that  *)
(* acquire_balance_lock is there to prevent.                               *)
NoOverdraft == \A k \in Liabilities : ledger[k] >= 0

(* An uncommitted net debit is covered by the committed balance and        *)
(* protected by the session's lock, so committing it cannot overdraw.      *)
PendingCovered ==
  \A s \in Sessions, k \in Keys :
    /\ delta[s][k] < 0 => holder[k] = s
    /\ k \in Liabilities => ledger[k] + delta[s][k] >= 0

(* The balance a session has read and is about to act on is still covered  *)
(* by what the session would read now, and its key is still locked.        *)
SeenStillCovered ==
  \A s \in Sessions :
    LET k == seen[s].key
    IN  k # NoKey =>
          /\ holder[k] = s
          /\ k \in Liabilities =>
               seen[s].balance <= ledger[k] + delta[s][k]

(* The inductive invariant behind NoOverdraft. *)
LedgerInv ==
  LedgerTypeOK /\ NoOverdraft /\ PendingCovered /\ SeenStillCovered

(* While a session keeps the lock of an institution's key, no other        *)
(* session's commit lowers the balance of that key: what was checked under *)
(* the lock stands until the session itself ends its transaction.  Nothing *)
(* of the kind holds for the reserve and the nostros: a credit, which      *)
(* lowers an asset's balance, is recorded without their lock.              *)
CheckedBalanceStands ==
  [][\A s \in Sessions, k \in Liabilities :
       holder[k] = s /\ holder'[k] = s => ledger'[k] >= ledger[k]]_ledgerVars

=============================================================================
